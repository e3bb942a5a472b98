------------------------ MODULE HouseholdsOverlaps -------------------------
(***************************************************************************)
(* The handlers check and then write, so some guarantees fail when two     *)
(* requests overlap.  Each theorem here names the one overlap that breaks  *)
(* its guarantee: as long as that overlap does not happen, the guarantee   *)
(* survives every other interleaving.  A server that handles one request   *)
(* at a time has none of the overlaps, which gives the last theorems.      *)
(***************************************************************************)
EXTENDS HouseholdsSafety

-----------------------------------------------------------------------------
(* Who loses a membership or an admin role, and by whose request.          *)

\* In a household that stays live, a role changes by a removal, a change of
\* role or an accept of that user only.
LEMMA RoleChange ==
  ASSUME TypeOK, NoDanglingReference, [Next]_vars,
         NEW h \in Households, NEW u \in Users,
         state'[h] = "live", role[h][u] # "none", role'[h][u] # role[h][u]
  PROVE  \E r \in Requests :
           /\ req[r].house = h /\ req[r].target = u
           /\ \/ /\ Repairing(r, "member") /\ ~UserLocked(r, u)
                 /\ role'[h][u] = "none" /\ Finish(r)
              \/ req[r].step = "setting_role" /\ req[r].role = role'[h][u]
           /\ \A v \in Users : v # u => role'[h][v] = role[h][v]
<1> DEFINE Cause(r) ==
      /\ req[r].house = h /\ req[r].target = u
      /\ \/ /\ Repairing(r, "member") /\ ~UserLocked(r, u)
            /\ role'[h][u] = "none" /\ Finish(r)
         \/ req[r].step = "setting_role" /\ req[r].role = role'[h][u]
      /\ \A v \in Users : v # u => role'[h][v] = role[h][v]
<1>0. state[h] = "live" /\ role' # role
  BY DEF NoDanglingReference, Members
<1>1. ASSUME NEW r \in Requests, NEW c \in Users, CreateHousehold(r, c)
      PROVE  FALSE
  BY <1>0, <1>1 DEF CreateHousehold, TypeOK
<1>2. ASSUME NEW r \in Requests, WriteAccept(r) PROVE FALSE
  BY <1>0, <1>2, ReadType DEF WriteAccept, TypeOK
<1>3. ASSUME NEW r \in Requests, Removal(r) PROVE Cause(r)
  <2>1. /\ Repairing(r, "member") /\ h = req[r].house /\ u = req[r].target
        /\ role'[h][u] = "none"
    BY <1>3, RemovalTakes
  <2>2. ~UserLocked(r, u)
    BY <1>3, <2>1 DEF Removal, Resumes, Repairing
  <2>3. \A v \in Users : v # u => role'[h][v] = role[h][v]
    BY <1>3, <2>1, RemovalTakes
  <2>4. Finish(r)
    BY <1>3, RemovalEffect
  <2>5. QED
    BY <2>1, <2>2, <2>3, <2>4
<1>4. ASSUME NEW r \in Requests, WriteSetRole(r) PROVE Cause(r)
  <2>1. /\ req[r].step = "setting_role"
        /\ role' = [role EXCEPT ![req[r].house][req[r].target] = req[r].role]
    BY <1>0, <1>4 DEF WriteSetRole
  <2>2. req[r].house \in Households /\ req[r].target \in Users
    BY <2>1, ReadType
  <2>3. req[r].house = h /\ req[r].target = u
    BY <2>1, <2>2 DEF TypeOK
  <2>4. QED
    BY <2>1, <2>3 DEF TypeOK
<1>5. ASSUME NEW r \in Requests, Deletion(r) PROVE FALSE
  <2>1. /\ req[r].house \in Households /\ Cascade(req[r].house)
        /\ state' = [state EXCEPT ![req[r].house] = "deleted"]
    BY <1>5, DeletionEffect
  <2>2. req[r].house # h
    BY <2>1 DEF TypeOK
  <2>3. QED
    BY <2>1, <2>2 DEF Cascade, TypeOK
<1>6. QED
  BY <1>0, Writers, <1>1, <1>2, <1>3, <1>4, <1>5
     DEF PointerStep, RowStep, ClearStale, SetFallback, ClearListed,
         WriteSwitch, WriteInvite, WriteRevoke, WriteResend, Age, Expire

\* A household a waiting request refers to can only stay live or be deleted.
LEMMA StaysLive ==
  ASSUME TypeOK, HouseExists, [Next]_vars, NEW r \in Requests,
         req[r].step \notin {"idle", "clearing", "list_clearing"},
         state'[req[r].house] = "live"
  PROVE  req[r].house \in Households /\ state[req[r].house] = "live"
  BY ReadType, StateStep DEF HouseExists

-----------------------------------------------------------------------------
(* The last admin: a removal or demotion counts the admins when it checks  *)
(* and not when it writes.  Its target was not the only admin, and stays   *)
(* so unless another removal or demotion in the household is under way.    *)

OtherAdmin ==
  \A r \in Requests :
    Lowering(r) /\ state[req[r].house] = "live"
      => \E a \in Admins(req[r].house) : a # req[r].target

LastAdminInv == HasAdmin /\ OtherAdmin

LEMMA AnotherElement ==
  ASSUME NEW S, NEW x, Cardinality(S) > 1
  PROVE  \E y \in S : y # x
<1> SUFFICES ASSUME S \subseteq {x} PROVE FALSE
  OBVIOUS
<1>1. IsFiniteSet({x}) /\ Cardinality({x}) = 1
  BY FS_Singleton
<1>2. Cardinality(S) <= 1
  BY <1>1, FS_Subset
<1>3. Cardinality(S) \in Nat
  BY <1>1, FS_Subset, FS_CardinalityType
<1>4. QED
  BY <1>2, <1>3

\* An admin who is one no longer was the target of a lowering, and the
\* only one whose role changed.
LEMMA AdminLost ==
  ASSUME TypeOK, NoDanglingReference, [Next]_vars,
         NEW h \in Households, NEW a \in Users,
         state'[h] = "live", role[h][a] = "admin", role'[h][a] # "admin"
  PROVE  \E r \in Requests :
           /\ Lowering(r) /\ req[r].house = h /\ req[r].target = a
           /\ \A v \in Users : v # a => role'[h][v] = role[h][v]
  BY RoleChange DEF Lowering, Removing

LEMMA HasAdminStep ==
  ASSUME TypeOK, NoDanglingReference, LastAdminInv, [Next]_vars
  PROVE  HasAdmin'
<1> SUFFICES ASSUME NEW h \in Households, state'[h] = "live"
             PROVE  \E a \in Users : role'[h][a] = "admin"
  BY DEF HasAdmin, Admins
<1>1. CASE state[h] # "live"
  BY <1>1, StateStep
<1>2. CASE state[h] = "live"
  <2>1. PICK a \in Users : role[h][a] = "admin"
    BY <1>2 DEF LastAdminInv, HasAdmin, Admins
  <2>2. CASE role'[h][a] # "admin"
    <3>1. PICK r \in Requests :
            /\ Lowering(r) /\ req[r].house = h /\ req[r].target = a
            /\ \A v \in Users : v # a => role'[h][v] = role[h][v]
      BY <2>1, <2>2, AdminLost
    <3>2. \E b \in Users : role[h][b] = "admin" /\ b # a
      BY <1>2, <3>1 DEF LastAdminInv, OtherAdmin, Admins
    <3>3. QED
      BY <3>1, <3>2
  <2>3. QED
    BY <2>1, <2>2
<1>3. QED
  BY <1>1, <1>2

LEMMA OtherAdminStep ==
  ASSUME TypeOK, NoDanglingReference, HouseExists, LastAdminInv, OneLowering,
         [Next]_vars
  PROVE  OtherAdmin'
<1> SUFFICES ASSUME NEW r \in Requests, Lowering(r)', state'[req'[r].house] = "live"
             PROVE  \E a \in Users : /\ role'[req'[r].house][a] = "admin"
                                     /\ a # req'[r].target
  BY DEF OtherAdmin, Admins
<1> DEFINE h == req'[r].house
           t == req'[r].target
<1>0. req'[r].step \in {"removing", "setting_role", "repairing"}
  BY DEF Lowering, Removing, Repairing
<1>1. CASE req'[r] = req[r]
  <2>1. Lowering(r) /\ req[r].house = h /\ req[r].target = t
    BY <1>1 DEF Lowering, Removing, Repairing
  <2>2. h \in Households /\ state[h] = "live"
    BY <1>0, <1>1, StaysLive
  <2>3. PICK a \in Users : role[h][a] = "admin" /\ a # t
    BY <2>1, <2>2 DEF LastAdminInv, OtherAdmin, Admins
  <2>4. role'[h][a] = "admin"
    <3>1. SUFFICES ASSUME role'[h][a] # "admin" PROVE FALSE
      OBVIOUS
    <3>2. PICK s \in Requests : Lowering(s) /\ req[s].house = h /\ req[s].target = a
      BY <2>2, <2>3, <3>1, AdminLost
    <3>3. s = r
      BY <2>1, <3>2 DEF OneLowering
    <3>4. QED
      BY <2>1, <2>3, <3>2, <3>3
  <2>5. QED
    BY <2>3, <2>4
<1>2. CASE req'[r] # req[r] /\ req'[r].step = "repairing"
  <2>1. /\ UNCHANGED <<state, role>>
        /\ req[r].step = "removing" /\ req[r].role # "none"
        /\ req[r].house = h /\ req[r].target = t
    BY <1>2, Reads DEF Lowering, Removing
  <2>2. Lowering(r) /\ state[req[r].house] = "live"
    <3>1. h \in Households
      BY <2>1, ReadType
    <3>2. QED
      BY <2>1, <3>1 DEF Lowering, Removing
  <2>3. QED
    BY <2>1, <2>2 DEF LastAdminInv, OtherAdmin, Admins
<1>3. CASE req'[r] # req[r] /\ req'[r].step # "repairing"
  <2>1. /\ UNCHANGED <<state, role>>
        /\ role[h][t] = "admin" => Cardinality(Admins(h)) > 1
    BY <1>0, <1>3, Reads
  <2>2. h \in Households /\ state[h] = "live"
    <3>1. TypeOK'
      BY NextType
    <3>2. req'[r] \in Request
      BY <3>1 DEF TypeOK
    <3>3. h \in Households
      BY <1>0, <3>2 DEF Request
    <3>4. QED
      BY <2>1, <3>3
  <2>3. CASE role[h][t] = "admin"
    <3>1. \E a \in Admins(h) : a # t
      BY <2>1, <2>3, AnotherElement
    <3>2. QED
      BY <2>1, <3>1 DEF Admins
  <2>4. CASE role[h][t] # "admin"
    BY <2>1, <2>2, <2>4 DEF LastAdminInv, HasAdmin, Admins
  <2>5. QED
    BY <2>3, <2>4
<1>4. QED
  BY <1>1, <1>2, <1>3

\* remove_member and update_member_role keep an admin in every household, as
\* long as no two removals or demotions in one household overlap: accepts,
\* promotions, deletions and everything else may.
THEOREM HasAdminUnlessLoweringsOverlap == Spec /\ []OneLowering => []HasAdmin
<1>1. Init => LastAdminInv
  BY DEF Init, Idle, LastAdminInv, HasAdmin, OtherAdmin, Lowering, Removing,
         Repairing
<1>2. TypeOK /\ NoDanglingReference /\ HouseExists /\ LastAdminInv
      /\ OneLowering /\ [Next]_vars
        => LastAdminInv'
  BY HasAdminStep, OtherAdminStep DEF LastAdminInv
<1>3. LastAdminInv => HasAdmin
  BY DEF LastAdminInv
<1>4. QED
  BY <1>1, <1>2, <1>3, TypeCorrect, NoDanglingReferenceCorrect,
     HouseExistsCorrect, PTL DEF Spec

-----------------------------------------------------------------------------
(* The active household: switch_household and the fallback check that the  *)
(* caller is a member and write the pointer later, and a repair selects a  *)
(* fallback and writes it later.  Only a removal of that user from that    *)
(* household makes the pointer wrong; a deletion does not, for then the    *)
(* write fails on its foreign key.                                         *)

\* A selected fallback exists, and is not the membership being removed.
FallbackInv ==
  \A r \in Requests :
    req[r].step = "repairing" /\ req[r].fallback # NULL
      => /\ state[req[r].fallback] # "new"
         /\ req[r].gone # "nothing" => req[r].fallback # req[r].house

LEMMA FallbackInvStep ==
  ASSUME TypeOK, FallbackInv, [Next]_vars
  PROVE  FallbackInv'
<1> SUFFICES ASSUME NEW r \in Requests, req'[r].step = "repairing",
                    req'[r].fallback # NULL
             PROVE  /\ state'[req'[r].fallback] # "new"
                    /\ req'[r].gone # "nothing"
                         => req'[r].fallback # req'[r].house
  BY DEF FallbackInv
<1>1. CASE req'[r] = req[r]
  <2>1. req[r].fallback \in Households
    BY <1>1 DEF TypeOK, Request
  <2>2. QED
    BY <1>1, <2>1, StateStep DEF FallbackInv
<1>2. CASE req'[r] # req[r]
  <2>1. Selects(r)
    BY <1>2, RepairStarts
  <2>2. QED
    BY <2>1, SelectEffect DEF Selects, MembershipsOf
<1>3. QED
  BY <1>1, <1>2

LEMMA FallbackInvCorrect == Spec => []FallbackInv
<1>1. Init => FallbackInv
  BY DEF Init, Idle, FallbackInv
<1>2. QED
  BY <1>1, FallbackInvStep, TypeCorrect, PTL DEF Spec

\* What a request will write, or has written, is still a membership.
StillMember ==
  \A r \in Requests, u \in Users, h \in Households :
    PointsTo(r, u, h) /\ state[h] = "live" => role[h][u] # "none"

WrittenMember ==
  \A r \in Requests : \A u \in DOMAIN req[r].written :
    req[r].written[u] # NULL => role[req[r].written[u]][u] # "none"

ActiveInv == ActiveIsMembership /\ StillMember /\ WrittenMember

\* Only a removal takes a membership of a household that stays, and nobody
\* else has the user's row.
LEMMA MembershipLost ==
  ASSUME TypeOK, NoDanglingReference, [Next]_vars,
         NEW h \in Households, NEW u \in Users,
         state'[h] = "live", role[h][u] # "none", role'[h][u] = "none"
  PROVE  \E s \in Requests : /\ Repairing(s, "member") /\ ~UserLocked(s, u)
                             /\ req[s].house = h /\ req[s].target = u
                             /\ req'[s] = Idle
<1>1. ASSUME NEW s \in Requests, req[s].step = "setting_role"
      PROVE  req[s].role # "none"
  BY <1>1, ReadType DEF Roles
<1>2. ASSUME NEW s \in Requests, Finish(s) PROVE req'[s] = Idle
  BY <1>2 DEF Finish, TypeOK
<1>3. QED
  BY <1>1, <1>2, RoleChange

LEMMA StillMemberStep ==
  ASSUME TypeOK, NoDanglingReference, HouseExists, FallbackInv, StillMember,
         NoPointerWhileRemoved, [Next]_vars
  PROVE  StillMember'
<1> SUFFICES ASSUME NEW r \in Requests, NEW u \in Users, NEW h \in Households,
                    PointsTo(r, u, h)', state'[h] = "live"
             PROVE  role'[h][u] # "none"
  BY DEF StillMember
<1>1. CASE req'[r] # req[r]
  <2>1. CASE req'[r].step \in {"switching", "falling_back"}
    BY <1>1, <2>1, Reads DEF PointsTo
  <2>2. CASE req'[r].step = "repairing"
    <3>1. Selects(r)
      BY <1>1, <2>2, RepairStarts
    <3>2. h # NULL
      BY HouseholdsAssumption DEF HouseholdsAssumption
    <3>3. h \in MembershipsOf(u)
      BY <2>2, <3>1, <3>2, SelectEffect DEF PointsTo
    <3>4. QED
      BY <3>1, <3>3 DEF Selects, MembershipsOf
  <2>3. QED
    BY <2>1, <2>2 DEF PointsTo
<1>2. CASE req'[r] = req[r]
  <2>1. PointsTo(r, u, h)
    BY <1>2 DEF PointsTo
  <2>2. state[h] # "new"
    <3>1. h # NULL
      BY HouseholdsAssumption DEF HouseholdsAssumption
    <3>2. QED
      BY <2>1, <3>1 DEF PointsTo, HouseExists, FallbackInv
  <2>3. state[h] = "live"
    BY <2>2, StateStep
  <2>4. role[h][u] # "none"
    BY <2>1, <2>3 DEF StillMember
  <2>5. ASSUME role'[h][u] = "none" PROVE FALSE
    <3>1. PICK s \in Requests : /\ Repairing(s, "member")
                                /\ req[s].house = h /\ req[s].target = u
      BY <2>4, <2>5, MembershipLost
    <3>2. QED
      BY <2>1, <3>1 DEF NoPointerWhileRemoved, Removing
  <2>6. QED
    BY <2>5
<1>3. QED
  BY <1>1, <1>2

LEMMA WrittenMemberStep ==
  ASSUME TypeOK, PendingInv, NoDanglingReference, ActiveInv, [Next]_vars
  PROVE  WrittenMember'
<1>0. PendingInv' /\ TypeOK'
  BY PendingStep, NextType
<1> SUFFICES ASSUME NEW r \in Requests, NEW u \in DOMAIN req'[r].written,
                    req'[r].written[u] # NULL
             PROVE  role'[req'[r].written[u]][u] # "none"
  BY DEF WrittenMember
<1> DEFINE p == req'[r].written[u]
<1>1. /\ req'[r].step = "repairing" /\ u \in Users /\ p \in Households
      /\ state'[p] = "live"
  <2>1. req'[r] \in Request
    BY <1>0 DEF TypeOK
  <2>2. req'[r].step = "repairing" /\ u \in Users /\ p \in Households \cup {NULL}
    BY <2>1 DEF Request, NothingWritten, Updates
  <2>3. p \in Written(r)'
    BY DEF Written
  <2>4. QED
    BY <1>0, <2>2, <2>3 DEF PendingInv
<1>2. CASE req'[r] = req[r]
  <2>1. role[p][u] # "none"
    BY <1>2 DEF ActiveInv, WrittenMember
  <2>2. ASSUME role'[p][u] = "none" PROVE FALSE
    <3>1. PICK s \in Requests :
            /\ Repairing(s, "member") /\ ~UserLocked(s, u)
            /\ req[s].target = u /\ req'[s] = Idle
      BY <1>1, <2>1, <2>2, MembershipLost
    <3>2. s = r
      BY <1>1, <1>2, <3>1 DEF UserLocked
    <3>3. QED
      BY <1>1, <3>1, <3>2 DEF Idle
  <2>3. QED
    BY <2>2
<1>3. CASE req'[r] # req[r]
  <2>1. Selects(r) /\ UNCHANGED <<state, role>>
    BY <1>1, <1>3, RepairStarts DEF Selects
  <2>2. req'[r].written = Added(req[r].written, req[r].target, req[r].fallback)
    BY <2>1, SelectEffect DEF NothingWritten
  <2>3. CASE u = req[r].target
    <3>1. Repairing(r, "household")
      <4>1. Written(r)' # {}
        BY DEF Written
      <4>2. QED
        BY <2>1, <4>1, SelectEffect
    <3>2. p = req[r].fallback
      BY <2>2, <2>3 DEF Added
    <3>3. PointsTo(r, u, p)
      BY <2>3, <3>1, <3>2 DEF PointsTo, Repairing
    <3>4. QED
      BY <1>1, <2>1, <3>3 DEF ActiveInv, StillMember
  <2>4. CASE u # req[r].target
    <3>1. u \in DOMAIN req[r].written /\ p = req[r].written[u]
      BY <2>2, <2>4 DEF Added
    <3>2. QED
      BY <2>1, <3>1 DEF ActiveInv, WrittenMember
  <2>5. QED
    BY <2>3, <2>4
<1>4. QED
  BY <1>2, <1>3

LEMMA PointerActive ==
  ASSUME TypeOK, ActiveInv, NEW r \in Requests, PointerStep(r)
  PROVE  ActiveIsMembership'
<1> USE DEF ActiveInv, ActiveIsMembership, ActiveIsValid, MembershipsOf
<1>1. UNCHANGED <<state, role>>
  BY DEF PointerStep, ClearStale, SetFallback, ClearListed, WriteSwitch
<1>2. CASE ClearStale(r) \/ ClearListed(r)
  BY <1>1, <1>2 DEF ClearStale, ClearListed, TypeOK
<1>3. CASE SetFallback(r) \/ WriteSwitch(r)
  <2>1. /\ req[r].step \in {"switching", "falling_back"}
        /\ SetActive(r, req[r].user, req[r].house)
    BY <1>3 DEF SetFallback, WriteSwitch
  <2>2. /\ req[r].house \in Households
        /\ state[req[r].house] = "live" => role[req[r].house][req[r].user] # "none"
    BY <2>1, ReadType DEF StillMember, PointsTo
  <2>3. QED
    BY <1>1, <2>1, <2>2 DEF SetActive, TypeOK
<1>4. QED
  BY <1>2, <1>3 DEF PointerStep

LEMMA CreateActive ==
  ASSUME TypeOK, ActiveInv, NEW r \in Requests, NEW u \in Users,
         CreateHousehold(r, u)
  PROVE  ActiveIsMembership'
<1> USE DEF ActiveInv, ActiveIsMembership, ActiveIsValid, MembershipsOf
<1>1. PICK h \in Households :
        /\ state[h] = "new" /\ state' = [state EXCEPT ![h] = "live"]
        /\ role' = [role EXCEPT ![h][u] = "admin"]
        /\ active' = [active EXCEPT ![u] = h]
  BY DEF CreateHousehold, CreatorRole
<1>2. role'[h][u] = "admin" /\ state'[h] = "live"
  BY <1>1 DEF TypeOK
<1>3. \A g \in Households : g # h => state'[g] = state[g] /\ role'[g] = role[g]
  BY <1>1 DEF TypeOK
<1>4. QED
  BY <1>1, <1>2, <1>3 DEF TypeOK

LEMMA AcceptActive ==
  ASSUME TypeOK, ActiveInv, NEW r \in Requests, WriteAccept(r)
  PROVE  ActiveIsMembership'
<1> USE DEF ActiveInv, ActiveIsMembership, ActiveIsValid, MembershipsOf
<1> DEFINE h == req[r].house
           u == req[r].user
<1>1. u \in Users /\ h \in Households /\ req[r].role \in {"admin", "member"}
  BY ReadType DEF WriteAccept, Roles
<1>2. CASE UNCHANGED <<role, active>>
  BY <1>2 DEF WriteAccept
<1>3. CASE /\ state[h] = "live" /\ role[h][u] = "none"
           /\ role' = [role EXCEPT ![h][u] = req[r].role]
           /\ active' = [active EXCEPT ![u] = h]
  <2>1. UNCHANGED state
    BY DEF WriteAccept
  <2>2. \A g \in Households, v \in Users :
          role'[g][v] = IF g = h /\ v = u THEN req[r].role ELSE role[g][v]
    BY <1>1, <1>3 DEF TypeOK
  <2>3. QED
    BY <1>1, <1>3, <2>1, <2>2 DEF TypeOK
<1>4. QED
  BY <1>2, <1>3 DEF WriteAccept

\* What a repair commits is a membership of the user.
LEMMA RepairedMember ==
  ASSUME TypeOK, PendingInv, NoDanglingReference, ActiveInv,
         NEW r \in Requests, NEW q, Resumes(r, q), q.affected = {},
         NEW u \in Users, Repaired(q)[u] # NULL
  PROVE  Repaired(q)[u] \in MembershipsOf(u)
<1>0. /\ Repaired(q)[u] \in Households /\ state[Repaired(q)[u]] = "live"
  BY RepairedLive
<1>1. CASE u \in DOMAIN q.written
  <2>1. /\ req[r].step = "repairing"
        /\ q.written = Added(req[r].written, req[r].target, req[r].fallback)
    BY <1>1 DEF Resumes, NothingWritten
  <2>2. Repaired(q)[u] = q.written[u]
    BY <1>1 DEF Repaired
  <2>3. CASE u = req[r].target
    <3>1. PointsTo(r, u, Repaired(q)[u])
      BY <1>1, <2>1, <2>2, <2>3 DEF PointsTo, Added
    <3>2. QED
      BY <1>0, <3>1 DEF ActiveInv, StillMember, MembershipsOf
  <2>4. CASE u # req[r].target
    <3>1. u \in DOMAIN req[r].written /\ Repaired(q)[u] = req[r].written[u]
      BY <1>1, <2>1, <2>2, <2>4 DEF Added
    <3>2. QED
      BY <1>0, <3>1 DEF ActiveInv, WrittenMember, MembershipsOf
  <2>5. QED
    BY <2>3, <2>4
<1>2. CASE u \notin DOMAIN q.written
  <2>1. Repaired(q)[u] = active[u]
    BY <1>2 DEF Repaired
  <2>2. QED
    BY <2>1 DEF ActiveInv, ActiveIsMembership, ActiveIsValid
<1>3. QED
  BY <1>1, <1>2

LEMMA RemoveActive ==
  ASSUME TypeOK, PendingInv, NoDanglingReference, FallbackInv, ActiveInv,
         NEW r \in Requests, Removal(r)
  PROVE  ActiveIsMembership'
<1> SUFFICES ASSUME NEW u \in Users, active'[u] # NULL
             PROVE  ActiveIsValid(u)'
  BY DEF ActiveIsMembership
<1>1. PICK q : /\ Resumes(r, q) /\ q.affected = {} /\ active' = Repaired(q)
  BY DEF Removal, CommitRepair
<1>2. active'[u] \in MembershipsOf(u) /\ UNCHANGED state
  BY <1>1, RepairedMember, RemovalEffect
<1>3. role'[active'[u]][u] = role[active'[u]][u]
  <2>1. ASSUME Repairing(r, "member"), u = req[r].target
        PROVE  active'[u] # req[r].house
    <3>1. q.written = Added(req[r].written, u, req[r].fallback)
      BY <1>1, <2>1 DEF Resumes, Repairing
    <3>2. active'[u] = req[r].fallback
      BY <1>1, <3>1 DEF Repaired, Added
    <3>3. QED
      BY <2>1, <3>2 DEF FallbackInv, Repairing
  <2>2. active'[u] \in Households
    BY <1>2 DEF MembershipsOf
  <2>3. QED
    BY <2>1, <2>2, RemovalTakes
<1>4. QED
  BY <1>2, <1>3 DEF ActiveIsValid, MembershipsOf

LEMMA SetRoleActive ==
  ASSUME TypeOK, ActiveInv, NEW r \in Requests, WriteSetRole(r)
  PROVE  ActiveIsMembership'
<1> USE DEF ActiveInv, ActiveIsMembership, ActiveIsValid, MembershipsOf
<1>1. /\ req[r].target \in Users /\ req[r].house \in Households
      /\ req[r].role \in {"admin", "member"}
      /\ UNCHANGED <<state, active>>
  BY ReadType DEF WriteSetRole, Roles
<1>2. \A g \in Households, v \in Users :
        role[g][v] # "none" => role'[g][v] # "none"
  BY <1>1 DEF WriteSetRole, RowToUpdate, TypeOK
<1>3. QED
  BY <1>1, <1>2

LEMMA DeleteActive ==
  ASSUME TypeOK, PendingInv, NoDanglingReference, ActiveInv,
         NEW r \in Requests, Deletion(r)
  PROVE  ActiveIsMembership'
<1> SUFFICES ASSUME NEW u \in Users, active'[u] # NULL
             PROVE  ActiveIsValid(u)'
  BY DEF ActiveIsMembership
<1> DEFINE h == req[r].house
<1>1. PICK q : /\ Resumes(r, q) /\ q.affected = {} /\ active' = Repaired(q)
               /\ q.gone = "household" /\ q.house = h
  BY DEF Deletion, CommitRepair, Resumes
<1>2. active'[u] \in MembershipsOf(u) /\ active'[u] # h
  BY <1>1, RepairedMember, RepairedLive
<1>3. /\ state' = [state EXCEPT ![h] = "deleted"] /\ Cascade(h)
  BY DeletionEffect
<1>4. \A g \in Households : g # h => state'[g] = state[g] /\ role'[g] = role[g]
  BY <1>3 DEF Cascade, TypeOK
<1>5. QED
  BY <1>2, <1>4 DEF ActiveIsValid, MembershipsOf

LEMMA ActiveStep ==
  ASSUME TypeOK, PendingInv, NoDanglingReference, FallbackInv, ActiveInv,
         [Next]_vars
  PROVE  ActiveIsMembership'
<1>1. CASE UNCHANGED <<state, role, active>>
  BY <1>1 DEF ActiveInv, ActiveIsMembership, ActiveIsValid, MembershipsOf
<1>2. QED
  BY <1>1, Writers, PointerActive, CreateActive, AcceptActive, RemoveActive,
     SetRoleActive, DeleteActive
     DEF RowStep, WriteInvite, WriteRevoke, WriteResend, Age, Expire

\* A user's active household is one of the user's households, as long as
\* nobody is removed from a household while a switch or a fallback of theirs,
\* or the repair of another removal or deletion, makes it their active one.
\* The members hard_delete repairs may be out of date: the foreign key clears
\* the pointers it misses.
THEOREM ActiveIsMembershipUnlessRemovedMeanwhile ==
  Spec /\ []NoPointerWhileRemoved => []ActiveIsMembership
<1>1. Init => ActiveInv
  BY DEF Init, Idle, NothingWritten, ActiveInv, ActiveIsMembership,
         StillMember, PointsTo, WrittenMember
<1>2. TypeOK /\ PendingInv /\ NoDanglingReference /\ HouseExists
      /\ FallbackInv /\ ActiveInv /\ NoPointerWhileRemoved /\ [Next]_vars
        => ActiveInv'
  BY ActiveStep, StillMemberStep, WrittenMemberStep DEF ActiveInv
<1>3. ActiveInv => ActiveIsMembership
  BY DEF ActiveInv
<1>4. QED
  BY <1>1, <1>2, <1>3, TypeCorrect, PendingCorrect, NoDanglingReferenceCorrect,
     HouseExistsCorrect, FallbackInvCorrect, PTL DEF Spec

-----------------------------------------------------------------------------
(* Accepted invitations: revoke_invitation and resend_invitation check the *)
(* status and then update the row by id.  Only an accept of the invitation *)
(* between the two undoes what they have checked.                          *)

NotTaken ==
  \A r \in Requests :
    req[r].step \in {"revoking", "resending"}
      => invite[req[r].inv].status # "accepted"

LEMMA TakenByAccept ==
  ASSUME TypeOK, [Next]_vars, NEW i \in Invitations,
         invite[i].status # "accepted", invite'[i].status = "accepted"
  PROVE  \E r \in Requests : req[r].step = "accepting" /\ req[r].inv = i
<1>0. invite[i] \in Invitation /\ invite' # invite
  BY DEF TypeOK
<1>1. ASSUME NEW r \in Requests, WriteAccept(r)
      PROVE  req[r].step = "accepting" /\ req[r].inv = i
  <2>1. invite' = [invite EXCEPT ![req[r].inv].status = "accepted"]
    BY <1>0, <1>1 DEF WriteAccept
  <2>2. QED
    BY <1>1, <2>1 DEF WriteAccept, TypeOK
<1>2. ASSUME NEW r \in Requests, WriteInvite(r) PROVE FALSE
  BY <1>2 DEF WriteInvite, TypeOK
<1>3. ASSUME NEW r \in Requests, WriteRevoke(r) \/ WriteResend(r) PROVE FALSE
  <2>1. CASE i = req[r].inv
    <3>1. CASE invite' = [invite EXCEPT ![i].status = "revoked"]
      BY <1>0, <3>1 DEF TypeOK, Invitation
    <3>2. CASE invite' = [invite EXCEPT ![i] =
                            [@ EXCEPT !.status = "pending", !.expired = FALSE,
                                      !.resends = invite[i].resends + 1]]
      BY <1>0, <3>2 DEF TypeOK, Invitation
    <3>3. QED
      BY <1>0, <1>3, <2>1, <3>1, <3>2 DEF WriteRevoke, WriteResend
  <2>2. CASE i # req[r].inv
    BY <1>3, <2>2 DEF WriteRevoke, WriteResend, TypeOK
  <2>3. QED
    BY <2>1, <2>2
<1>4. ASSUME NEW r \in Requests, Deletion(r) PROVE FALSE
  <2>1. Cascade(req[r].house)
    BY <1>4, DeletionEffect
  <2>2. QED
    BY <1>0, <2>1 DEF Cascade, Invitation
<1>5. ASSUME NEW j \in Invitations, Age(j) \/ Expire(j) PROVE FALSE
  BY <1>5, TimeKeeps
<1>6. QED
  BY <1>0, Writers, RemovalEffect, <1>1, <1>2, <1>3, <1>4, <1>5
     DEF PointerStep, RowStep, ClearStale, SetFallback, ClearListed,
         WriteSwitch, CreateHousehold, WriteSetRole

LEMMA NotTakenStep ==
  ASSUME TypeOK, NotTaken, NoAcceptWhileUpdated, [Next]_vars
  PROVE  NotTaken'
<1> SUFFICES ASSUME NEW r \in Requests,
                    req'[r].step \in {"revoking", "resending"}
             PROVE  invite'[req'[r].inv].status # "accepted"
  BY DEF NotTaken
<1>1. CASE req'[r] # req[r]
  BY <1>1, Reads
<1>2. CASE req'[r] = req[r]
  <2>1. /\ req[r].step \in {"revoking", "resending"}
        /\ req[r].inv \in Invitations
        /\ invite[req[r].inv].status # "accepted"
    BY <1>2, ReadType DEF NotTaken
  <2>2. QED
    BY <1>2, <2>1, TakenByAccept DEF NoAcceptWhileUpdated
<1>3. QED
  BY <1>1, <1>2

LEMMA AcceptedStep ==
  ASSUME TypeOK, NotTaken, [Next]_vars, NEW i \in Invitations,
         invite[i].status = "accepted"
  PROVE  invite'[i].status \in {"accepted", "deleted"}
<1>0. invite[i] \in Invitation
  BY DEF TypeOK
<1>1. CASE UNCHANGED invite
  BY <1>1
<1>2. ASSUME NEW r \in Requests, WriteAccept(r)
      PROVE  invite'[i].status \in {"accepted", "deleted"}
  <2>1. CASE UNCHANGED invite
    BY <2>1
  <2>2. CASE invite' = [invite EXCEPT ![req[r].inv].status = "accepted"]
    BY <1>0, <2>2 DEF TypeOK, Invitation
  <2>3. QED
    BY <1>2, <2>1, <2>2 DEF WriteAccept
<1>3. ASSUME NEW r \in Requests, WriteInvite(r)
      PROVE  invite'[i].status \in {"accepted", "deleted"}
  BY <1>3 DEF WriteInvite, TypeOK
<1>4. ASSUME NEW r \in Requests, WriteRevoke(r) \/ WriteResend(r)
      PROVE  invite'[i].status \in {"accepted", "deleted"}
  <2>1. req[r].inv # i
    BY <1>4 DEF WriteRevoke, WriteResend, NotTaken
  <2>2. QED
    BY <1>0, <1>4, <2>1 DEF WriteRevoke, WriteResend, TypeOK
<1>5. ASSUME NEW r \in Requests, Deletion(r)
      PROVE  invite'[i].status \in {"accepted", "deleted"}
  <2>1. Cascade(req[r].house)
    BY <1>5, DeletionEffect
  <2>2. QED
    BY <1>0, <2>1 DEF Cascade, Invitation
<1>6. ASSUME NEW j \in Invitations, Age(j) \/ Expire(j)
      PROVE  invite'[i].status \in {"accepted", "deleted"}
  BY <1>6, TimeKeeps
<1>7. QED
  BY Writers, RemovalEffect, <1>1, <1>2, <1>3, <1>4, <1>5, <1>6
     DEF PointerStep, RowStep, ClearStale, SetFallback, ClearListed,
         WriteSwitch, CreateHousehold, WriteSetRole

\* An accepted invitation is neither revoked nor made usable again, as long
\* as it is not accepted while a revoke or a resend of it is under way.
THEOREM AcceptedIsFinalUnlessUpdatedMeanwhile ==
  Spec /\ []NoAcceptWhileUpdated => AcceptedIsFinal
<1>1. Init => NotTaken
  BY DEF Init, Idle, NotTaken
<1>2. TypeOK /\ NotTaken /\ NoAcceptWhileUpdated /\ [Next]_vars => NotTaken'
  BY NotTakenStep
<1>3. TypeOK /\ NotTaken /\ [Next]_vars =>
        [\A i \in Invitations :
           invite[i].status = "accepted"
             => invite'[i].status \in {"accepted", "deleted"}]_vars
  BY AcceptedStep
<1>4. QED
  BY <1>1, <1>2, <1>3, TypeCorrect, PTL DEF Spec, AcceptedIsFinal

\* accept_invite keeps every household within the member limit, as long as no
\* two accepts into one household overlap.
THEOREM WithinMemberLimitUnlessAcceptsOverlap ==
  Spec /\ []AcceptsAtMost(1) => []WithinMemberLimit
<1> DEFINE k == 1
<1>1. k \in Nat \ {0}
  OBVIOUS
<1>2. AcceptsAtMost(1) => AcceptsAtMost(k)
  OBVIOUS
<1>3. MembersBelow(k) => WithinMemberLimit
  <2> SUFFICES ASSUME MembersBelow(k), NEW h \in Households
               PROVE  Cardinality(Members(h)) <= MemberLimit
    BY DEF WithinMemberLimit
  <2>1. MemberLimit \in Nat
    BY HouseholdsAssumption DEF HouseholdsAssumption
  <2>2. QED
    BY <2>1, Counts DEF MembersBelow
<1> HIDE DEF k
<1>4. QED
  BY <1>1, <1>2, <1>3, MembersBelowCorrect, PTL

\* A specification that serializes these four overlaps has the guarantees.
THEOREM SerializedGuarantees ==
  SerializedSpec => /\ [](HasAdmin /\ ActiveIsMembership /\ WithinMemberLimit)
                    /\ AcceptedIsFinal
<1>1. Init => Serialized
  <2> SUFFICES ASSUME Init PROVE Serialized
    OBVIOUS
  <2>1. \A h \in Households : Accepting(h) = {}
    BY DEF Init, Idle, Accepting
  <2>2. AcceptsAtMost(1)
    BY <2>1, FS_EmptySet DEF AcceptsAtMost
  <2>3. QED
    BY <2>2 DEF Init, Idle, Serialized, OneLowering, Lowering, Removing,
                Repairing, NoPointerWhileRemoved, NoAcceptWhileUpdated
<1>2. Serialized /\ UNCHANGED vars => Serialized'
  BY DEF vars, Serialized, OneLowering, Lowering, Removing, Repairing,
         PointsTo, NoPointerWhileRemoved, NoAcceptWhileUpdated, AcceptsAtMost,
         Accepting
<1>3. Serialized => /\ OneLowering /\ NoPointerWhileRemoved
                    /\ NoAcceptWhileUpdated /\ AcceptsAtMost(1)
  BY DEF Serialized
<1>4. SerializedSpec => Spec /\ []Serialized
  BY <1>1, <1>2, PTL DEF SerializedSpec, Spec
<1>5. QED
  BY <1>3, <1>4, HasAdminUnlessLoweringsOverlap,
     ActiveIsMembershipUnlessRemovedMeanwhile,
     AcceptedIsFinalUnlessUpdatedMeanwhile,
     WithinMemberLimitUnlessAcceptsOverlap, PTL

-----------------------------------------------------------------------------
(* One request at a time: none of the overlaps happens.                    *)

OneAtATime == \A r, s \in Requests : r = s

LEMMA OneAtATimeSerializes ==
  ASSUME OneAtATime
  PROVE  /\ OneLowering /\ NoAcceptWhileUpdated
         /\ TypeOK /\ FallbackInv => NoPointerWhileRemoved
<1>1. OneLowering /\ NoAcceptWhileUpdated
  BY DEF OneAtATime, OneLowering, NoAcceptWhileUpdated
<1>2. ASSUME TypeOK, FallbackInv, NEW r \in Requests, Removing(r)
      PROVE  ~PointsTo(r, req[r].target, req[r].house)
  <2>1. req[r].house # NULL
    <3>1. req[r].house \in Households
      BY <1>2, ReadType DEF Removing, Repairing
    <3>2. QED
      BY <3>1, HouseholdsAssumption DEF HouseholdsAssumption
  <2>2. QED
    BY <1>2, <2>1 DEF PointsTo, Removing, Repairing, FallbackInv
<1>3. QED
  BY <1>1, <1>2 DEF OneAtATime, NoPointerWhileRemoved

\* remove_member and update_member_role never take the last admin away while
\* requests do not overlap.
THEOREM HasAdminSequentially ==
  ASSUME OneAtATime
  PROVE  Spec => []HasAdmin
  BY OneAtATimeSerializes, HasAdminUnlessLoweringsOverlap, PTL

\* A user's active household is one of the user's households while requests
\* do not overlap.
THEOREM ActiveIsMembershipSequentially ==
  ASSUME OneAtATime
  PROVE  Spec => []ActiveIsMembership
<1>1. TypeOK /\ FallbackInv => NoPointerWhileRemoved
  BY OneAtATimeSerializes
<1>2. QED
  BY <1>1, TypeCorrect, FallbackInvCorrect,
     ActiveIsMembershipUnlessRemovedMeanwhile, PTL

\* accept_invite keeps every household within the member limit while requests
\* do not overlap.
THEOREM WithinMemberLimitSequentially ==
  ASSUME Cardinality(Requests) = 1
  PROVE  Spec => []WithinMemberLimit
<1>1. AcceptsAtMost(1)
  BY Counts DEF AcceptsAtMost
<1>2. QED
  BY <1>1, WithinMemberLimitUnlessAcceptsOverlap, PTL

\* An accepted invitation is neither revoked nor made usable again while
\* requests do not overlap.
THEOREM AcceptedIsFinalSequentially ==
  ASSUME OneAtATime
  PROVE  Spec => AcceptedIsFinal
  BY OneAtATimeSerializes, AcceptedIsFinalUnlessUpdatedMeanwhile, PTL
=============================================================================
