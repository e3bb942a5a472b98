------------------------- MODULE HouseholdsProofs ---------------------------
(***************************************************************************)
(* Theorems about Households, for every value of its constants.  The type  *)
(* invariant comes first; every other proof rests on it.                   *)
(***************************************************************************)
EXTENDS Households, TLAPS

USE HouseholdsAssumption

-----------------------------------------------------------------------------
(* The records of the state.                                               *)

\* A request that has ended has a record of the right type.
LEMMA IdleType == Idle \in Request
<1>1. {} \in SUBSET Users
  OBVIOUS
<1>2. NothingWritten \in [{} -> Households \cup {NULL}]
  BY DEF NothingWritten
<1>3. NothingWritten \in Updates
  BY <1>1, <1>2 DEF Updates
<1>4. QED
  BY <1>3 DEF Idle, Request, Steps

\* What a request has read, as its record.
LEMMA ReadType ==
  ASSUME TypeOK, NEW r \in Requests
  PROVE  /\ req[r] \in Request
         /\ req[r].step # "idle" => req[r].user \in Users
         /\ req[r].step \notin {"idle", "clearing", "list_clearing"}
              => req[r].house \in Households
         /\ req[r].step \in {"accepting", "revoking", "resending"}
              => req[r].inv \in Invitations
         /\ req[r].step \in {"removing", "setting_role", "repairing"}
              => req[r].target \in Users
         /\ req[r].step \in {"accepting", "inviting", "setting_role"}
              => req[r].role \in Roles
         /\ req[r].role \in Roles \cup {"none"}
         /\ req[r].target \in Users \cup {NULL}
         /\ req[r].affected \subseteq Users
         /\ req[r].fallback \in Households \cup {NULL}
         /\ req[r].written \in Updates
         /\ req[r].step = "repairing" /\ req[r].gone # "household"
              => req[r].affected = {}
         /\ req[r].step # "repairing" => req[r].written = NothingWritten
  BY DEF TypeOK, Request

\* A request that moves on keeps the table of requests well typed.
LEMMA GotoType ==
  ASSUME TypeOK, NEW r \in Requests, NEW f \in Request, Goto(r, f)
  PROVE  req' \in [Requests -> Request]
  BY DEF TypeOK, Goto

\* So does one that ends.
LEMMA FinishType ==
  ASSUME TypeOK, NEW r \in Requests, Finish(r)
  PROVE  req' \in [Requests -> Request]
  BY IdleType DEF TypeOK, Finish

\* A resolved caller: a step that needs nothing but a user and a household.
LEMMA CallerType ==
  ASSUME NEW s \in {"authorized", "switching"},
         NEW u \in Users, NEW h \in Households
  PROVE  [Idle EXCEPT !.step = s, !.user = u, !.house = h] \in Request
  BY IdleType DEF Idle, Request, Steps

\* A caller whose first membership is about to become the active one.
LEMMA FallBackType ==
  ASSUME TypeOK, NEW r \in Requests, NEW u \in Users,
         NEW h \in MembershipsOf(u), FallBackTo(r, u, h)
  PROVE  req' \in [Requests -> Request]
<1>1. h \in Households /\ role[h][u] \in Roles \cup {"none"}
  BY DEF MembershipsOf, TypeOK
<1>2. [Idle EXCEPT !.step = "falling_back", !.user = u, !.house = h,
                   !.role = role[h][u]] \in Request
  BY <1>1, IdleType DEF Idle, Request, Steps
<1>3. QED
  BY <1>2, GotoType DEF FallBackTo

\* set_active_household leaves a household or NULL in the column.
LEMMA SetActiveType ==
  ASSUME TypeOK, NEW r \in Requests, NEW u \in Users, NEW h \in Households,
         SetActive(r, u, h)
  PROVE  active' \in [Users -> Households \cup {NULL}]
  BY DEF TypeOK, SetActive

\* An update of the columns of one invitation row.
LEMMA InviteType ==
  ASSUME TypeOK, NEW i \in Invitations, NEW v \in Invitation,
         invite' = [invite EXCEPT ![i] = v]
  PROVE  invite' \in [Invitations -> Invitation]
  BY DEF TypeOK

\* A changed status keeps a row an invitation.
LEMMA StatusType ==
  ASSUME TypeOK, NEW i \in Invitations, invite[i].status # "none",
         NEW s \in {"accepted", "revoked", "deleted"}
  PROVE  [invite[i] EXCEPT !.status = s] \in Invitation
<1>1. invite[i] \in Invitation
  BY DEF TypeOK
<1>2. QED
  BY <1>1 DEF Invitation

-----------------------------------------------------------------------------
(* The steps preserve the type invariant.                                  *)

LEMMA ResolveType ==
  ASSUME TypeOK, NEW r \in Requests, Resolve(r)
  PROVE  TypeOK'
<1>1. ASSUME NEW u \in Users, ResolveActive(r, u) PROVE TypeOK'
  <2>1. active[u] \in Households
    BY <1>1 DEF ResolveActive, ActiveIsValid, MembershipsOf
  <2>2. [Idle EXCEPT !.step = "authorized", !.user = u, !.house = active[u]]
          \in Request
    BY <2>1, CallerType
  <2>3. QED
    BY <1>1, <2>2, GotoType DEF ResolveActive, TypeOK
<1>2. ASSUME NEW u \in Users, ResolveStale(r, u) PROVE TypeOK'
  <2>1. [Idle EXCEPT !.step = "clearing", !.user = u] \in Request
    BY IdleType DEF Idle, Request, Steps
  <2>2. QED
    BY <1>2, <2>1, GotoType DEF ResolveStale, TypeOK
<1>3. ASSUME NEW u \in Users, ResolveUnset(r, u) PROVE TypeOK'
  BY <1>3, FallBackType DEF ResolveUnset, TypeOK
<1>4. ASSUME ClearStale(r) PROVE TypeOK'
  <2>1. req[r].user \in Users
    BY <1>4, ReadType DEF ClearStale
  <2>2. req' \in [Requests -> Request]
    BY <1>4, <2>1, FinishType, FallBackType DEF ClearStale
  <2>3. QED
    BY <1>4, <2>1, <2>2 DEF ClearStale, TypeOK
<1>5. ASSUME SetFallback(r) PROVE TypeOK'
  <2>1. req[r].user \in Users /\ req[r].house \in Households
    BY <1>5, ReadType DEF SetFallback
  <2>2. active' \in [Users -> Households \cup {NULL}]
    BY <1>5, <2>1, SetActiveType DEF SetFallback
  <2>3. [Idle EXCEPT !.step = "authorized", !.user = req[r].user,
                     !.house = req[r].house] \in Request
    BY <2>1, CallerType
  <2>4. req' \in [Requests -> Request]
    BY <1>5, <2>3, GotoType, FinishType DEF SetFallback
  <2>5. QED
    BY <1>5, <2>2, <2>4 DEF SetFallback, TypeOK
<1>6. ASSUME Refuse(r) PROVE TypeOK'
  BY <1>6, FinishType DEF Refuse, TypeOK
<1>7. QED
  BY <1>1, <1>2, <1>3, <1>4, <1>5, <1>6 DEF Resolve

LEMMA UserRequestType ==
  ASSUME TypeOK, NEW r \in Requests, UserRequest(r)
  PROVE  TypeOK'
<1>1. ASSUME NEW u \in Users, CreateHousehold(r, u) PROVE TypeOK'
  BY <1>1 DEF CreateHousehold, CreatorRole, TypeOK, Roles
<1>2. ASSUME NEW u \in Users, ListHouseholds(r, u) PROVE TypeOK'
  <2>1. [Idle EXCEPT !.step = "list_clearing", !.user = u] \in Request
    BY IdleType DEF Idle, Request, Steps
  <2>2. ASSUME NEW h \in MembershipsOf(u)
        PROVE  [Idle EXCEPT !.step = "switching", !.user = u, !.house = h]
                 \in Request
    BY <2>2, CallerType DEF MembershipsOf
  <2>3. req' \in [Requests -> Request]
    BY <1>2, <2>1, <2>2, GotoType DEF ListHouseholds
  <2>4. QED
    BY <1>2, <2>3 DEF ListHouseholds, TypeOK
<1>3. ASSUME ClearListed(r) PROVE TypeOK'
  <2>1. req' \in [Requests -> Request]
    BY <1>3, FinishType DEF ClearListed
  <2>2. QED
    BY <1>3, <2>1 DEF ClearListed, TypeOK
<1>4. ASSUME NEW u \in Users, NEW h \in Households, CheckSwitch(r, u, h)
      PROVE  TypeOK'
  BY <1>4, CallerType, GotoType DEF CheckSwitch, TypeOK
<1>5. ASSUME WriteSwitch(r) PROVE TypeOK'
  <2>1. req[r].user \in Users /\ req[r].house \in Households
    BY <1>5, ReadType DEF WriteSwitch
  <2>2. req' \in [Requests -> Request]
    BY <1>5, FinishType DEF WriteSwitch
  <2>3. QED
    BY <1>5, <2>1, <2>2, SetActiveType DEF WriteSwitch, TypeOK
<1>6. ASSUME NEW u \in Users, NEW i \in Invitations, CheckAccept(r, u, i)
      PROVE  TypeOK'
  <2>1. invite[i].house \in Households /\ invite[i].role \in Roles
    BY <1>6 DEF CheckAccept, Acceptable, TypeOK, Invitation
  <2>2. [Idle EXCEPT !.step = "accepting", !.user = u, !.inv = i,
                     !.house = invite[i].house, !.role = invite[i].role]
          \in Request
    BY <2>1, IdleType DEF Idle, Request, Steps
  <2>3. QED
    BY <1>6, <2>2, GotoType DEF CheckAccept, TypeOK
<1>7. ASSUME WriteAccept(r) PROVE TypeOK'
  <2> DEFINE q == req[r]
  <2>1. /\ q.user \in Users /\ q.house \in Households
        /\ q.inv \in Invitations /\ q.role \in Roles
    BY <1>7, ReadType DEF WriteAccept
  <2>2. req' \in [Requests -> Request]
    BY <1>7, FinishType DEF WriteAccept
  <2>3. CASE /\ state[q.house] = "live" /\ role[q.house][q.user] = "none"
             /\ StillPending(q.inv)
    <3>1. [invite[q.inv] EXCEPT !.status = "accepted"] \in Invitation
      BY <2>1, <2>3, StatusType DEF StillPending
    <3>2. invite' = [invite EXCEPT ![q.inv] =
                       [invite[q.inv] EXCEPT !.status = "accepted"]]
      BY <1>7, <2>3 DEF WriteAccept
    <3>3. invite' \in [Invitations -> Invitation]
      BY <2>1, <3>1, <3>2, InviteType
    <3>4. /\ role' = [role EXCEPT ![q.house][q.user] = q.role]
          /\ active' = [active EXCEPT ![q.user] = q.house]
          /\ admitted' = [admitted EXCEPT ![q.inv] = @ + 1]
          /\ UNCHANGED state
      BY <1>7, <2>3 DEF WriteAccept
    <3>5. QED
      BY <2>1, <2>2, <3>3, <3>4 DEF TypeOK
  <2>4. CASE UNCHANGED <<role, active, invite, admitted>>
    BY <1>7, <2>2, <2>4 DEF WriteAccept, TypeOK
  <2>5. QED
    BY <1>7, <2>3, <2>4 DEF WriteAccept
<1>8. QED
  BY <1>1, <1>2, <1>3, <1>4, <1>5, <1>6, <1>7 DEF UserRequest

LEMMA InvitationRequestType ==
  ASSUME TypeOK, NEW r \in Requests, InvitationRequest(r)
  PROVE  TypeOK'
<1> DEFINE q == req[r]
<1>1. ASSUME NEW e \in Users \cup {NULL}, NEW newRole \in Roles,
             CheckInvite(r, e, newRole)
      PROVE  TypeOK'
  <2>1. /\ q \in Request /\ q.step = "authorized"
        /\ q.user \in Users /\ q.house \in Households
    BY <1>1, ReadType DEF CheckInvite, Authorized
  <2>2. [q EXCEPT !.step = "inviting", !.target = e, !.role = newRole]
          \in Request
    BY <2>1 DEF Request, Steps
  <2>3. QED
    BY <1>1, <2>2, GotoType DEF CheckInvite, TypeOK
<1>2. ASSUME WriteInvite(r) PROVE TypeOK'
  <2>1. /\ q.user \in Users /\ q.house \in Households
        /\ q.target \in Users \cup {NULL} /\ q.role \in Roles
    BY <1>2, ReadType DEF WriteInvite
  <2>2. req' \in [Requests -> Request]
    BY <1>2, FinishType DEF WriteInvite
  <2>3. [status |-> "pending", house |-> q.house, by |-> q.user,
         email |-> q.target, role |-> q.role, resends |-> 0,
         recent |-> TRUE, expired |-> FALSE] \in Invitation
    BY <2>1 DEF Invitation
  <2>4. invite' \in [Invitations -> Invitation]
    BY <1>2, <2>3, InviteType DEF WriteInvite, TypeOK
  <2>5. QED
    BY <1>2, <2>2, <2>4 DEF WriteInvite, TypeOK
<1>3. ASSUME NEW i \in Invitations, CheckRevoke(r, i) PROVE TypeOK'
  <2>1. /\ q \in Request /\ q.step = "authorized"
        /\ q.user \in Users /\ q.house \in Households
    BY <1>3, ReadType DEF CheckRevoke, Authorized
  <2>2. [q EXCEPT !.step = "revoking", !.inv = i] \in Request
    BY <2>1 DEF Request, Steps
  <2>3. QED
    BY <1>3, <2>2, GotoType DEF CheckRevoke, TypeOK
<1>4. ASSUME WriteRevoke(r) PROVE TypeOK'
  <2>1. q.inv \in Invitations
    BY <1>4, ReadType DEF WriteRevoke
  <2>2. req' \in [Requests -> Request]
    BY <1>4, FinishType DEF WriteRevoke
  <2>3. CASE RowExists(q.inv)
    <3>1. [invite[q.inv] EXCEPT !.status = "revoked"] \in Invitation
      BY <2>1, <2>3, StatusType DEF RowExists
    <3>2. invite' = [invite EXCEPT ![q.inv] =
                       [invite[q.inv] EXCEPT !.status = "revoked"]]
      BY <1>4, <2>3 DEF WriteRevoke
    <3>3. invite' \in [Invitations -> Invitation]
      BY <2>1, <3>1, <3>2, InviteType
    <3>4. QED
      BY <1>4, <2>2, <3>3 DEF WriteRevoke, TypeOK
  <2>4. CASE ~RowExists(q.inv)
    BY <1>4, <2>2, <2>4 DEF WriteRevoke, TypeOK
  <2>5. QED
    BY <2>3, <2>4
<1>5. ASSUME NEW i \in Invitations, CheckResend(r, i) PROVE TypeOK'
  <2>1. /\ q \in Request /\ q.step = "authorized"
        /\ q.user \in Users /\ q.house \in Households
    BY <1>5, ReadType DEF CheckResend, Authorized
  <2>2. [q EXCEPT !.step = "resending", !.inv = i] \in Request
    BY <2>1 DEF Request, Steps
  <2>3. QED
    BY <1>5, <2>2, GotoType DEF CheckResend, TypeOK
<1>6. ASSUME WriteResend(r) PROVE TypeOK'
  <2> DEFINE w == invite[q.inv]
             v == [w EXCEPT !.status = "pending", !.expired = FALSE,
                            !.resends = w.resends + 1]
  <2>1. q.inv \in Invitations
    BY <1>6, ReadType DEF WriteResend
  <2>2. req' \in [Requests -> Request]
    BY <1>6, FinishType DEF WriteResend
  <2>3. CASE RowExists(q.inv)
    <3>1. w \in Invitation /\ w.status # "none"
      BY <2>1, <2>3 DEF TypeOK, RowExists
    <3>2. w.resends + 1 \in Nat
      BY <3>1 DEF Invitation
    <3>3. v \in Invitation /\ invite' = [invite EXCEPT ![q.inv] = v]
      <4>1. v \in Invitation
        BY <3>1, <3>2 DEF Invitation
      <4>2. invite' = [invite EXCEPT ![q.inv] = v]
        BY <1>6, <2>3 DEF WriteResend
      <4>3. QED
        BY <4>1, <4>2
    <3> HIDE DEF v
    <3>4. invite' \in [Invitations -> Invitation]
      BY <2>1, <3>3, InviteType
    <3>5. QED
      BY <1>6, <2>2, <3>4 DEF WriteResend, TypeOK
  <2>4. CASE ~RowExists(q.inv)
    BY <1>6, <2>2, <2>4 DEF WriteResend, TypeOK
  <2>5. QED
    BY <2>3, <2>4
<1>7. QED
  BY <1>1, <1>2, <1>3, <1>4, <1>5, <1>6 DEF InvitationRequest

\* One more users row written.
LEMMA AddedType ==
  ASSUME NEW w \in Updates, NEW u \in Users, NEW h \in Households \cup {NULL}
  PROVE  /\ Added(w, u, h) \in Updates
         /\ DOMAIN Added(w, u, h) = {u} \cup DOMAIN w
         /\ Added(w, u, h)[u] = h
         /\ \A v \in DOMAIN w : v # u => Added(w, u, h)[v] = w[v]
<1>1. PICK S \in SUBSET Users : w \in [S -> Households \cup {NULL}]
  BY DEF Updates
<1>2. {u} \cup S \in SUBSET Users /\ DOMAIN w = S
  BY <1>1
<1>3. Added(w, u, h) \in [{u} \cup S -> Households \cup {NULL}]
  BY <1>1, <1>2 DEF Added
<1>4. QED
  BY <1>2, <1>3 DEF Added, Updates

\* A fallback is a household or NULL.
LEMMA FallbacksType ==
  ASSUME NEW u, NEW q, NEW h \in Fallbacks(u, q)
  PROVE  h \in Households \cup {NULL}
  BY DEF Fallbacks, MembershipsOf

\* The column of users after a repair.
LEMMA RepairedType ==
  ASSUME TypeOK, NEW q \in Request
  PROVE  Repaired(q) \in [Users -> Households \cup {NULL}]
<1>1. PICK S \in SUBSET Users : q.written \in [S -> Households \cup {NULL}]
  BY DEF Request, Updates
<1>2. QED
  BY <1>1 DEF Repaired, TypeOK

LEMMA CommitRepairType ==
  ASSUME TypeOK, NEW r \in Requests, NEW q \in Request,
         q.step \in {"removing", "deleting", "repairing"},
         q.gone = "member" => q.target \in Users,
         CommitRepair(r, q)
  PROVE  TypeOK'
<1>1. q.house \in Households
  BY DEF Request
<1>2. req' \in [Requests -> Request]
  BY FinishType DEF CommitRepair
<1>3. active' \in [Users -> Households \cup {NULL}]
  BY RepairedType DEF CommitRepair
<1>4. UNCHANGED admitted
  BY DEF CommitRepair
<1>5. CASE UNCHANGED <<state, role, invite>>
  BY <1>2, <1>3, <1>4, <1>5 DEF TypeOK
<1>6. CASE /\ q.gone = "member"
           /\ role' = [role EXCEPT ![q.house][q.target] = "none"]
           /\ UNCHANGED <<state, invite>>
  <2>1. role' \in [Households -> [Users -> Roles \cup {"none"}]]
    BY <1>1, <1>6 DEF TypeOK
  <2>2. QED
    BY <1>2, <1>3, <1>4, <1>6, <2>1 DEF TypeOK
<1>7. CASE state' = [state EXCEPT ![q.house] = "deleted"] /\ Cascade(q.house)
  <2>1. ASSUME NEW i \in Invitations, invite[i].house = q.house
        PROVE  [invite[i] EXCEPT !.status = "deleted"] \in Invitation
    <3>1. invite[i].status # "none"
      BY <1>1, <2>1 DEF TypeOK, Invitation, NoInvitation
    <3>2. QED
      BY <3>1, StatusType
  <2>2. invite' \in [Invitations -> Invitation]
    BY <1>7, <2>1 DEF Cascade, TypeOK
  <2>3. role' \in [Households -> [Users -> Roles \cup {"none"}]]
    BY <1>1, <1>7 DEF Cascade, TypeOK
  <2>4. state' \in [Households -> {"new", "live", "deleted"}]
    BY <1>7 DEF TypeOK
  <2>5. QED
    BY <1>2, <1>3, <1>4, <2>2, <2>3, <2>4 DEF TypeOK
<1>8. QED
  BY <1>5, <1>6, <1>7 DEF CommitRepair

LEMMA RepairType ==
  ASSUME TypeOK, NEW r \in Requests, NEW q \in Request,
         q.step \in {"removing", "deleting", "repairing"},
         q.gone = "member" => q.target \in Users,
         q.gone # "household" => q.affected \subseteq {q.target},
         Repair(r, q)
  PROVE  TypeOK'
<1>1. CASE q.affected = {} /\ CommitRepair(r, q)
  BY <1>1, CommitRepairType
<1>2. ASSUME NEW u \in q.affected, NEW h \in Fallbacks(u, q),
             Goto(r, Selecting(q, u, h)),
             UNCHANGED <<state, role, active, invite, admitted>>
      PROVE  TypeOK'
  <2>1. u \in Users /\ h \in Households \cup {NULL}
    BY <1>2, FallbacksType DEF Request
  <2>2. Selecting(q, u, h) \in Request
    BY <2>1 DEF Selecting, Request, Steps
  <2>3. QED
    BY <1>2, <2>2, GotoType DEF TypeOK
<1>3. QED
  BY <1>1, <1>2 DEF Repair

LEMMA MemberRequestType ==
  ASSUME TypeOK, NEW r \in Requests, MemberRequest(r)
  PROVE  TypeOK'
<1> DEFINE q == req[r]
<1>1. ASSUME NEW t \in Users, CheckRemove(r, t) PROVE TypeOK'
  <2>1. /\ q \in Request /\ q.step = "authorized"
        /\ q.user \in Users /\ q.house \in Households
        /\ role[q.house][t] \in Roles \cup {"none"}
    BY <1>1, ReadType DEF CheckRemove, Authorized, TypeOK
  <2>2. [q EXCEPT !.step = "removing", !.target = t,
                  !.role = role[q.house][t]] \in Request
    BY <2>1 DEF Request, Steps
  <2>3. QED
    BY <1>1, <2>2, GotoType DEF CheckRemove, TypeOK
<1>2. ASSUME DeleteMember(r) PROVE TypeOK'
  <2> DEFINE g == IF q.role # "none" /\ role[q.house][q.target] # "none"
                  THEN "member" ELSE "nothing"
             f == [q EXCEPT !.affected = {q.target}, !.gone = g]
  <2>1. q \in Request /\ q.step = "removing" /\ q.target \in Users
    BY <1>2, ReadType DEF DeleteMember
  <2>2. /\ f \in Request /\ f.step = "removing" /\ f.target \in Users
        /\ f.affected = {f.target}
    BY <2>1 DEF Request
  <2>3. Repair(r, f)
    BY <1>2 DEF DeleteMember
  <2> HIDE DEF f
  <2>4. QED
    BY <2>2, <2>3, RepairType
<1>3. ASSUME NEW t \in Users, NEW newRole \in Roles, CheckSetRole(r, t, newRole)
      PROVE  TypeOK'
  <2>1. /\ q \in Request /\ q.step = "authorized"
        /\ q.user \in Users /\ q.house \in Households
    BY <1>3, ReadType DEF CheckSetRole, Authorized
  <2>2. [q EXCEPT !.step = "setting_role", !.target = t, !.role = newRole]
          \in Request
    BY <2>1 DEF Request, Steps
  <2>3. QED
    BY <1>3, <2>2, GotoType DEF CheckSetRole, TypeOK
<1>4. ASSUME WriteSetRole(r) PROVE TypeOK'
  <2>1. q.house \in Households /\ q.target \in Users /\ q.role \in Roles
    BY <1>4, ReadType DEF WriteSetRole
  <2>2. req' \in [Requests -> Request]
    BY <1>4, FinishType DEF WriteSetRole
  <2>3. role' \in [Households -> [Users -> Roles \cup {"none"}]]
    BY <1>4, <2>1 DEF WriteSetRole, TypeOK
  <2>4. QED
    BY <1>4, <2>2, <2>3 DEF WriteSetRole, TypeOK
<1>5. ASSUME CheckDelete(r) PROVE TypeOK'
  <2>1. /\ q \in Request /\ q.step = "authorized"
        /\ q.user \in Users /\ q.house \in Households
    BY <1>5, ReadType DEF CheckDelete, Authorized
  <2>2. [q EXCEPT !.step = "deleting", !.affected = Affected(q.house)]
          \in Request
    BY <2>1 DEF Request, Steps, Affected, Members
  <2>3. QED
    BY <1>5, <2>2, GotoType DEF CheckDelete, TypeOK
<1>6. ASSUME DeleteHousehold(r) PROVE TypeOK'
  <2> DEFINE f == [q EXCEPT !.gone = "household"]
  <2>1. CASE Repair(r, f)
    <3>1. q \in Request /\ q.step = "deleting"
      BY <1>6, ReadType DEF DeleteHousehold
    <3>2. f \in Request /\ f.step = "deleting" /\ f.gone = "household"
      BY <3>1 DEF Request
    <3> HIDE DEF f
    <3>3. QED
      BY <2>1, <3>2, RepairType
  <2>2. CASE Finish(r) /\ UNCHANGED <<state, role, active, invite, admitted>>
    BY <2>2, FinishType DEF TypeOK
  <2>3. QED
    BY <1>6, <2>1, <2>2 DEF DeleteHousehold
<1>7. ASSUME RepairUser(r) PROVE TypeOK'
  <2> DEFINE f == [q EXCEPT !.written = Added(q.written, q.target, q.fallback)]
  <2>1. CASE Repair(r, f)
    <3>1. /\ q \in Request /\ q.step = "repairing" /\ q.target \in Users
          /\ q.fallback \in Households \cup {NULL} /\ q.written \in Updates
      BY <1>7, ReadType DEF RepairUser, Request
    <3>2. Added(q.written, q.target, q.fallback) \in Updates
      BY <3>1, AddedType
    <3>3. /\ f \in Request /\ f.step = "repairing" /\ f.target \in Users
          /\ f.gone # "household" => f.affected = {}
      BY <3>1, <3>2 DEF Request
    <3> HIDE DEF f
    <3>4. QED
      BY <2>1, <3>3, RepairType
  <2>2. CASE Finish(r) /\ UNCHANGED <<state, role, active, invite, admitted>>
    BY <2>2, FinishType DEF TypeOK
  <2>3. QED
    BY <1>7, <2>1, <2>2 DEF RepairUser
<1>8. ASSUME RollBack(r) PROVE TypeOK'
  BY <1>8, FinishType DEF RollBack, TypeOK
<1>9. QED
  BY <1>1, <1>2, <1>3, <1>4, <1>5, <1>6, <1>7, <1>8 DEF MemberRequest

LEMMA TimeType ==
  ASSUME TypeOK, NEW i \in Invitations, Age(i) \/ Expire(i)
  PROVE  TypeOK'
<1>1. invite[i] \in Invitation /\ invite[i].status # "none"
  BY DEF TypeOK, Age, Expire, RowExists
<1>2. [invite[i] EXCEPT !.recent = FALSE] \in Invitation
  BY <1>1 DEF Invitation
<1>3. [invite[i] EXCEPT !.expired = TRUE] \in Invitation
  BY <1>1 DEF Invitation
<1>4. invite' \in [Invitations -> Invitation]
  BY <1>2, <1>3 DEF Age, Expire, TypeOK
<1>5. QED
  BY <1>4 DEF Age, Expire, TypeOK

LEMMA InitType == Init => TypeOK
<1>1. NoInvitation \in Invitation
  BY DEF NoInvitation, Invitation
<1>2. QED
  BY <1>1, IdleType DEF Init, TypeOK

LEMMA NextType == TypeOK /\ [Next]_vars => TypeOK'
<1> SUFFICES ASSUME TypeOK, [Next]_vars PROVE TypeOK'
  OBVIOUS
<1>1. CASE UNCHANGED vars
  BY <1>1 DEF vars, TypeOK
<1>2. CASE Next
  BY <1>2, ResolveType, UserRequestType, InvitationRequestType,
     MemberRequestType, TimeType DEF Next
<1>3. QED
  BY <1>1, <1>2

\* Every column and every value a request holds stays of its type, and a step
\* that needs a household, an invitation, a user or a role has read one: no
\* handler works on a value it did not get.
THEOREM TypeCorrect == Spec => []TypeOK
  BY InitType, NextType, PTL DEF Spec
=============================================================================
