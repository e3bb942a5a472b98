-------------------------- MODULE HouseholdsSafety --------------------------
(***************************************************************************)
(* What no interleaving of requests can break, for any number of users,    *)
(* households, invitations and requests.  Most steps only read: Writers    *)
(* singles out the few that change a row, and every invariant is shown     *)
(* preserved by those.                                                     *)
(***************************************************************************)
EXTENDS HouseholdsProofs, FiniteSetTheorems

\* The steps that touch no row but active_household_id.
PointerStep(r) ==
  \/ ClearStale(r) \/ SetFallback(r)
  \/ ClearListed(r) \/ WriteSwitch(r)

\* The steps that delete or repair.  q is the record one goes on with: its
\* own DELETE or UPDATE is in it, and nobody else holds the row it wrote.
RepairStep(r) == DeleteMember(r) \/ DeleteHousehold(r) \/ RepairUser(r)

Resumes(r, q) ==
  /\ q \in Request /\ q.house = req[r].house
  /\ \/ /\ req[r].step = "removing"
        /\ q.target = req[r].target /\ q.affected = {req[r].target}
        /\ q.written = NothingWritten
        /\ \/ q.gone = "nothing"
           \/ /\ q.gone = "member" /\ req[r].role # "none"
              /\ ~MemberLocked(r, q.house, q.target)
     \/ /\ req[r].step = "deleting" /\ q.gone = "household"
        /\ q.affected = req[r].affected /\ q.written = NothingWritten
        /\ state[q.house] = "live" /\ ~DeletionLocked(r, q.house)
     \/ /\ req[r].step = "repairing"
        /\ q.gone = req[r].gone /\ q.target = req[r].target
        /\ q.affected = req[r].affected
        /\ q.written = Added(req[r].written, req[r].target, req[r].fallback)
        /\ req[r].fallback # NULL => state[req[r].fallback] = "live"
        /\ ~UserLocked(r, req[r].target) /\ ~HouseLocked(r, req[r].fallback)

\* The record one goes on with is a request's; the other fields are kept.
LEMMA RemovingType ==
  ASSUME NEW p \in Request, p.step = "removing",
         NEW a \in SUBSET Users, NEW g \in {"nothing", "member"}
  PROVE  [p EXCEPT !.affected = a, !.gone = g] \in Request
  BY DEF Request

LEMMA DeletingType ==
  ASSUME NEW p \in Request, p.step = "deleting"
  PROVE  [p EXCEPT !.gone = "household"] \in Request
  BY DEF Request

LEMMA WrittenType ==
  ASSUME NEW p \in Request, p.step = "repairing", NEW w \in Updates
  PROVE  [p EXCEPT !.written = w] \in Request
  BY DEF Request

LEMMA RemovalResumes ==
  ASSUME TypeOK, NEW r \in Requests, DeleteMember(r)
  PROVE  \E q : Resumes(r, q) /\ Repair(r, q)
<1> DEFINE p == req[r]
           g == IF p.role # "none" /\ role[p.house][p.target] # "none"
                THEN "member" ELSE "nothing"
           q == [p EXCEPT !.affected = {p.target}, !.gone = g]
<1>1. /\ p \in Request /\ p.step = "removing" /\ p.target \in Users
      /\ p.written = NothingWritten
  BY ReadType DEF DeleteMember, Request
<1>2. Repair(r, q)
  BY DEF DeleteMember
<1>3. p.role # "none" => ~MemberLocked(r, p.house, p.target)
  BY DEF DeleteMember
<1>4. g \in {"nothing", "member"} /\ (g = "member" => p.role # "none")
  OBVIOUS
<1> HIDE DEF g
<1>5. /\ q \in Request /\ q.house = p.house /\ q.target = p.target
      /\ q.affected = {p.target} /\ q.gone = g /\ q.written = p.written
  <2>1. q \in Request
    BY <1>1, <1>4, RemovingType
  <2>2. QED
    BY <1>1, <2>1 DEF Request
<1> HIDE DEF q
<1>6. Resumes(r, q)
  <2>1. p = req[r]
    OBVIOUS
  <2> HIDE DEF p
  <2>2. QED
    BY <1>1, <1>3, <1>4, <1>5, <2>1 DEF Resumes
<1>7. QED
  BY <1>2, <1>6

LEMMA DeletionResumes ==
  ASSUME TypeOK, NEW r \in Requests, DeleteHousehold(r)
  PROVE  \/ Finish(r) /\ UNCHANGED <<state, role, active, invite, admitted>>
         \/ \E q : Resumes(r, q) /\ Repair(r, q)
<1> DEFINE p == req[r]
           q == [p EXCEPT !.gone = "household"]
<1>1. /\ p \in Request /\ p.step = "deleting" /\ p.written = NothingWritten
      /\ ~DeletionLocked(r, p.house)
  BY ReadType DEF DeleteHousehold, Request
<1>2. \/ Finish(r) /\ UNCHANGED <<state, role, active, invite, admitted>>
      \/ state[p.house] = "live" /\ Repair(r, q)
  BY DEF DeleteHousehold
<1>3. /\ q \in Request /\ q.house = p.house /\ q.gone = "household"
      /\ q.affected = p.affected /\ q.written = p.written
  <2>1. q \in Request
    BY <1>1, DeletingType
  <2>2. QED
    BY <1>1, <2>1 DEF Request
<1> HIDE DEF q
<1>4. state[p.house] = "live" => Resumes(r, q)
  <2>1. p = req[r]
    OBVIOUS
  <2> HIDE DEF p
  <2>2. QED
    BY <1>1, <1>3, <2>1 DEF Resumes
<1>5. QED
  BY <1>2, <1>4

LEMMA RepairResumes ==
  ASSUME TypeOK, NEW r \in Requests, RepairUser(r)
  PROVE  \/ Finish(r) /\ UNCHANGED <<state, role, active, invite, admitted>>
         \/ \E q : Resumes(r, q) /\ Repair(r, q)
<1> DEFINE p == req[r]
           w == Added(p.written, p.target, p.fallback)
           q == [p EXCEPT !.written = w]
<1>1. /\ p \in Request /\ p.step = "repairing" /\ p.target \in Users
      /\ ~UserLocked(r, p.target) /\ ~HouseLocked(r, p.fallback)
  BY ReadType DEF RepairUser
<1>2. \/ Finish(r) /\ UNCHANGED <<state, role, active, invite, admitted>>
      \/ /\ p.fallback # NULL => state[p.fallback] = "live"
         /\ Repair(r, q)
  BY DEF RepairUser
<1>3. w \in Updates
  BY <1>1, AddedType DEF Request
<1>4. w = Added(p.written, p.target, p.fallback)
  OBVIOUS
<1> HIDE DEF w
<1>5. /\ q \in Request /\ q.house = p.house /\ q.gone = p.gone
      /\ q.target = p.target /\ q.affected = p.affected /\ q.written = w
  <2>1. q \in Request
    BY <1>1, <1>3, WrittenType
  <2>2. QED
    BY <1>1, <2>1 DEF Request
<1> HIDE DEF q
<1>6. (p.fallback # NULL => state[p.fallback] = "live") => Resumes(r, q)
  <2>1. p = req[r]
    OBVIOUS
  <2> HIDE DEF p
  <2>2. QED
    BY <1>1, <1>4, <1>5, <2>1 DEF Resumes
<1>7. QED
  BY <1>2, <1>6

LEMMA RepairCases ==
  ASSUME TypeOK, NEW r \in Requests, RepairStep(r)
  PROVE  \/ Finish(r) /\ UNCHANGED <<state, role, active, invite, admitted>>
         \/ \E q : Resumes(r, q) /\ Repair(r, q)
  BY RemovalResumes, DeletionResumes, RepairResumes DEF RepairStep

\* A repair goes on to the next user and changes no row,
Selects(r) ==
  /\ UNCHANGED <<state, role, active, invite, admitted>>
  /\ \E q, u, h : /\ Resumes(r, q) /\ u \in q.affected /\ h \in Fallbacks(u, q)
                  /\ Goto(r, Selecting(q, u, h))

\* or commits the removal of a member (or only the repair),
Removal(r) ==
  \E q : /\ Resumes(r, q) /\ q.affected = {} /\ q.gone # "household"
        /\ CommitRepair(r, q)

\* or the deletion of a household.
Deletion(r) ==
  \E q : /\ Resumes(r, q) /\ q.affected = {} /\ q.gone = "household"
        /\ CommitRepair(r, q)

LEMMA RepairSteps ==
  ASSUME TypeOK, NEW r \in Requests, RepairStep(r)
  PROVE  \/ Finish(r) /\ UNCHANGED <<state, role, active, invite, admitted>>
         \/ Selects(r) \/ Removal(r) \/ Deletion(r)
<1>1. ASSUME NEW q, Resumes(r, q), Repair(r, q)
      PROVE  Selects(r) \/ Removal(r) \/ Deletion(r)
  BY <1>1 DEF Repair, Selects, Removal, Deletion
<1>2. QED
  BY <1>1, RepairCases

LEMMA RemovalEffect ==
  ASSUME TypeOK, NEW r \in Requests, Removal(r)
  PROVE  /\ req[r].step = "repairing"
         /\ req[r].house \in Households /\ req[r].target \in Users
         /\ UNCHANGED <<state, invite, admitted>> /\ Finish(r)
         /\ \/ role' = role
            \/ /\ Repairing(r, "member")
               /\ role' = [role EXCEPT ![req[r].house][req[r].target] = "none"]
<1>1. PICK q : /\ Resumes(r, q) /\ q.affected = {} /\ q.gone # "household"
               /\ CommitRepair(r, q)
  BY DEF Removal
<1>2. q.affected = {}
  BY <1>1
<1>3. /\ q.house = req[r].house /\ req[r].step = "repairing"
      /\ q.gone = req[r].gone /\ q.target = req[r].target
  BY <1>1, <1>2 DEF Resumes
<1>4. req[r].house \in Households /\ req[r].target \in Users
  BY <1>3, ReadType
<1>5. /\ UNCHANGED <<state, invite, admitted>> /\ Finish(r)
      /\ \/ role' = role
         \/ /\ q.gone = "member"
            /\ role' = [role EXCEPT ![q.house][q.target] = "none"]
  BY <1>1 DEF CommitRepair
<1>6. QED
  BY <1>3, <1>4, <1>5 DEF Repairing

LEMMA RemovalTakes ==
  ASSUME TypeOK, NEW r \in Requests, Removal(r),
         NEW h \in Households, NEW u \in Users
  PROVE  \/ role'[h][u] = role[h][u]
         \/ /\ role'[h][u] = "none" /\ Repairing(r, "member")
            /\ h = req[r].house /\ u = req[r].target
<1>1. CASE role' = role
  BY <1>1
<1>2. CASE /\ Repairing(r, "member")
           /\ role' = [role EXCEPT ![req[r].house][req[r].target] = "none"]
  <2>1. req[r].house \in Households /\ req[r].target \in Users
    BY RemovalEffect
  <2>2. CASE h = req[r].house /\ u = req[r].target
    BY <1>2, <2>1, <2>2 DEF TypeOK
  <2>3. CASE ~(h = req[r].house /\ u = req[r].target)
    BY <1>2, <2>1, <2>3 DEF TypeOK
  <2>4. QED
    BY <2>2, <2>3
<1>3. QED
  BY <1>1, <1>2, RemovalEffect

LEMMA DeletionEffect ==
  ASSUME TypeOK, NEW r \in Requests, Deletion(r)
  PROVE  /\ req[r].step \in {"deleting", "repairing"}
         /\ req[r].house \in Households
         /\ state' = [state EXCEPT ![req[r].house] = "deleted"]
         /\ Cascade(req[r].house)
         /\ UNCHANGED admitted /\ Finish(r)
<1>1. PICK q : Resumes(r, q) /\ q.gone = "household" /\ CommitRepair(r, q)
  BY DEF Deletion
<1>2. /\ q.house = req[r].house
      /\ req[r].step \in {"removing", "deleting", "repairing"}
      /\ req[r].step # "removing"
  BY <1>1 DEF Resumes
<1>3. req[r].house \in Households
  BY <1>2, ReadType
<1>4. QED
  BY <1>1, <1>2, <1>3 DEF CommitRepair

\* The steps that write households, memberships or invitations.
RowStep(r) ==
  \/ \E u \in Users : CreateHousehold(r, u)
  \/ WriteAccept(r)
  \/ WriteInvite(r) \/ WriteRevoke(r) \/ WriteResend(r)
  \/ Removal(r) \/ WriteSetRole(r) \/ Deletion(r)

LEMMA Writers ==
  ASSUME TypeOK, [Next]_vars
  PROVE  \/ UNCHANGED <<state, role, active, invite, admitted>>
         \/ \E r \in Requests : PointerStep(r) \/ RowStep(r)
         \/ \E i \in Invitations : Age(i) \/ Expire(i)
<1>1. CASE UNCHANGED vars
  BY <1>1 DEF vars
<1>2. ASSUME NEW r \in Requests, Resolve(r)
      PROVE  \/ UNCHANGED <<state, role, active, invite, admitted>>
             \/ PointerStep(r)
  BY <1>2 DEF Resolve, PointerStep, ResolveActive, ResolveStale, ResolveUnset,
              Refuse
<1>3. ASSUME NEW r \in Requests, UserRequest(r)
      PROVE  \/ UNCHANGED <<state, role, active, invite, admitted>>
             \/ PointerStep(r) \/ RowStep(r)
  BY <1>3 DEF UserRequest, PointerStep, RowStep, ListHouseholds, CheckSwitch,
              CheckAccept
<1>4. ASSUME NEW r \in Requests, InvitationRequest(r)
      PROVE  \/ UNCHANGED <<state, role, active, invite, admitted>>
             \/ RowStep(r)
  BY <1>4 DEF InvitationRequest, RowStep, CheckInvite, CheckRevoke, CheckResend
<1>5. ASSUME NEW r \in Requests, MemberRequest(r)
      PROVE  \/ UNCHANGED <<state, role, active, invite, admitted>>
             \/ RowStep(r)
  <2>1. CASE RepairStep(r)
    BY <2>1, RepairSteps DEF Selects, RowStep
  <2>2. CASE ~RepairStep(r)
    BY <1>5, <2>2 DEF MemberRequest, RepairStep, RowStep, CheckRemove,
                      CheckSetRole, CheckDelete, RollBack
  <2>3. QED
    BY <2>1, <2>2
<1>6. QED
  BY <1>1, <1>2, <1>3, <1>4, <1>5 DEF Next

\* The passing of time shows in recent and expired only.
LEMMA TimeKeeps ==
  ASSUME TypeOK, NEW i \in Invitations, Age(i) \/ Expire(i),
         NEW j \in Invitations
  PROVE  /\ invite'[j].house = invite[j].house
         /\ invite'[j].status = invite[j].status
         /\ invite'[j].resends = invite[j].resends
         /\ UNCHANGED <<state, role, active, admitted, req>>
<1>1. invite[i] \in Invitation /\ DOMAIN invite = Invitations
  BY DEF TypeOK
<1>2. CASE Age(i)
  <2>1. CASE i = j
    BY <1>1, <1>2, <2>1 DEF Age, Invitation
  <2>2. CASE i # j
    BY <1>1, <1>2, <2>2 DEF Age
  <2>3. QED
    BY <1>2, <2>1, <2>2 DEF Age
<1>3. CASE Expire(i)
  <2>1. CASE i = j
    BY <1>1, <1>3, <2>1 DEF Expire, Invitation
  <2>2. CASE i # j
    BY <1>1, <1>3, <2>2 DEF Expire
  <2>3. QED
    BY <1>3, <2>1, <2>2 DEF Expire
<1>4. QED
  BY <1>2, <1>3

\* A step of request p changes what p has read and no other request.
LEMMA OwnRecord ==
  ASSUME TypeOK, NEW p \in Requests,
         Resolve(p) \/ UserRequest(p) \/ InvitationRequest(p) \/ MemberRequest(p)
  PROVE  \A r \in Requests \ {p} : req'[r] = req[r]
<1>1. CASE RepairStep(p)
  <2>1. \/ Finish(p) \/ Selects(p)
    BY <1>1, RepairSteps, RemovalEffect, DeletionEffect
  <2>2. QED
    BY <2>1 DEF Finish, Selects, Goto, TypeOK
<1>2. CASE Resolve(p)
  BY <1>2 DEF TypeOK, Goto, Finish, FallBackTo, Resolve, ResolveActive,
     ResolveStale, ResolveUnset, ClearStale, SetFallback, Refuse
<1>3. CASE UserRequest(p)
  BY <1>3 DEF TypeOK, Goto, Finish, UserRequest, CreateHousehold,
     ListHouseholds, ClearListed, CheckSwitch, WriteSwitch, CheckAccept,
     WriteAccept
<1>4. CASE InvitationRequest(p)
  BY <1>4 DEF TypeOK, Goto, Finish, InvitationRequest, CheckInvite,
     WriteInvite, CheckRevoke, WriteRevoke, CheckResend, WriteResend
<1>5. CASE MemberRequest(p) /\ ~RepairStep(p)
  BY <1>5 DEF TypeOK, Goto, Finish, MemberRequest, RepairStep, CheckRemove,
     CheckSetRole, WriteSetRole, CheckDelete, RollBack
<1>6. QED
  BY <1>1, <1>2, <1>3, <1>4, <1>5

\* What a request has read changes by a step of its own, and no other
\* request's with it.
LEMMA RequestStep ==
  ASSUME TypeOK, [Next]_vars, NEW r \in Requests, req'[r] # req[r]
  PROVE  /\ \/ Resolve(r) \/ UserRequest(r)
            \/ InvitationRequest(r) \/ MemberRequest(r)
         /\ \A s \in Requests \ {r} : req'[s] = req[s]
<1>1. ~ UNCHANGED vars
  BY DEF vars
<1>2. PICK p \in Requests : \/ Resolve(p) \/ UserRequest(p)
                           \/ InvitationRequest(p) \/ MemberRequest(p)
  BY <1>1 DEF Next, Age, Expire
<1>3. p = r
  BY <1>2, OwnRecord
<1>4. QED
  BY <1>2, <1>3, OwnRecord

\* A household row is created once and never comes back.
LEMMA StateStep ==
  ASSUME TypeOK, [Next]_vars, NEW h \in Households
  PROVE  /\ state[h] # "new" => state'[h] # "new"
         /\ state'[h] = "live" /\ state[h] # "live"
              => state[h] = "new"
                 /\ \E r \in Requests, u \in Users :
                      CreateHousehold(r, u) /\ role'[h][u] = "admin"
<1>1. CASE UNCHANGED state
  BY <1>1
<1>2. ASSUME NEW r \in Requests, NEW u \in Users, CreateHousehold(r, u),
             state'[h] # state[h]
      PROVE  /\ state[h] = "new" /\ state'[h] = "live"
             /\ role'[h][u] = "admin"
  BY <1>2 DEF CreateHousehold, CreatorRole, TypeOK
<1>3. ASSUME NEW r \in Requests, Deletion(r), state'[h] # state[h]
      PROVE  state'[h] = "deleted"
  BY <1>3, DeletionEffect DEF TypeOK
<1>4. QED
  BY Writers, RemovalEffect, <1>1, <1>2, <1>3
     DEF PointerStep, RowStep, ClearStale, SetFallback, ClearListed,
         WriteSwitch, WriteAccept, WriteInvite, WriteRevoke, WriteResend,
         WriteSetRole, Age, Expire

\* A repair under way was started, or taken on to the next user, by a step
\* that touched no row.
LEMMA RepairStarts ==
  ASSUME TypeOK, [Next]_vars, NEW r \in Requests, req'[r] # req[r],
         req'[r].step = "repairing"
  PROVE  Selects(r)
<1>0. req \in [Requests -> Request]
  BY DEF TypeOK
<1>1. ~ Finish(r)
  BY <1>0 DEF Finish, Idle
<1>2. ~ Resolve(r)
  <2>1. ASSUME NEW u \in Users, ResolveActive(r, u) PROVE FALSE
    BY <1>0, <2>1 DEF ResolveActive, Goto, Idle
  <2>2. ASSUME NEW u \in Users, ResolveStale(r, u) PROVE FALSE
    BY <1>0, <2>2 DEF ResolveStale, Goto, Idle
  <2>3. ASSUME NEW u, NEW h, FallBackTo(r, u, h) PROVE FALSE
    BY <1>0, <2>3 DEF FallBackTo, Goto, Idle
  <2>4. ASSUME SetFallback(r) PROVE FALSE
    BY <1>0, <1>1, <2>4 DEF SetFallback, Goto, Idle
  <2>5. ASSUME ClearStale(r) PROVE FALSE
    BY <1>1, <2>3, <2>5 DEF ClearStale
  <2>6. QED
    BY <1>1, <2>1, <2>2, <2>3, <2>4, <2>5 DEF Resolve, ResolveUnset, Refuse
<1>3. ~ UserRequest(r)
  <2>1. ASSUME NEW u \in Users, ListHouseholds(r, u) PROVE FALSE
    <3>1. ASSUME Goto(r, [Idle EXCEPT !.step = "list_clearing", !.user = u])
          PROVE  FALSE
      BY <1>0, <3>1 DEF Goto, Idle
    <3>2. ASSUME NEW h, Goto(r, [Idle EXCEPT !.step = "switching", !.user = u,
                                             !.house = h])
          PROVE  FALSE
      BY <1>0, <3>2 DEF Goto, Idle
    <3>3. QED
      BY <2>1, <3>1, <3>2 DEF ListHouseholds
  <2>2. ASSUME NEW u \in Users, NEW h \in Households, CheckSwitch(r, u, h)
        PROVE  FALSE
    BY <1>0, <2>2 DEF CheckSwitch, Goto, Idle
  <2>3. ASSUME NEW u \in Users, NEW i \in Invitations, CheckAccept(r, u, i)
        PROVE  FALSE
    BY <1>0, <2>3 DEF CheckAccept, Goto, Idle
  <2>4. ~ \E u \in Users : CreateHousehold(r, u)
    BY DEF CreateHousehold
  <2>5. QED
    BY <1>1, <2>1, <2>2, <2>3, <2>4
       DEF UserRequest, ClearListed, WriteSwitch, WriteAccept
<1>4. req[r] \in Request
  BY <1>0
<1>5. ~ InvitationRequest(r)
  <2>1. ASSUME NEW e, NEW x, CheckInvite(r, e, x) PROVE FALSE
    BY <1>0, <1>4, <2>1 DEF CheckInvite, Goto, Request
  <2>2. ASSUME NEW i, CheckRevoke(r, i) PROVE FALSE
    BY <1>0, <1>4, <2>2 DEF CheckRevoke, Goto, Request
  <2>3. ASSUME NEW i, CheckResend(r, i) PROVE FALSE
    BY <1>0, <1>4, <2>3 DEF CheckResend, Goto, Request
  <2>4. QED
    BY <1>1, <2>1, <2>2, <2>3 DEF InvitationRequest, WriteInvite, WriteRevoke,
       WriteResend
<1>6. MemberRequest(r)
  BY <1>2, <1>3, <1>5, RequestStep
<1>7. ASSUME ~ RepairStep(r) PROVE FALSE
  <2>1. ASSUME NEW t, CheckRemove(r, t) PROVE FALSE
    BY <1>0, <1>4, <2>1 DEF CheckRemove, Goto, Request
  <2>2. ASSUME NEW t, NEW x, CheckSetRole(r, t, x) PROVE FALSE
    BY <1>0, <1>4, <2>2 DEF CheckSetRole, Goto, Request
  <2>3. ASSUME CheckDelete(r) PROVE FALSE
    BY <1>0, <1>4, <2>3 DEF CheckDelete, Goto, Request
  <2>4. QED
    BY <1>1, <1>6, <1>7, <2>1, <2>2, <2>3
       DEF MemberRequest, RepairStep, WriteSetRole, RollBack
<1>8. QED
  BY <1>1, <1>7, RepairSteps, RemovalEffect, DeletionEffect

-----------------------------------------------------------------------------
(* What is written and not committed yet.  The row locks keep it true: a   *)
(* household that is being deleted is live until the commit, is deleted by *)
(* one request only, and is what no repaired users row refers to.          *)

Written(r) == {req[r].written[u] : u \in DOMAIN req[r].written}

DeletedOnce ==
  \A r, s \in Requests :
    /\ Repairing(r, "household") /\ Repairing(s, "household")
    /\ req[r].house = req[s].house
    => r = s

PendingInv ==
  /\ \A r \in Requests :
       Repairing(r, "household") => /\ state[req[r].house] = "live"
                                    /\ req[r].fallback # req[r].house
  /\ \A r \in Requests : \A h \in Written(r) \ {NULL} : state[h] = "live"
  /\ \A r, s \in Requests :
       Repairing(s, "household") => req[s].house \notin Written(r)
  /\ DeletedOnce

LEMMA NothingIsWritten ==
  ASSUME NEW r, req[r].written = NothingWritten
  PROVE  Written(r) = {}
  BY DEF Written, NothingWritten

LEMMA NothingIsWrittenNext ==
  ASSUME NEW r, req'[r].written = NothingWritten
  PROVE  Written(r)' = {}
  BY DEF Written, NothingWritten

LEMMA SelectEffect ==
  ASSUME TypeOK, NEW r \in Requests, Selects(r)
  PROVE  /\ req'[r].step = "repairing" /\ req'[r].house = req[r].house
         /\ \/ /\ req[r].step = "removing"
               /\ req'[r].target = req[r].target
               /\ req'[r].gone \in {"nothing", "member"}
               /\ req'[r].gone = "member" => req[r].role # "none"
               /\ Written(r)' = {}
            \/ /\ req[r].step = "deleting" /\ req'[r].gone = "household"
               /\ state[req[r].house] = "live"
               /\ ~DeletionLocked(r, req[r].house)
               /\ Written(r)' = {}
            \/ /\ Repairing(r, "household") /\ req'[r].gone = "household"
               /\ req[r].fallback # NULL => state[req[r].fallback] = "live"
               /\ ~HouseLocked(r, req[r].fallback)
               /\ Written(r)' \subseteq Written(r) \cup {req[r].fallback}
         /\ req'[r].written \in
              {NothingWritten,
               Added(req[r].written, req[r].target, req[r].fallback)}
         /\ req'[r].gone # "nothing" => req'[r].fallback # req[r].house
         /\ req'[r].fallback # NULL
              => req'[r].fallback \in MembershipsOf(req'[r].target)
<1>1. PICK q, u, h : /\ Resumes(r, q) /\ u \in q.affected /\ h \in Fallbacks(u, q)
                     /\ Goto(r, Selecting(q, u, h))
  BY DEF Selects
<1>2. q \in Request /\ q.house = req[r].house
  BY <1>1 DEF Resumes
<1>3. req'[r] = Selecting(q, u, h)
  BY <1>1 DEF Goto, TypeOK
<1>4. /\ req'[r].step = "repairing" /\ req'[r].house = q.house
      /\ req'[r].target = u /\ req'[r].gone = q.gone
      /\ req'[r].fallback = h /\ req'[r].written = q.written
  BY <1>2, <1>3 DEF Selecting, Request
<1>5. /\ q.gone # "nothing" => h # q.house
      /\ h # NULL => h \in MembershipsOf(u)
  <2>1. NULL \notin Households /\ q.house \in Households \cup {NULL}
    BY <1>2, HouseholdsAssumption DEF HouseholdsAssumption, Request
  <2>2. q.house \in Households
    BY <1>1, <1>2, ReadType DEF Resumes
  <2>3. QED
    BY <1>1, <2>1, <2>2 DEF Fallbacks
<1>6. CASE /\ req[r].step = "removing"
           /\ q.target = req[r].target /\ q.affected = {req[r].target}
           /\ q.written = NothingWritten
           /\ \/ q.gone = "nothing"
              \/ q.gone = "member" /\ req[r].role # "none"
  BY <1>1, <1>2, <1>4, <1>5, <1>6, NothingIsWrittenNext
<1>7. CASE /\ req[r].step = "deleting" /\ q.gone = "household"
           /\ q.written = NothingWritten
           /\ state[q.house] = "live" /\ ~DeletionLocked(r, q.house)
  BY <1>2, <1>4, <1>5, <1>7, NothingIsWrittenNext
<1>8. CASE /\ req[r].step = "repairing" /\ q.gone = req[r].gone
           /\ q.written = Added(req[r].written, req[r].target, req[r].fallback)
           /\ req[r].fallback # NULL => state[req[r].fallback] = "live"
           /\ ~HouseLocked(r, req[r].fallback)
  <2>1. Written(r)' \subseteq Written(r) \cup {req[r].fallback}
    BY <1>4, <1>8 DEF Written, Added
  <2>2. req[r].gone = "household"
    <3>1. req[r].affected # {} /\ req[r] \in Request
      BY <1>1, <1>8 DEF Resumes, TypeOK
    <3>2. QED
      BY <1>8, <3>1 DEF Request
  <2>4. QED
    BY <1>2, <1>4, <1>5, <1>8, <2>1, <2>2 DEF Repairing
<1>9. QED
  BY <1>1, <1>6, <1>7, <1>8 DEF Resumes

LEMMA PendingStep ==
  ASSUME TypeOK, PendingInv, [Next]_vars
  PROVE  PendingInv'
<1>0. /\ \A r \in Requests : req[r] \in Request /\ req'[r] \in Request
      /\ \A r \in Requests : req'[r].step # "repairing" => Written(r)' = {}
  <2>1. \A r \in Requests : req[r] \in Request /\ req'[r] \in Request
    BY NextType DEF TypeOK
  <2>2. QED
    BY <2>1, NothingIsWrittenNext DEF Request
<1>1. ASSUME NEW r \in Requests, Deletion(r)
      PROVE  PendingInv'
  <2> DEFINE h == req[r].house
  <2>1. /\ h \in Households /\ state' = [state EXCEPT ![h] = "deleted"]
        /\ Finish(r)
    BY <1>1, DeletionEffect
  <2>2. \A s \in Requests \ {r} :
          h \notin Written(s) /\ (Repairing(s, "household") => req[s].house # h)
    <3>1. CASE Repairing(r, "household")
      BY <3>1 DEF PendingInv, DeletedOnce
    <3>2. CASE ~DeletionLocked(r, h)
      <4>1. \A s \in Requests \ {r} : req[s].step # "repairing" => Written(s) = {}
        BY <1>0, NothingIsWritten DEF Request
      <4>2. QED
        BY <3>2, <4>1 DEF DeletionLocked, Repairing, Written
    <3>3. QED
      BY <1>1, <3>1, <3>2 DEF Deletion, Resumes, Repairing
  <2>3. /\ \A s \in Requests \ {r} : req'[s] = req[s] /\ Written(s)' = Written(s)
        /\ ~Repairing(r, "household")' /\ Written(r)' = {}
    BY <2>1, NothingIsWrittenNext DEF Finish, Idle, Repairing, Written, TypeOK
  <2>4. \A g \in Households \ {h} : state'[g] = state[g]
    BY <2>1 DEF TypeOK
  <2>5. \A s \in Requests : Written(s) \subseteq Households \cup {NULL}
    BY <1>0 DEF Written, Request, Updates
  <2>6. \A s \in Requests : Repairing(s, "household") => req[s].house \in Households
    BY ReadType DEF Repairing
  <2> HIDE DEF h
  <2>7. \A s \in Requests : Repairing(s, "household")' =>
          /\ s # r /\ Repairing(s, "household")
          /\ state'[req[s].house] = "live"
    BY <2>2, <2>3, <2>4, <2>6 DEF Repairing, PendingInv
  <2>8. \A s \in Requests : \A g \in Written(s)' \ {NULL} : state'[g] = "live"
    BY <2>2, <2>3, <2>4, <2>5 DEF PendingInv
  <2>9. QED
    BY <2>3, <2>7, <2>8 DEF PendingInv, DeletedOnce
<1>2. ASSUME \A r \in Requests : ~Deletion(r),
             NEW h \in Households, state[h] = "live"
      PROVE  state'[h] = "live"
  BY <1>2, Writers, RemovalEffect
     DEF PointerStep, RowStep, ClearStale, SetFallback, ClearListed,
         WriteSwitch, CreateHousehold, WriteAccept, WriteInvite, WriteRevoke,
         WriteResend, WriteSetRole, Age, Expire, TypeOK
<1>3. CASE \A r \in Requests : ~Deletion(r)
  <2> DEFINE Kept(r) == Written(r)' = Written(r) /\ req'[r] = req[r]
  <2>0. \A r \in Requests : /\ Written(r) \subseteq Households \cup {NULL}
                            /\ Repairing(r, "household") => req[r].house \in Households
    <3>1. \A r \in Requests : Written(r) \subseteq Households \cup {NULL}
      BY <1>0 DEF Written, Request, Updates
    <3>2. QED
      BY <3>1, ReadType DEF Repairing
  <2>1. CASE \A r \in Requests : Kept(r)
    BY <1>2, <1>3, <2>0, <2>1 DEF PendingInv, DeletedOnce, Repairing
  <2>2. ASSUME NEW r \in Requests, ~Kept(r)
        PROVE  PendingInv'
    <3>1. req'[r] # req[r]
      BY <2>2 DEF Written
    <3>2. \A s \in Requests \ {r} : Kept(s)
      BY <3>1, RequestStep DEF Written
    <3>3. CASE req'[r].step # "repairing"
      BY <1>0, <1>2, <1>3, <2>0, <3>2, <3>3 DEF PendingInv, DeletedOnce, Repairing
    <3>4. CASE req'[r].step = "repairing"
      <4>1. Selects(r) /\ UNCHANGED state
        BY <3>1, <3>4, RepairStarts DEF Selects
      <4>2. /\ req'[r].house = req[r].house
            /\ req'[r].gone = "household" => /\ state[req[r].house] = "live"
                                             /\ req'[r].fallback # req[r].house
        BY <4>1, SelectEffect DEF PendingInv, Repairing
      <4>3. \A h \in Written(r)' \ {NULL} : state[h] = "live"
        BY <4>1, SelectEffect DEF PendingInv
      <4>4. \A s \in Requests \ {r} :
              Repairing(s, "household") => req[s].house \notin Written(r)'
        BY <4>1, SelectEffect DEF PendingInv, HouseLocked
      <4>5. /\ req'[r].gone = "household" =>
                 \A s \in Requests \ {r} :
                   /\ req[r].house \notin Written(s)
                   /\ Repairing(s, "household") => req[s].house # req[r].house
            /\ req'[r].gone = "household" => req[r].house \notin Written(r)'
        <5>1. CASE Repairing(r, "household")
          BY <4>1, <5>1, SelectEffect DEF PendingInv, DeletedOnce, Repairing
        <5>2. CASE /\ ~DeletionLocked(r, req[r].house) /\ Written(r)' = {}
          <6>1. \A s \in Requests \ {r} :
                  req[s].step # "repairing" => Written(s) = {}
            BY <1>0, NothingIsWritten DEF Request
          <6>2. QED
            BY <5>2, <6>1 DEF DeletionLocked, Repairing, Written
        <5>3. QED
          BY <4>1, <5>1, <5>2, SelectEffect DEF Repairing
      <4>6. QED
        BY <3>2, <4>1, <4>2, <4>3, <4>4, <4>5 DEF PendingInv, DeletedOnce, Repairing
    <3>5. QED
      BY <3>3, <3>4
  <2>3. QED
    BY <2>1, <2>2
<1>4. QED
  BY <1>1, <1>3

LEMMA PendingCorrect == Spec => []PendingInv
<1>1. Init => PendingInv
  BY NothingIsWritten DEF Init, Idle, PendingInv, DeletedOnce, Repairing
<1>2. QED
  BY <1>1, PendingStep, TypeCorrect, PTL DEF Spec

-----------------------------------------------------------------------------
(* A link admits at most one membership each time it is issued.  The bound *)
(* alone is not inductive: while an invitation is pending its current link *)
(* must not have been used yet.                                            *)

LinkUnused ==
  \A i \in Invitations :
    invite[i].status \in {"none", "pending"} => admitted[i] <= invite[i].resends

AdmissionInv == AdmissionsBounded /\ LinkUnused

LEMMA AdmissionStep ==
  ASSUME TypeOK, AdmissionInv, [Next]_vars
  PROVE  AdmissionInv'
<1> USE DEF AdmissionInv, AdmissionsBounded, LinkUnused
<1>1. \A i \in Invitations : /\ invite[i] \in Invitation
                             /\ invite[i].resends \in Nat
                             /\ admitted[i] \in Nat
  BY DEF TypeOK, Invitation
<1>2. CASE UNCHANGED <<invite, admitted>>
  BY <1>2
<1>3. ASSUME NEW r \in Requests, WriteAccept(r) PROVE AdmissionInv'
  <2>1. req[r].inv \in Invitations
    BY <1>3, ReadType DEF WriteAccept
  <2>2. CASE UNCHANGED <<invite, admitted>>
    BY <2>2
  <2>3. CASE /\ StillPending(req[r].inv)
             /\ invite' = [invite EXCEPT ![req[r].inv].status = "accepted"]
             /\ admitted' = [admitted EXCEPT ![req[r].inv] = @ + 1]
    BY <1>1, <2>1, <2>3 DEF StillPending, TypeOK, Invitation
  <2>4. QED
    BY <1>3, <2>2, <2>3 DEF WriteAccept
<1>4. ASSUME NEW r \in Requests, WriteInvite(r) PROVE AdmissionInv'
  <2>1. CASE UNCHANGED invite
    BY <1>4, <2>1 DEF WriteInvite
  <2>2. ASSUME NEW i \in Invitations, invite[i].status = "none",
               invite' = [invite EXCEPT ![i] =
                 [status |-> "pending", house |-> req[r].house,
                  by |-> req[r].user, email |-> req[r].target,
                  role |-> req[r].role, resends |-> 0, recent |-> TRUE,
                  expired |-> FALSE]]
        PROVE  AdmissionInv'
    <3>1. admitted[i] <= 0
      BY <1>1, <2>2 DEF Invitation, NoInvitation
    <3>2. UNCHANGED admitted
      BY <1>4 DEF WriteInvite
    <3>3. QED
      BY <1>1, <2>2, <3>1, <3>2 DEF TypeOK
  <2>3. QED
    BY <1>4, <2>1, <2>2 DEF WriteInvite
<1>5. ASSUME NEW r \in Requests, WriteRevoke(r) PROVE AdmissionInv'
  BY <1>1, <1>5 DEF WriteRevoke, TypeOK, Invitation
<1>6. ASSUME NEW r \in Requests, WriteResend(r) PROVE AdmissionInv'
  BY <1>1, <1>6 DEF WriteResend, TypeOK, Invitation
<1>7. ASSUME NEW r \in Requests, Deletion(r) PROVE AdmissionInv'
  <2>1. Cascade(req[r].house) /\ UNCHANGED admitted
    BY <1>7, DeletionEffect
  <2>2. \A i \in Invitations :
          /\ invite'[i].resends = invite[i].resends
          /\ invite'[i].status \in {invite[i].status, "deleted"}
    BY <1>1, <2>1 DEF Cascade, Invitation
  <2>3. QED
    BY <2>1, <2>2
<1>8. ASSUME NEW i \in Invitations, Age(i) \/ Expire(i) PROVE AdmissionInv'
  <2>1. /\ \A j \in Invitations : /\ invite'[j].resends = invite[j].resends
                                  /\ invite'[j].status = invite[j].status
        /\ UNCHANGED admitted
    BY <1>8, TimeKeeps
  <2>2. QED
    BY <2>1
<1>9. QED
  BY Writers, RemovalEffect, <1>2, <1>3, <1>4, <1>5, <1>6, <1>7, <1>8
     DEF PointerStep, RowStep, ClearStale, SetFallback, ClearListed,
         WriteSwitch, CreateHousehold, WriteSetRole

\* However many requests present one link at the same time, and whatever
\* admins do to the invitation meanwhile, accept_invitation's guarded update
\* lets one of them in for each time the link was issued.
THEOREM AdmissionsBoundedCorrect == Spec => []AdmissionsBounded
<1>1. Init => AdmissionInv
  BY DEF Init, NoInvitation, AdmissionInv, AdmissionsBounded, LinkUnused
<1>2. TypeOK /\ AdmissionInv /\ [Next]_vars => AdmissionInv'
  BY AdmissionStep
<1>3. AdmissionInv => AdmissionsBounded
  BY DEF AdmissionInv
<1>4. QED
  BY <1>1, <1>2, <1>3, TypeCorrect, PTL DEF Spec

-----------------------------------------------------------------------------
(* Deletion leaves nothing behind.  NoDanglingReference is inductive given *)
(* PendingInv: the foreign keys are what every later write is checked      *)
(* against, and the locks keep what was checked until the commit.          *)

\* A repair commits live households only, the one it deletes not among them.
LEMMA RepairedLive ==
  ASSUME TypeOK, PendingInv, NoDanglingReference, NEW r \in Requests, NEW q,
         Resumes(r, q), q.affected = {}, NEW u \in Users,
         Repaired(q)[u] # NULL
  PROVE  /\ Repaired(q)[u] \in Households /\ state[Repaired(q)[u]] = "live"
         /\ q.gone = "household" => Repaired(q)[u] # q.house
<1>1. CASE u \in DOMAIN q.written
  <2>1. /\ req[r].step = "repairing" /\ q.house = req[r].house
        /\ q.gone = req[r].gone
        /\ q.written = Added(req[r].written, req[r].target, req[r].fallback)
        /\ req[r].fallback # NULL => state[req[r].fallback] = "live"
    BY <1>1 DEF Resumes, NothingWritten
  <2>2. q.written[u] \in Written(r) \cup {req[r].fallback}
    BY <1>1, <2>1 DEF Written, Added
  <2>3. Repaired(q)[u] = q.written[u]
    BY <1>1 DEF Repaired
  <2>4. q.written[u] \in Households \cup {NULL}
    BY <1>1 DEF Resumes, Request, Updates
  <2>5. /\ q.gone = "household" => /\ req[r].fallback # req[r].house
                                   /\ req[r].house \notin Written(r)
        /\ \A h \in Written(r) \ {NULL} : state[h] = "live"
    BY <2>1 DEF PendingInv, Repairing
  <2>6. QED
    BY <2>1, <2>2, <2>3, <2>4, <2>5
<1>2. CASE u \notin DOMAIN q.written
  BY <1>2 DEF Repaired, NoDanglingReference, TypeOK
<1>3. QED
  BY <1>1, <1>2

LEMMA NoDanglingStep ==
  ASSUME TypeOK, PendingInv, NoDanglingReference, [Next]_vars
  PROVE  NoDanglingReference'
<1> USE DEF NoDanglingReference, Members
<1>0. \A i \in Invitations : invite[i] \in Invitation
  BY DEF TypeOK
<1>1. CASE UNCHANGED <<state, role, active, invite, admitted>>
  BY <1>1
<1>2. ASSUME NEW r \in Requests, PointerStep(r) PROVE NoDanglingReference'
  <2>1. UNCHANGED <<state, role, invite>>
    BY <1>2 DEF PointerStep, ClearStale, SetFallback, ClearListed, WriteSwitch
  <2>2. \A u \in Users : active'[u] # NULL => state[active'[u]] = "live"
    BY <1>2 DEF PointerStep, ClearStale, SetFallback, ClearListed,
                WriteSwitch, SetActive, TypeOK
  <2>3. QED
    BY <2>1, <2>2
<1>3. ASSUME NEW r \in Requests, NEW u \in Users, CreateHousehold(r, u)
      PROVE  NoDanglingReference'
  <2>1. PICK h \in Households : /\ state' = [state EXCEPT ![h] = "live"]
                                /\ role' = [role EXCEPT ![h][u] = CreatorRole]
                                /\ active' = [active EXCEPT ![u] = h]
    BY <1>3 DEF CreateHousehold
  <2>2. UNCHANGED invite
    BY <1>3 DEF CreateHousehold
  <2>3. \A i \in Invitations : invite[i].status # "none"
                                => invite[i].house \in Households
    BY DEF TypeOK, Invitation
  <2>4. QED
    BY <2>1, <2>2, <2>3 DEF TypeOK
<1>4. ASSUME NEW r \in Requests, WriteAccept(r) PROVE NoDanglingReference'
  <2>1. /\ req[r].user \in Users /\ req[r].house \in Households
        /\ req[r].inv \in Invitations
    BY <1>4, ReadType DEF WriteAccept
  <2>2. CASE UNCHANGED <<role, active, invite>>
    BY <1>4, <2>2 DEF WriteAccept
  <2>3. CASE /\ state[req[r].house] = "live"
             /\ StillPending(req[r].inv)
             /\ role' = [role EXCEPT ![req[r].house][req[r].user] = req[r].role]
             /\ invite' = [invite EXCEPT ![req[r].inv].status = "accepted"]
             /\ active' = [active EXCEPT ![req[r].user] = req[r].house]
    <3>1. UNCHANGED state
      BY <1>4 DEF WriteAccept
    <3>2. \A i \in Invitations :
            /\ invite'[i].house = invite[i].house
            /\ \/ invite'[i].status = invite[i].status
               \/ invite[i].status = "pending"
      BY <2>1, <2>3 DEF StillPending, TypeOK, Invitation
    <3>3. QED
      BY <2>1, <2>3, <3>1, <3>2 DEF TypeOK
  <2>4. QED
    BY <1>4, <2>2, <2>3 DEF WriteAccept
<1>5. ASSUME NEW r \in Requests, WriteInvite(r) PROVE NoDanglingReference'
  BY <1>5 DEF WriteInvite, TypeOK
<1>6. ASSUME NEW r \in Requests, WriteRevoke(r) \/ WriteResend(r)
      PROVE  NoDanglingReference'
  <2>1. \A i \in Invitations :
          /\ invite'[i].house = invite[i].house
          /\ invite'[i].status = invite[i].status \/ RowExists(i)
    <3>1. ASSUME WriteRevoke(r), NEW i \in Invitations
          PROVE  /\ invite'[i].house = invite[i].house
                 /\ invite'[i].status = invite[i].status \/ RowExists(i)
      <4>1. CASE i = req[r].inv /\ RowExists(i)
        BY <1>0, <3>1, <4>1 DEF WriteRevoke, TypeOK, Invitation
      <4>2. CASE i # req[r].inv \/ ~RowExists(i)
        BY <3>1, <4>2 DEF WriteRevoke, TypeOK
      <4>3. QED
        BY <4>1, <4>2
    <3>2. ASSUME WriteResend(r), NEW i \in Invitations
          PROVE  /\ invite'[i].house = invite[i].house
                 /\ invite'[i].status = invite[i].status \/ RowExists(i)
      <4>1. CASE i = req[r].inv /\ RowExists(i)
        BY <1>0, <3>2, <4>1 DEF WriteResend, TypeOK, Invitation
      <4>2. CASE i # req[r].inv \/ ~RowExists(i)
        BY <3>2, <4>2 DEF WriteResend, TypeOK
      <4>3. QED
        BY <4>1, <4>2
    <3>3. QED
      BY <1>6, <3>1, <3>2
  <2>2. UNCHANGED <<state, role, active>>
    BY <1>6 DEF WriteRevoke, WriteResend
  <2>3. QED
    BY <2>1, <2>2 DEF RowExists
<1>7. ASSUME NEW r \in Requests, Removal(r) PROVE NoDanglingReference'
  <2>1. PICK q : /\ Resumes(r, q) /\ q.affected = {} /\ active' = Repaired(q)
    BY <1>7 DEF Removal, CommitRepair
  <2>2. UNCHANGED <<state, invite>>
    BY <1>7, RemovalEffect
  <2>3. \A h \in Households, u \in Users : role'[h][u] \in {role[h][u], "none"}
    BY <1>7, RemovalTakes
  <2>4. \A u \in Users : active'[u] # NULL => state[active'[u]] = "live"
    BY <2>1, RepairedLive
  <2>5. QED
    BY <2>2, <2>3, <2>4
<1>8. ASSUME NEW r \in Requests, WriteSetRole(r) PROVE NoDanglingReference'
  <2>1. UNCHANGED <<state, active, invite>>
    BY <1>8 DEF WriteSetRole
  <2>2. \A h \in Households, u \in Users :
          role[h][u] = "none" => role'[h][u] = "none"
    BY <1>8 DEF WriteSetRole, RowToUpdate, TypeOK
  <2>3. QED
    BY <2>1, <2>2
<1>9. ASSUME NEW r \in Requests, Deletion(r) PROVE NoDanglingReference'
  <2> DEFINE h == req[r].house
  <2>1. /\ h \in Households /\ Cascade(h)
        /\ state' = [state EXCEPT ![h] = "deleted"]
    BY <1>9, DeletionEffect
  <2>2. \A g \in Households : state'[g] # "live" => Members(g)' = {}
    BY <2>1 DEF Cascade, TypeOK
  <2>3. \A i \in Invitations :
          invite'[i].status \in {"pending", "accepted", "revoked"}
            => invite[i].house # h /\ invite'[i] = invite[i]
    BY <2>1 DEF Cascade, TypeOK, Invitation
  <2>4. ASSUME NEW u \in Users, active'[u] # NULL
        PROVE  state'[active'[u]] = "live"
    <3>1. PICK q : /\ Resumes(r, q) /\ q.affected = {} /\ q.house = h
                   /\ q.gone = "household" /\ active' = Repaired(q)
      BY <1>9 DEF Deletion, CommitRepair, Resumes
    <3>2. /\ active'[u] \in Households /\ active'[u] # h
          /\ state[active'[u]] = "live"
      BY <2>4, <3>1, RepairedLive
    <3>3. QED
      BY <2>1, <3>2 DEF TypeOK
  <2>5. ASSUME NEW i \in Invitations,
               invite'[i].status \in {"pending", "accepted", "revoked"}
        PROVE  state'[invite'[i].house] = "live"
    BY <2>1, <2>3, <2>5 DEF TypeOK
  <2>6. QED
    BY <2>2, <2>4, <2>5
<1>10. ASSUME NEW i \in Invitations, Age(i) \/ Expire(i)
       PROVE  NoDanglingReference'
  <2>1. /\ \A j \in Invitations : /\ invite'[j].house = invite[j].house
                                  /\ invite'[j].status = invite[j].status
        /\ UNCHANGED <<state, role, active>>
    BY <1>10, TimeKeeps
  <2>2. QED
    BY <2>1
<1>11. QED
  BY Writers, <1>1, <1>2, <1>3, <1>4, <1>5, <1>6, <1>7, <1>8, <1>9, <1>10
     DEF RowStep

\* A deleted household is gone from every table, whatever requests about it
\* were under way: no write of theirs brings back a membership, an invitation
\* or an active household that refers to it.
THEOREM NoDanglingReferenceCorrect == Spec => []NoDanglingReference
<1>1. Init => NoDanglingReference
  BY DEF Init, NoInvitation, NoDanglingReference, Members
<1>2. TypeOK /\ PendingInv /\ NoDanglingReference /\ [Next]_vars
        => NoDanglingReference'
  BY NoDanglingStep
<1>3. QED
  BY <1>1, <1>2, TypeCorrect, PendingCorrect, PTL DEF Spec

-----------------------------------------------------------------------------
(* Nobody joins except by creating the household or through an invitation  *)
(* to it.  An accept writes the household it read together with the        *)
(* invitation's id, so the two must still belong together when it writes.  *)

\* An invitation row keeps its household and is never unused again.
LEMMA RowKept ==
  ASSUME TypeOK, [Next]_vars, NEW i \in Invitations, invite[i].status # "none"
  PROVE  invite'[i].status # "none" /\ invite'[i].house = invite[i].house
<1>0. invite[i] \in Invitation
  BY DEF TypeOK
<1>1. CASE UNCHANGED invite
  BY <1>1
<1>2. ASSUME NEW r \in Requests, WriteAccept(r), invite' # invite
      PROVE  invite'[i].status # "none" /\ invite'[i].house = invite[i].house
  <2>1. invite' = [invite EXCEPT ![req[r].inv].status = "accepted"]
    BY <1>2 DEF WriteAccept
  <2>2. CASE i = req[r].inv
    BY <1>0, <2>1, <2>2 DEF TypeOK, Invitation
  <2>3. CASE i # req[r].inv
    BY <2>1, <2>3 DEF TypeOK
  <2>4. QED
    BY <2>2, <2>3
<1>3. ASSUME NEW r \in Requests, WriteInvite(r)
      PROVE  invite'[i].status # "none" /\ invite'[i].house = invite[i].house
  BY <1>3 DEF WriteInvite, TypeOK
<1>4. ASSUME NEW r \in Requests, WriteRevoke(r)
      PROVE  invite'[i].status # "none" /\ invite'[i].house = invite[i].house
  <2>1. CASE i = req[r].inv /\ RowExists(i)
    BY <1>0, <1>4, <2>1 DEF WriteRevoke, TypeOK, Invitation
  <2>2. CASE i # req[r].inv \/ ~RowExists(i)
    BY <1>4, <2>2 DEF WriteRevoke, TypeOK
  <2>3. QED
    BY <2>1, <2>2
<1>5. ASSUME NEW r \in Requests, WriteResend(r)
      PROVE  invite'[i].status # "none" /\ invite'[i].house = invite[i].house
  <2>1. CASE i = req[r].inv /\ RowExists(i)
    BY <1>0, <1>5, <2>1 DEF WriteResend, TypeOK, Invitation
  <2>2. CASE i # req[r].inv \/ ~RowExists(i)
    BY <1>5, <2>2 DEF WriteResend, TypeOK
  <2>3. QED
    BY <2>1, <2>2
<1>6. ASSUME NEW r \in Requests, Deletion(r)
      PROVE  invite'[i].status # "none" /\ invite'[i].house = invite[i].house
  <2>1. Cascade(req[r].house)
    BY <1>6, DeletionEffect
  <2>2. QED
    BY <1>0, <2>1 DEF Cascade, Invitation
<1>7. ASSUME NEW j \in Invitations, Age(j) \/ Expire(j)
      PROVE  invite'[i].status # "none" /\ invite'[i].house = invite[i].house
  BY <1>7, TimeKeeps
<1>8. QED
  BY Writers, RemovalEffect, <1>1, <1>2, <1>3, <1>4, <1>5, <1>6, <1>7
     DEF PointerStep, RowStep, ClearStale, SetFallback, ClearListed,
         WriteSwitch, CreateHousehold, WriteSetRole

\* Only CheckAccept starts an accept.
LEMMA AcceptStarts ==
  ASSUME TypeOK, [Next]_vars, NEW r \in Requests, req'[r].step = "accepting"
  PROVE  \/ req'[r] = req[r]
         \/ \E u \in Users, i \in Invitations : CheckAccept(r, u, i)
<1> SUFFICES ASSUME req'[r] # req[r]
             PROVE  \E u \in Users, i \in Invitations : CheckAccept(r, u, i)
  OBVIOUS
<1>4. ~ Finish(r)
  BY DEF Finish, Idle, TypeOK
<1>5. ~ Resolve(r)
  <2>1. ASSUME NEW u \in Users, ResolveActive(r, u) PROVE FALSE
    BY <2>1 DEF ResolveActive, Goto, Idle, TypeOK
  <2>2. ASSUME NEW u \in Users, ResolveStale(r, u) PROVE FALSE
    BY <2>2 DEF ResolveStale, Goto, Idle, TypeOK
  <2>3. ASSUME NEW u \in Users, NEW h, FallBackTo(r, u, h) PROVE FALSE
    BY <2>3 DEF FallBackTo, Goto, Idle, TypeOK
  <2>4. ASSUME SetFallback(r) PROVE FALSE
    BY <1>4, <2>4 DEF SetFallback, Goto, Idle, TypeOK
  <2>5. ASSUME ClearStale(r) PROVE FALSE
    BY <1>4, <2>3, <2>5, ReadType DEF ClearStale
  <2>6. QED
    BY <1>4, <2>1, <2>2, <2>3, <2>4, <2>5 DEF Resolve, ResolveUnset, Refuse
<1>6. ~ InvitationRequest(r)
  <2>1. ASSUME NEW e, NEW x, CheckInvite(r, e, x) PROVE FALSE
    BY <2>1, ReadType DEF CheckInvite, Goto, TypeOK, Request
  <2>2. ASSUME NEW i, CheckRevoke(r, i) PROVE FALSE
    BY <2>2, ReadType DEF CheckRevoke, Goto, TypeOK, Request
  <2>3. ASSUME NEW i, CheckResend(r, i) PROVE FALSE
    BY <2>3, ReadType DEF CheckResend, Goto, TypeOK, Request
  <2>4. QED
    BY <1>4, <2>1, <2>2, <2>3 DEF InvitationRequest, WriteInvite, WriteRevoke,
       WriteResend
<1>7. ~ MemberRequest(r)
  <2>1. ASSUME NEW t, CheckRemove(r, t) PROVE FALSE
    BY <2>1, ReadType DEF CheckRemove, Goto, TypeOK, Request
  <2>2. ASSUME NEW t, NEW x, CheckSetRole(r, t, x) PROVE FALSE
    BY <2>2, ReadType DEF CheckSetRole, Goto, TypeOK, Request
  <2>3. ASSUME CheckDelete(r) PROVE FALSE
    BY <2>3, ReadType DEF CheckDelete, Goto, TypeOK, Request
  <2>4. ASSUME Selects(r) PROVE FALSE
    BY <2>4, ReadType DEF Selects, Selecting, Resumes, Request, Goto, TypeOK
  <2>5. ~ RepairStep(r)
    BY <1>4, <2>4, RepairSteps, RemovalEffect, DeletionEffect
  <2>6. QED
    BY <1>4, <2>1, <2>2, <2>3, <2>5 DEF MemberRequest, RepairStep,
       WriteSetRole, RollBack
<1>8. UserRequest(r)
  BY <1>5, <1>6, <1>7, RequestStep
<1>9. ~ \E u \in Users : CreateHousehold(r, u) \/ ListHouseholds(r, u)
  BY ZenonT(60) DEF CreateHousehold, ListHouseholds, Goto, Idle, TypeOK
<1>10. ~ \E u \in Users, h \in Households : CheckSwitch(r, u, h)
  BY DEF CheckSwitch, Goto, Idle, TypeOK
<1>11. QED
  BY <1>4, <1>8, <1>9, <1>10 DEF UserRequest, ClearListed, WriteSwitch,
     WriteAccept

AcceptsForItsHouse ==
  \A r \in Requests :
    req[r].step = "accepting" =>
      /\ invite[req[r].inv].status # "none"
      /\ invite[req[r].inv].house = req[r].house

LEMMA AcceptsForItsHouseStep ==
  ASSUME TypeOK, AcceptsForItsHouse, [Next]_vars
  PROVE  AcceptsForItsHouse'
<1> SUFFICES ASSUME NEW r \in Requests, req'[r].step = "accepting"
             PROVE  /\ invite'[req'[r].inv].status # "none"
                    /\ invite'[req'[r].inv].house = req'[r].house
  BY DEF AcceptsForItsHouse
<1>1. CASE req'[r] = req[r]
  <2>1. req[r].inv \in Invitations
    BY <1>1, ReadType
  <2>2. QED
    BY <1>1, <2>1, RowKept DEF AcceptsForItsHouse
<1>2. ASSUME NEW u \in Users, NEW i \in Invitations, CheckAccept(r, u, i)
      PROVE  /\ invite'[req'[r].inv].status # "none"
             /\ invite'[req'[r].inv].house = req'[r].house
  BY <1>2 DEF CheckAccept, Goto, Acceptable, Idle, TypeOK
<1>3. QED
  BY <1>1, <1>2, AcceptStarts

\* A membership is created by create_household or accept_invite only.
LEMMA JoinCause ==
  ASSUME TypeOK, [Next]_vars, NEW h \in Households, NEW u \in Users,
         role[h][u] = "none", role'[h][u] # "none"
  PROVE  \/ /\ state[h] = "new" /\ state'[h] = "live"
            /\ \E r \in Requests : CreateHousehold(r, u)
         \/ \E r \in Requests : /\ WriteAccept(r)
                                /\ req[r].house = h /\ req[r].user = u
                                /\ invite' # invite
<1>1. role' # role
  OBVIOUS
<1>2. ASSUME NEW r \in Requests, NEW c \in Users, CreateHousehold(r, c)
      PROVE  state[h] = "new" /\ state'[h] = "live" /\ c = u
  BY <1>2 DEF CreateHousehold, TypeOK
<1>3. ASSUME NEW r \in Requests, WriteAccept(r)
      PROVE  req[r].house = h /\ req[r].user = u /\ invite' # invite
  <2>1. /\ req[r].user \in Users /\ req[r].house \in Households
        /\ req[r].inv \in Invitations
    BY <1>3, ReadType DEF WriteAccept
  <2>2. /\ role' = [role EXCEPT ![req[r].house][req[r].user] = req[r].role]
        /\ invite[req[r].inv].status = "pending"
        /\ invite' = [invite EXCEPT ![req[r].inv].status = "accepted"]
    BY <1>1, <1>3 DEF WriteAccept, StillPending
  <2>3. invite' # invite
    <3>1. invite[req[r].inv] \in Invitation
      BY <2>1 DEF TypeOK
    <3>2. invite'[req[r].inv].status = "accepted"
      BY <2>1, <2>2, <3>1 DEF TypeOK, Invitation
    <3>3. QED
      BY <2>2, <3>2
  <2>4. QED
    BY <2>1, <2>2, <2>3 DEF TypeOK
<1>4. ASSUME NEW r \in Requests, Removal(r) PROVE FALSE
  BY <1>4, RemovalTakes
<1>5. ASSUME NEW r \in Requests, WriteSetRole(r) PROVE FALSE
  BY <1>5 DEF WriteSetRole, RowToUpdate, TypeOK
<1>6. ASSUME NEW r \in Requests, Deletion(r) PROVE FALSE
  BY <1>6, DeletionEffect DEF Cascade, TypeOK
<1>7. QED
  BY Writers, <1>1, <1>2, <1>3, <1>4, <1>5, <1>6
     DEF PointerStep, RowStep, ClearStale, SetFallback, ClearListed,
         WriteSwitch, WriteInvite, WriteRevoke, WriteResend, Age, Expire

LEMMA JoinStep ==
  ASSUME TypeOK, AcceptsForItsHouse, [Next]_vars,
         NEW h \in Households, NEW u \in Users,
         role[h][u] = "none", role'[h][u] # "none"
  PROVE  \/ state[h] = "new" /\ state'[h] = "live"
         \/ \E i \in Invitations : /\ invite[i].house = h
                                   /\ admitted'[i] = admitted[i] + 1
<1> SUFFICES ASSUME NEW r \in Requests, WriteAccept(r), req[r].house = h,
                    invite' # invite
             PROVE  \E i \in Invitations : /\ invite[i].house = h
                                          /\ admitted'[i] = admitted[i] + 1
  BY JoinCause
<1>1. req[r].inv \in Invitations
  BY ReadType DEF WriteAccept
<1>2. admitted' = [admitted EXCEPT ![req[r].inv] = @ + 1]
  BY DEF WriteAccept
<1>3. invite[req[r].inv].house = h
  BY DEF WriteAccept, AcceptsForItsHouse
<1>4. QED
  BY <1>1, <1>2, <1>3 DEF TypeOK

\* No write prepared before a removal, a role change or a deletion brings a
\* membership back: each new one comes from create_household or is counted
\* against an invitation to that very household.
THEOREM JoinedByInvitationCorrect == Spec => JoinedByInvitation
<1>1. Init => AcceptsForItsHouse
  BY DEF Init, Idle, AcceptsForItsHouse
<1>2. TypeOK /\ AcceptsForItsHouse /\ [Next]_vars => AcceptsForItsHouse'
  BY AcceptsForItsHouseStep
<1>3. TypeOK /\ AcceptsForItsHouse /\ [Next]_vars =>
        [\A h \in Households, u \in Users :
           role[h][u] = "none" /\ role'[h][u] # "none"
             => \/ state[h] = "new" /\ state'[h] = "live"
                \/ \E i \in Invitations :
                      /\ invite[i].house = h
                      /\ admitted'[i] = admitted[i] + 1]_vars
  BY JoinStep
<1>4. QED
  BY <1>1, <1>2, <1>3, TypeCorrect, PTL DEF Spec, JoinedByInvitation

-----------------------------------------------------------------------------
(* What a request holds refers to a household that exists, or existed.     *)

\* What the step that changed req[r] has just read.
LEMMA Reads ==
  ASSUME TypeOK, [Next]_vars, NEW r \in Requests, req'[r] # req[r],
         req'[r].step \notin {"idle", "clearing", "list_clearing"}
  PROVE  /\ UNCHANGED <<state, role, invite>>
         /\ \/ req[r].step \in AdminSteps /\ req'[r].house = req[r].house
            \/ state[req'[r].house] = "live"
         /\ req'[r].step \in {"switching", "falling_back"}
              => role[req'[r].house][req'[r].user] # "none"
         /\ req'[r].step \in {"revoking", "resending"}
              => invite[req'[r].inv].status # "accepted"
         /\ /\ Lowering(r)' /\ req'[r].step # "repairing"
            /\ role[req'[r].house][req'[r].target] = "admin"
            => Cardinality(Admins(req'[r].house)) > 1
         /\ Repairing(r, "member")' =>
              /\ req[r].step = "removing" /\ req[r].role # "none"
              /\ req'[r].house = req[r].house /\ req'[r].target = req[r].target
<1> DEFINE Goal ==
      /\ UNCHANGED <<state, role, invite>>
      /\ \/ req[r].step \in AdminSteps /\ req'[r].house = req[r].house
         \/ state[req'[r].house] = "live"
      /\ req'[r].step \in {"switching", "falling_back"}
           => role[req'[r].house][req'[r].user] # "none"
      /\ req'[r].step \in {"revoking", "resending"}
           => invite[req'[r].inv].status # "accepted"
      /\ /\ Lowering(r)' /\ req'[r].step # "repairing"
         /\ role[req'[r].house][req'[r].target] = "admin"
         => Cardinality(Admins(req'[r].house)) > 1
      /\ Repairing(r, "member")' =>
           /\ req[r].step = "removing" /\ req[r].role # "none"
           /\ req'[r].house = req[r].house /\ req'[r].target = req[r].target
<1>0. req \in [Requests -> Request]
  BY DEF TypeOK
<1>1. ~ Finish(r)
  BY <1>0 DEF Finish, Idle
<1>2. ASSUME NEW u \in Users, NEW h \in MembershipsOf(u), FallBackTo(r, u, h),
             UNCHANGED <<state, role, invite>>
      PROVE  Goal
  BY <1>0, <1>2 DEF FallBackTo, Goto, Idle, MembershipsOf, Lowering,
     Removing, Repairing, AdminSteps
<1>3. ASSUME Resolve(r) PROVE Goal
  <2>1. ASSUME NEW u \in Users, ResolveActive(r, u) PROVE Goal
    BY <1>0, <2>1 DEF ResolveActive, ActiveIsValid, MembershipsOf, Goto, Idle,
                      Lowering, Removing, Repairing, AdminSteps
  <2>2. ASSUME NEW u \in Users, ResolveStale(r, u) PROVE Goal
    BY <1>0, <2>2 DEF ResolveStale, Goto, Idle
  <2>3. ASSUME NEW u \in Users, ResolveUnset(r, u) PROVE Goal
    BY <1>2, <2>3 DEF ResolveUnset
  <2>4. ASSUME ClearStale(r) PROVE Goal
    BY <1>1, <1>2, <2>4, ReadType DEF ClearStale
  <2>5. ASSUME SetFallback(r) PROVE Goal
    BY <1>0, <1>1, <2>5 DEF SetFallback, Goto, Idle, Lowering,
     Removing, Repairing, AdminSteps
  <2>6. QED
    BY <1>1, <1>3, <2>1, <2>2, <2>3, <2>4, <2>5 DEF Resolve, Refuse
<1>4. ASSUME UserRequest(r) PROVE Goal
  <2>1. ASSUME NEW u \in Users, ListHouseholds(r, u) PROVE Goal
    <3>1. ASSUME Goto(r, [Idle EXCEPT !.step = "list_clearing", !.user = u])
          PROVE  FALSE
      BY <1>0, <3>1 DEF Goto, Idle
    <3>2. PICK h \in MembershipsOf(u) :
            Goto(r, [Idle EXCEPT !.step = "switching", !.user = u, !.house = h])
      BY <2>1, <3>1 DEF ListHouseholds
    <3>3. UNCHANGED <<state, role, invite>>
      BY <2>1 DEF ListHouseholds
    <3>4. QED
      BY <1>0, <3>2, <3>3 DEF MembershipsOf, Goto, Idle, Lowering,
     Removing, Repairing, AdminSteps
  <2>2. ASSUME NEW u \in Users, NEW h \in Households, CheckSwitch(r, u, h)
        PROVE  Goal
    BY <1>0, <2>2 DEF CheckSwitch, MembershipsOf, Goto, Idle, Lowering,
     Removing, Repairing, AdminSteps
  <2>3. ASSUME NEW u \in Users, NEW i \in Invitations, CheckAccept(r, u, i)
        PROVE  Goal
    BY <1>0, <2>3 DEF CheckAccept, Goto, Idle, Lowering,
     Removing, Repairing, AdminSteps
  <2>4. ~ \E u \in Users : CreateHousehold(r, u)
    BY DEF CreateHousehold
  <2>5. QED
    BY <1>1, <1>4, <2>1, <2>2, <2>3, <2>4
       DEF UserRequest, ClearListed, WriteSwitch, WriteAccept
<1>5. ASSUME InvitationRequest(r) PROVE Goal
  <2>0. req[r] \in Request
    BY <1>0
  <2>1. ASSUME NEW e \in Users \cup {NULL}, NEW x \in Roles, CheckInvite(r, e, x)
        PROVE  Goal
    BY <1>0, <2>0, <2>1 DEF CheckInvite, Authorized, Goto, Request, Lowering,
     Removing, Repairing, AdminSteps
  <2>2. ASSUME NEW i \in Invitations, CheckRevoke(r, i) PROVE Goal
    BY <1>0, <2>0, <2>2
       DEF CheckRevoke, Authorized, NotAccepted, Goto, Request, Lowering,
     Removing, Repairing, AdminSteps
  <2>3. ASSUME NEW i \in Invitations, CheckResend(r, i) PROVE Goal
    BY <1>0, <2>0, <2>3
       DEF CheckResend, Authorized, NotAccepted, Goto, Request, Lowering,
     Removing, Repairing, AdminSteps
  <2>4. QED
    BY <1>1, <1>5, <2>1, <2>2, <2>3
       DEF InvitationRequest, WriteInvite, WriteRevoke, WriteResend
<1>6. ASSUME MemberRequest(r) PROVE Goal
  <2>0. req[r] \in Request
    BY <1>0
  <2>1. ASSUME NEW t \in Users, CheckRemove(r, t) PROVE Goal
    BY <1>0, <2>0, <2>1 DEF CheckRemove, Authorized, Goto, Request, Lowering,
     Removing, Repairing, AdminSteps
  <2>2. ASSUME NEW t \in Users, NEW x \in Roles, CheckSetRole(r, t, x)
        PROVE  Goal
    BY <1>0, <2>0, <2>2 DEF CheckSetRole, Authorized, Goto, Request, Lowering,
     Removing, Repairing, AdminSteps
  <2>3. ASSUME CheckDelete(r) PROVE Goal
    BY <1>0, <2>0, <2>3 DEF CheckDelete, Authorized, Goto, Request, Lowering,
     Removing, Repairing, AdminSteps
  <2>4. ASSUME Selects(r) PROVE Goal
    <3>1. /\ UNCHANGED <<state, role, invite>>
          /\ req'[r].step = "repairing" /\ req'[r].house = req[r].house
          /\ req[r].step \in AdminSteps
          /\ req'[r].gone = "member" => /\ req[r].step = "removing"
                                        /\ req[r].role # "none"
                                        /\ req'[r].target = req[r].target
      BY <2>4, SelectEffect DEF Selects, AdminSteps, Repairing
    <3>2. QED
      BY <3>1 DEF Repairing
  <2>5. CASE RepairStep(r)
    BY <1>1, <2>4, <2>5, RepairSteps, RemovalEffect, DeletionEffect
  <2>6. QED
    BY <1>1, <1>6, <2>1, <2>2, <2>3, <2>5
       DEF MemberRequest, RepairStep, WriteSetRole, RollBack
<1>7. QED
  BY <1>3, <1>4, <1>5, <1>6, RequestStep

HouseExists ==
  \A r \in Requests :
    req[r].step \notin {"idle", "clearing", "list_clearing"}
      => state[req[r].house] # "new"

LEMMA HouseExistsStep ==
  ASSUME TypeOK, HouseExists, [Next]_vars
  PROVE  HouseExists'
<1> SUFFICES ASSUME NEW r \in Requests,
                    req'[r].step \notin {"idle", "clearing", "list_clearing"}
             PROVE  state'[req'[r].house] # "new"
  BY DEF HouseExists
<1>1. CASE req'[r] = req[r]
  BY <1>1, ReadType, StateStep DEF HouseExists
<1>2. CASE req'[r] # req[r]
  <2>1. UNCHANGED state
    BY <1>2, Reads
  <2>2. \/ req[r].step \in AdminSteps /\ req'[r].house = req[r].house
        \/ state[req'[r].house] = "live"
    BY <1>2, Reads
  <2>3. QED
    BY <2>1, <2>2 DEF HouseExists, AdminSteps
<1>3. QED
  BY <1>1, <1>2

LEMMA HouseExistsCorrect == Spec => []HouseExists
<1>1. Init => HouseExists
  BY DEF Init, Idle, HouseExists
<1>2. QED
  BY <1>1, HouseExistsStep, TypeCorrect, PTL DEF Spec

-----------------------------------------------------------------------------
(* The member limit under concurrency.  An accept that has passed its      *)
(* check is a member to be: while at most k accepts of one household are   *)
(* under way, members and accepts together stay below the limit plus k.    *)

RoomReserved(k) ==
  \A h \in Households :
    Cardinality(Members(h)) + Cardinality(Accepting(h)) < MemberLimit + k

MembersBelow(k) ==
  \A h \in Households : Cardinality(Members(h)) < MemberLimit + k

\* The sets counted are finite.
LEMMA Counts ==
  ASSUME NEW h \in Households
  PROVE  /\ IsFiniteSet(Members(h)) /\ Cardinality(Members(h)) \in Nat
         /\ IsFiniteSet(Accepting(h)) /\ Cardinality(Accepting(h)) \in Nat
         /\ Cardinality(Accepting(h)) <= Cardinality(Requests)
         /\ Cardinality(Requests) \in Nat
<1>1. Members(h) \subseteq Users /\ Accepting(h) \subseteq Requests
  BY DEF Members, Accepting
<1>2. QED
  BY <1>1, FS_Subset, FS_CardinalityType, HouseholdsAssumption
     DEF HouseholdsAssumption

\* The same facts about the next state.
LEMMA CountsNext ==
  ASSUME NEW h \in Households
  PROVE  /\ IsFiniteSet(Members(h)') /\ Cardinality(Members(h)') \in Nat
         /\ IsFiniteSet(Accepting(h)') /\ Cardinality(Accepting(h)') \in Nat
         /\ Cardinality(Accepting(h)') <= Cardinality(Requests)
<1>1. Members(h)' \subseteq Users /\ Accepting(h)' \subseteq Requests
  BY DEF Members, Accepting
<1>2. QED
  BY <1>1, FS_Subset, FS_CardinalityType, HouseholdsAssumption
     DEF HouseholdsAssumption

\* At most one element more, and at least one element less.
LEMMA AddOne ==
  ASSUME NEW S, NEW T, NEW x, IsFiniteSet(S), T \subseteq S \cup {x}
  PROVE  Cardinality(T) <= Cardinality(S) + 1
<1>1. /\ IsFiniteSet(S \cup {x})
      /\ Cardinality(S \cup {x}) \in {Cardinality(S), Cardinality(S) + 1}
  BY FS_AddElement
<1>2. Cardinality(T) <= Cardinality(S \cup {x})
  BY <1>1, FS_Subset
<1>3. Cardinality(S) \in Nat /\ Cardinality(S \cup {x}) \in Nat
      /\ Cardinality(T) \in Nat
  BY <1>1, FS_CardinalityType, FS_Subset
<1>4. QED
  BY <1>1, <1>2, <1>3

LEMMA DropOne ==
  ASSUME NEW S, NEW T, NEW x \in S, IsFiniteSet(S), T \subseteq S \ {x}
  PROVE  Cardinality(T) <= Cardinality(S) - 1
<1>1. IsFiniteSet(S \ {x}) /\ Cardinality(S \ {x}) = Cardinality(S) - 1
  BY FS_RemoveElement
<1>2. Cardinality(T) <= Cardinality(S \ {x})
  BY <1>1, FS_Subset
<1>3. QED
  BY <1>1, <1>2

LEMMA RoomStep ==
  ASSUME TypeOK, NoDanglingReference, HouseExists, [Next]_vars,
         NEW k \in Nat, k = 0 => Requests = {},
         RoomReserved(k), AcceptsAtMost(k)'
  PROVE  RoomReserved(k)'
<1> DEFINE L == MemberLimit + k
<1> SUFFICES ASSUME NEW h \in Households
             PROVE  Cardinality(Members(h)') + Cardinality(Accepting(h)') < L
  BY DEF RoomReserved
<1>1. MemberLimit \in Nat \ {0}
  BY HouseholdsAssumption DEF HouseholdsAssumption
<1>2. /\ Cardinality(Members(h)) + Cardinality(Accepting(h)) < L
      /\ Cardinality(Accepting(h)') <= k
  BY DEF RoomReserved, AcceptsAtMost
<1>3. CASE \E r \in Requests, u \in Users, i \in Invitations :
             CheckAccept(r, u, i) /\ invite[i].house = h
  <2>1. Members(h)' = Members(h) /\ Cardinality(Members(h)) < MemberLimit
    BY <1>1, <1>3, Counts DEF CheckAccept, NoRoom, Members
  <2>2. QED
    BY <1>1, <1>2, <2>1, Counts, CountsNext
<1>4. CASE ~ \E r \in Requests, u \in Users, i \in Invitations :
               CheckAccept(r, u, i) /\ invite[i].house = h
  <2>1. Accepting(h)' \subseteq Accepting(h)
    <3>1. SUFFICES ASSUME NEW r \in Requests, req'[r].step = "accepting",
                          req'[r].house = h
                   PROVE  req'[r] = req[r]
      BY DEF Accepting
    <3>2. ASSUME NEW u \in Users, NEW i \in Invitations, CheckAccept(r, u, i)
          PROVE  invite[i].house = h
      BY <3>1, <3>2 DEF CheckAccept, Goto, Idle, TypeOK
    <3>3. QED
      BY <1>4, <3>1, <3>2, AcceptStarts
  <2>2. CASE Members(h)' \subseteq Members(h)
    <3>1. /\ Cardinality(Members(h)') <= Cardinality(Members(h))
          /\ Cardinality(Accepting(h)') <= Cardinality(Accepting(h))
      BY <2>1, <2>2, Counts, FS_Subset
    <3>2. QED
      BY <1>1, <1>2, <3>1, Counts, CountsNext
  <2>3. ASSUME NEW u \in Users, u \in Members(h)', u \notin Members(h)
        PROVE  Cardinality(Members(h)') + Cardinality(Accepting(h)') < L
    <3>1. role[h][u] = "none" /\ role'[h][u] # "none"
      BY <2>3 DEF Members
    <3>2. ASSUME NEW r \in Requests, CreateHousehold(r, u), state[h] = "new"
          PROVE  Cardinality(Members(h)') + Cardinality(Accepting(h)') < L
      <4>1. Members(h) = {} /\ Accepting(h) = {}
        BY <3>2 DEF NoDanglingReference, HouseExists, Accepting
      <4>2. Members(h)' \subseteq Members(h) \cup {u} /\ Accepting(h)' = {}
        BY <3>2, <4>1 DEF CreateHousehold, Members, Accepting, TypeOK
      <4>3. Cardinality(Members(h)') <= 1 /\ Cardinality(Accepting(h)') = 0
        <5>1. Cardinality(Members(h)) = 0 /\ Cardinality(Accepting(h)') = 0
          BY <4>1, <4>2, FS_EmptySet
        <5>2. Cardinality(Members(h)') <= Cardinality(Members(h)) + 1
          BY <4>2, Counts, AddOne
        <5>3. QED
          BY <5>1, <5>2
      <4>4. QED
        BY <1>1, <4>3, CountsNext
    <3>3. ASSUME NEW r \in Requests, WriteAccept(r), req[r].house = h,
                 req[r].user = u, invite' # invite
          PROVE  Cardinality(Members(h)') + Cardinality(Accepting(h)') < L
      <4>1. Members(h)' \subseteq Members(h) \cup {u}
        BY <3>3 DEF WriteAccept, Members, TypeOK
      <4>2. Cardinality(Members(h)') <= Cardinality(Members(h)) + 1
        BY <4>1, Counts, AddOne
      <4>3. r \in Accepting(h)
        BY <3>3 DEF WriteAccept, Accepting
      <4>4. Accepting(h)' \subseteq Accepting(h) \ {r}
        BY <2>1, <3>3 DEF WriteAccept, Finish, Idle, Accepting, TypeOK
      <4>5. Cardinality(Accepting(h)') <= Cardinality(Accepting(h)) - 1
        BY <4>3, <4>4, Counts, DropOne
      <4>6. QED
        BY <1>1, <1>2, <4>2, <4>5, Counts, CountsNext
    <3>4. QED
      BY <3>1, <3>2, <3>3, JoinCause
  <2>4. QED
    BY <2>2, <2>3 DEF Members
<1>5. QED
  BY <1>3, <1>4

LEMMA RoomInit ==
  ASSUME Init, NEW k \in Nat
  PROVE  RoomReserved(k)
<1> SUFFICES ASSUME NEW h \in Households
             PROVE  Cardinality(Members(h)) + Cardinality(Accepting(h))
                      < MemberLimit + k
  BY DEF RoomReserved
<1>1. Members(h) = {} /\ Accepting(h) = {}
  BY DEF Init, Idle, Members, Accepting
<1>2. QED
  BY <1>1, FS_EmptySet, HouseholdsAssumption DEF HouseholdsAssumption

LEMMA ReservedIsEnough ==
  ASSUME NEW k \in Nat, RoomReserved(k)
  PROVE  MembersBelow(k)
<1> SUFFICES ASSUME NEW h \in Households
             PROVE  Cardinality(Members(h)) < MemberLimit + k
  BY DEF MembersBelow
<1>1. MemberLimit \in Nat
  BY HouseholdsAssumption DEF HouseholdsAssumption
<1>2. QED
  BY <1>1, Counts DEF RoomReserved

LEMMA RoomCorrect ==
  ASSUME NEW k \in Nat, k = 0 => Requests = {}
  PROVE  Spec /\ []AcceptsAtMost(k) => []MembersBelow(k)
<1>1. Init => RoomReserved(k)
  BY RoomInit
<1>2. TypeOK /\ NoDanglingReference /\ HouseExists /\ RoomReserved(k)
      /\ [Next]_vars /\ AcceptsAtMost(k)'
        => RoomReserved(k)'
  BY RoomStep
<1>3. RoomReserved(k) => MembersBelow(k)
  BY ReservedIsEnough
<1>4. QED
  BY <1>1, <1>2, <1>3, NoDanglingReferenceCorrect, HouseExistsCorrect,
     TypeCorrect, PTL DEF Spec

\* accept_invite checks the limit before it inserts, without a lock.  While at
\* most k accepts of one household overlap, the limit is overshot by fewer
\* than k members.
THEOREM MembersBelowCorrect ==
  ASSUME NEW k \in Nat \ {0}
  PROVE  Spec /\ []AcceptsAtMost(k) => []MembersBelow(k)
  BY RoomCorrect

\* Racing accepts can take a household over the member limit, but never by as
\* many members as the server handles requests at the same time.
THEOREM OvershootBoundedCorrect == Spec => []OvershootBounded
<1> DEFINE k == Cardinality(Requests)
<1>1. k \in Nat /\ (k = 0 => Requests = {})
  BY FS_CardinalityType, FS_EmptySet, HouseholdsAssumption
     DEF HouseholdsAssumption
<1>2. AcceptsAtMost(k)
  BY Counts DEF AcceptsAtMost
<1>3. MembersBelow(k) => OvershootBounded
  BY DEF MembersBelow, OvershootBounded
<1> HIDE DEF k
<1>4. QED
  BY <1>1, <1>2, <1>3, RoomCorrect, PTL

-----------------------------------------------------------------------------
(* The requests implement Membership: only a write step moves it, and each *)
(* write step is one of its operations or changes nothing it can see.      *)

LEMMA MembersBecome ==
  ASSUME NEW h \in Households, NEW S,
         \A g \in Households : Members(g)' = IF g = h THEN S ELSE Members(g)
  PROVE  MemberSets' = [MemberSets EXCEPT ![h] = S]
  BY DEF MemberSets

LEMMA MembersKept ==
  ASSUME \A g \in Households, u \in Users :
           role'[g][u] = "none" <=> role[g][u] = "none"
  PROVE  MemberSets' = MemberSets
  BY DEF MemberSets, Members

LEMMA HomesKept ==
  ASSUME \A i \in Invitations : invite'[i].house = invite[i].house
  PROVE  Homes' = Homes
  BY DEF Homes

LEMMA CreateFounds ==
  ASSUME TypeOK, NoDanglingReference, NEW r \in Requests, NEW u \in Users,
         CreateHousehold(r, u)
  PROVE  M!Next
<1>1. PICK h \in Households :
        /\ state[h] = "new" /\ state' = [state EXCEPT ![h] = "live"]
        /\ role' = [role EXCEPT ![h][u] = "admin"]
  BY DEF CreateHousehold, CreatorRole
<1>2. Members(h) = {}
  BY <1>1 DEF NoDanglingReference
<1>3. \A g \in Households : Members(g)' = IF g = h THEN {u} ELSE Members(g)
  BY <1>1, <1>2 DEF Members, TypeOK
<1>4. MemberSets' = [MemberSets EXCEPT ![h] = {u}]
  BY <1>3, MembersBecome
<1>5. UNCHANGED <<UsableLinks, Homes>>
  BY DEF CreateHousehold, UsableLinks, Homes
<1>6. QED
  BY <1>1, <1>4, <1>5 DEF M!Next, M!Found

LEMMA AcceptAdmits ==
  ASSUME TypeOK, AcceptsForItsHouse, NEW r \in Requests, WriteAccept(r)
  PROVE  M!Next \/ UNCHANGED <<state, role, invite>>
<1> DEFINE h == req[r].house
           u == req[r].user
           i == req[r].inv
<1>1. /\ h \in Households /\ u \in Users /\ i \in Invitations
      /\ req[r].role \in Roles /\ invite[i].house = h
  BY ReadType DEF WriteAccept, AcceptsForItsHouse
<1>2. CASE UNCHANGED <<role, invite>>
  BY <1>2 DEF WriteAccept
<1>3. CASE /\ state[h] = "live" /\ role[h][u] = "none" /\ StillPending(i)
           /\ role' = [role EXCEPT ![h][u] = req[r].role]
           /\ invite' = [invite EXCEPT ![i].status = "accepted"]
  <2>1. \A g \in Households, v \in Users :
          role'[g][v] = IF g = h /\ v = u THEN req[r].role ELSE role[g][v]
    BY <1>1, <1>3 DEF TypeOK
  <2>2. \A g \in Households :
          Members(g)' = IF g = h THEN Members(h) \cup {u} ELSE Members(g)
    BY <1>1, <2>1 DEF Members, Roles
  <2>3. MemberSets' = [MemberSets EXCEPT ![h] = Members(h) \cup {u}]
    BY <1>1, <2>2, MembersBecome
  <2>4. \A j \in Invitations :
          /\ invite'[j].house = invite[j].house
          /\ invite'[j].status = IF j = i THEN "accepted" ELSE invite[j].status
    BY <1>1, <1>3 DEF TypeOK, Invitation
  <2>5. Homes' = Homes
    BY <2>4, HomesKept
  <2>6. UsableLinks' = UsableLinks \ {i} /\ i \in UsableLinks
    BY <1>1, <1>3, <2>4 DEF UsableLinks, StillPending
  <2>7. /\ u \notin MemberSets[h] /\ Homes[i] = h
        /\ MemberSets[h] = Members(h)
    BY <1>1, <1>3 DEF MemberSets, Members, Homes
  <2>8. UNCHANGED state
    BY DEF WriteAccept
  <2>9. M!Admit(h, u, i)
    BY <1>3, <2>3, <2>5, <2>6, <2>7, <2>8 DEF M!Admit
  <2>10. QED
    BY <1>1, <2>9 DEF M!Next
<1>4. QED
  BY <1>2, <1>3 DEF WriteAccept

LEMMA InviteIssues ==
  ASSUME TypeOK, NEW r \in Requests, WriteInvite(r)
  PROVE  M!Next \/ UNCHANGED <<state, role, invite>>
<1> DEFINE h == req[r].house
<1>1. h \in Households /\ UNCHANGED <<state, role>>
  BY ReadType DEF WriteInvite
<1>2. CASE UNCHANGED invite
  BY <1>1, <1>2
<1>3. ASSUME NEW i \in Invitations, state[h] = "live",
             invite[i].status = "none",
             invite' = [invite EXCEPT ![i] =
               [status |-> "pending", house |-> h, by |-> req[r].user,
                email |-> req[r].target, role |-> req[r].role, resends |-> 0,
                recent |-> TRUE, expired |-> FALSE]]
      PROVE  M!Next
  <2>1. \A j \in Invitations :
          /\ invite'[j].house = IF j = i THEN h ELSE invite[j].house
          /\ invite'[j].status = IF j = i THEN "pending" ELSE invite[j].status
    BY <1>3 DEF TypeOK
  <2>2. invite[i].house = NULL
    BY <1>3 DEF TypeOK, Invitation, NoInvitation
  <2>3. Homes' = [Homes EXCEPT ![i] = h] /\ Homes[i] = NULL
    BY <1>3, <2>1, <2>2 DEF Homes
  <2>4. UsableLinks' = UsableLinks \cup {i} /\ i \notin UsableLinks
    BY <1>3, <2>1 DEF UsableLinks
  <2>5. MemberSets' = MemberSets
    BY <1>1, MembersKept
  <2>6. M!Issue(h, i)
    BY <1>1, <1>3, <2>3, <2>4, <2>5 DEF M!Issue
  <2>7. QED
    BY <1>1, <2>6 DEF M!Next
<1>4. QED
  BY <1>2, <1>3 DEF WriteInvite

LEMMA RevokeWithdraws ==
  ASSUME TypeOK, NEW r \in Requests, WriteRevoke(r)
  PROVE  M!Next
<1> DEFINE i == req[r].inv
<1>1. i \in Invitations /\ UNCHANGED <<state, role>>
  BY ReadType DEF WriteRevoke
<1>2. \A j \in Invitations :
        /\ invite'[j].house = invite[j].house
        /\ invite'[j].status = "pending"
             <=> j # i /\ invite[j].status = "pending"
  <2>1. CASE RowExists(i)
    <3>1. invite[i] \in Invitation /\ invite' = [invite EXCEPT ![i].status = "revoked"]
      BY <1>1, <2>1 DEF WriteRevoke, TypeOK
    <3>2. QED
      BY <1>1, <3>1 DEF TypeOK, Invitation
  <2>2. CASE ~RowExists(i)
    BY <2>2 DEF WriteRevoke, RowExists
  <2>3. QED
    BY <2>1, <2>2
<1>3. Homes' = Homes
  BY <1>2, HomesKept
<1>4. MemberSets' = MemberSets
  BY <1>1, MembersKept
<1>5. UsableLinks' = UsableLinks \ {i}
  BY <1>1, <1>2 DEF UsableLinks
<1>6. M!Withdraw(i)
  BY <1>1, <1>3, <1>4, <1>5 DEF M!Withdraw
<1>7. QED
  BY <1>1, <1>6 DEF M!Next

LEMMA ResendIssues ==
  ASSUME TypeOK, NoDanglingReference, NEW r \in Requests, WriteResend(r)
  PROVE  M!Next \/ UNCHANGED M!vars
<1> DEFINE i == req[r].inv
<1>1. i \in Invitations /\ invite[i] \in Invitation /\ UNCHANGED <<state, role>>
  BY ReadType DEF WriteResend, TypeOK
<1>2. MemberSets' = MemberSets
  BY <1>1, MembersKept
<1>3. CASE ~RowExists(i)
  BY <1>1, <1>2, <1>3 DEF WriteResend, M!vars, UsableLinks, Homes
<1>4. CASE RowExists(i)
  <2>1. invite' = [invite EXCEPT ![i] =
                     [@ EXCEPT !.status = "pending", !.expired = FALSE,
                               !.resends = invite[i].resends + 1]]
    BY <1>4 DEF WriteResend
  <2>2. \A j \in Invitations :
          /\ invite'[j].house = invite[j].house
          /\ invite'[j].status = IF j = i THEN "pending" ELSE invite[j].status
    BY <1>1, <2>1 DEF TypeOK, Invitation
  <2>3. Homes' = Homes
    BY <2>2, HomesKept
  <2>4. UsableLinks' = UsableLinks \cup {i}
    BY <1>1, <2>2 DEF UsableLinks
  <2>5. CASE i \in UsableLinks
    BY <1>1, <1>2, <2>3, <2>4, <2>5 DEF M!vars
  <2>6. CASE i \notin UsableLinks
    <3>1. PICK h \in Households : invite[i].house = h
      BY <1>1, <1>4 DEF RowExists, Invitation
    <3>2. state[h] = "live"
      BY <1>1, <1>4, <3>1 DEF RowExists, NoDanglingReference
    <3>3. Homes[i] = h /\ Homes = [Homes EXCEPT ![i] = h]
      BY <1>1, <3>1 DEF Homes
    <3>4. M!Issue(h, i)
      BY <1>1, <1>2, <2>3, <2>4, <2>6, <3>2, <3>3 DEF M!Issue
    <3>5. QED
      BY <1>1, <3>4 DEF M!Next
  <2>7. QED
    BY <2>5, <2>6
<1>5. QED
  BY <1>3, <1>4

LEMMA RemoveParts ==
  ASSUME TypeOK, NEW r \in Requests, Removal(r)
  PROVE  M!Next \/ UNCHANGED <<state, role, invite>>
<1> DEFINE h == req[r].house
           t == req[r].target
<1>1. h \in Households /\ t \in Users /\ UNCHANGED <<state, invite>>
  BY RemovalEffect
<1>2. CASE role' = role
  BY <1>1, <1>2
<1>3. CASE role' = [role EXCEPT ![h][t] = "none"]
  <2>1. \A g \in Households, v \in Users :
          role'[g][v] = IF g = h /\ v = t THEN "none" ELSE role[g][v]
    BY <1>1, <1>3 DEF TypeOK
  <2>2. \A g \in Households :
          Members(g)' = IF g = h THEN Members(h) \ {t} ELSE Members(g)
    BY <2>1 DEF Members
  <2>3. MemberSets' = [MemberSets EXCEPT ![h] = Members(h) \ {t}]
    BY <1>1, <2>2, MembersBecome
  <2>4. MemberSets[h] = Members(h)
    BY <1>1 DEF MemberSets
  <2>5. UNCHANGED <<UsableLinks, Homes>>
    BY <1>1 DEF UsableLinks, Homes
  <2>6. M!Part(h, t)
    BY <1>1, <2>3, <2>4, <2>5 DEF M!Part
  <2>7. QED
    BY <1>1, <2>6 DEF M!Next
<1>4. QED
  BY <1>2, <1>3, RemovalEffect

LEMMA SetRoleKeeps ==
  ASSUME TypeOK, NEW r \in Requests, WriteSetRole(r)
  PROVE  UNCHANGED M!vars
<1>1. /\ req[r].house \in Households /\ req[r].target \in Users
      /\ req[r].role \in Roles /\ UNCHANGED <<state, invite>>
  BY ReadType DEF WriteSetRole
<1>2. \A g \in Households, v \in Users :
        role'[g][v] = "none" <=> role[g][v] = "none"
  BY <1>1 DEF WriteSetRole, RowToUpdate, Roles, TypeOK
<1>3. MemberSets' = MemberSets
  BY <1>2, MembersKept
<1>4. QED
  BY <1>1, <1>3 DEF M!vars, UsableLinks, Homes

LEMMA DeleteDissolves ==
  ASSUME TypeOK, PendingInv, NEW r \in Requests, Deletion(r)
  PROVE  M!Next
<1> DEFINE h == req[r].house
<1>1. /\ h \in Households /\ Cascade(h)
      /\ state' = [state EXCEPT ![h] = "deleted"]
  BY DeletionEffect
<1>2. state[h] = "live"
  BY DEF Deletion, Resumes, PendingInv, Repairing
<1>3. \A g \in Households : Members(g)' = IF g = h THEN {} ELSE Members(g)
  BY <1>1 DEF Cascade, Members, TypeOK
<1>4. MemberSets' = [MemberSets EXCEPT ![h] = {}]
  BY <1>1, <1>3, MembersBecome
<1>5. \A j \in Invitations :
        /\ invite'[j].house = invite[j].house
        /\ invite'[j].status = IF invite[j].house = h THEN "deleted"
                               ELSE invite[j].status
  BY <1>1 DEF Cascade, TypeOK, Invitation
<1>6. Homes' = Homes
  BY <1>5, HomesKept
<1>7. UsableLinks' = {i \in UsableLinks : Homes[i] # h}
  BY <1>5 DEF UsableLinks, Homes
<1>8. M!Dissolve(h)
  BY <1>1, <1>2, <1>4, <1>6, <1>7 DEF M!Dissolve
<1>9. QED
  BY <1>1, <1>8 DEF M!Next

LEMMA MembershipStep ==
  ASSUME TypeOK, PendingInv, NoDanglingReference, AcceptsForItsHouse,
         [Next]_vars
  PROVE  M!Next \/ UNCHANGED M!vars
<1>1. CASE UNCHANGED <<state, role, invite>>
  BY <1>1 DEF M!vars, MemberSets, Members, UsableLinks, Homes
<1>2. ASSUME NEW i \in Invitations, Age(i) \/ Expire(i) PROVE UNCHANGED M!vars
  <2>1. /\ \A j \in Invitations : /\ invite'[j].house = invite[j].house
                                  /\ invite'[j].status = invite[j].status
        /\ UNCHANGED <<state, role>>
    BY <1>2, TimeKeeps
  <2>2. Homes' = Homes
    BY <2>1, HomesKept
  <2>3. UsableLinks' = UsableLinks
    BY <2>1 DEF UsableLinks
  <2>4. QED
    BY <2>1, <2>2, <2>3 DEF M!vars, MemberSets, Members
<1>3. ASSUME NEW r \in Requests, PointerStep(r)
      PROVE  UNCHANGED <<state, role, invite>>
  BY <1>3 DEF PointerStep, ClearStale, SetFallback, ClearListed, WriteSwitch
<1>4. ASSUME NEW r \in Requests, RowStep(r)
      PROVE  M!Next \/ UNCHANGED M!vars \/ UNCHANGED <<state, role, invite>>
  BY <1>4, CreateFounds, AcceptAdmits, InviteIssues, RevokeWithdraws,
     ResendIssues, RemoveParts, SetRoleKeeps, DeleteDissolves DEF RowStep
<1>5. QED
  BY <1>1, <1>2, <1>3, <1>4, Writers

\* Whatever requests overlap, memberships change as if every operation took
\* effect at one instant: each member but the founder has used up one usable
\* link of the household, and a deleted household stays empty and closed.
THEOREM MembershipImplemented == Spec => ImplementsMembership
<1>1. Init => M!Init
  BY DEF Init, M!Init, NoInvitation, MemberSets, Members, UsableLinks, Homes
<1>2. Init => AcceptsForItsHouse
  BY DEF Init, Idle, AcceptsForItsHouse
<1>3. TypeOK /\ AcceptsForItsHouse /\ [Next]_vars => AcceptsForItsHouse'
  BY AcceptsForItsHouseStep
<1>4. TypeOK /\ PendingInv /\ NoDanglingReference /\ AcceptsForItsHouse
      /\ [Next]_vars
        => [M!Next]_(M!vars)
  BY MembershipStep
<1>5. QED
  BY <1>1, <1>2, <1>3, <1>4, TypeCorrect, PendingCorrect,
     NoDanglingReferenceCorrect, PTL DEF Spec, ImplementsMembership, M!Spec
=============================================================================
