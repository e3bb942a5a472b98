----------------------------- MODULE Households -----------------------------
(***************************************************************************)
(* Households, their members, the invitations that add members, and every  *)
(* user's active household: app/routers/api_households.py over             *)
(* app/repos/sql/household.py, the membership resolution of app/deps.py    *)
(* and the household switch of app/routers/api_auth.py.                    *)
(*                                                                         *)
(* A request runs in one database session at READ COMMITTED.  The handlers *)
(* read first and write last, in a transaction that ends with its only     *)
(* commit, so a request is a chain of steps                                *)
(*      resolve membership  ->  read and check  ->  write and commit       *)
(* and other requests' commits may fall between any two of them.  A record *)
(* req[r] carries what request r has read: it is stale as soon as another  *)
(* request commits.  Writes that follow each other are a single action:    *)
(* the rows they change stay locked and invisible until the commit.  Only  *)
(* a removal and a deletion read again after their first write, to repair  *)
(* active households; what they have written by then is in req[r] too, and *)
(* whoever would write the same rows waits.  A refusal (any 4xx or 5xx)    *)
(* rolls the session back: the request just ends.                          *)
(*                                                                         *)
(* The order of household names, which rename_household can change at any  *)
(* time, is abstracted: "the first household by name" is some household.   *)
(***************************************************************************)
EXTENDS Naturals, FiniteSets

CONSTANTS
  Users,          \* rows of users
  Households,     \* ids a household row may get; one is never used twice
  Invitations,    \* ids an invitation row may get; one is never used twice
  Requests,       \* requests the server handles at the same time
  MemberLimit,    \* _MEMBER_LIMIT (10)
  InviteRate,     \* invitations of one admin per 24 hours (10)
  MaxResends,     \* bound of the model: resends of one invitation
  Operations,     \* the endpoints called in this instance; "time" if it passes
  NULL

AllOperations == {"create", "list", "switch", "accept", "invite", "revoke",
                  "resend", "remove", "set_role", "delete", "time"}

ASSUME HouseholdsAssumption ==
  /\ MemberLimit \in Nat \ {0}
  /\ InviteRate \in Nat \ {0}
  /\ MaxResends \in Nat
  /\ Operations \subseteq AllOperations
  /\ NULL \notin Users \cup Households \cup Invitations
  /\ IsFiniteSet(Users)
  /\ IsFiniteSet(Requests)

VARIABLES
  state,      \* households: "new" (no row yet), "live" or "deleted"
  role,       \* household_members: role[h][u], "none" without a row
  active,     \* users.active_household_id
  invite,     \* pending_invitations
  admitted,   \* history: memberships created through each invitation
  req         \* what every request has read, and the step it is at

vars == <<state, role, active, invite, admitted, req>>

Roles == {"admin", "member"}

Steps == {"idle", "clearing", "list_clearing", "falling_back", "authorized",
          "switching", "accepting", "inviting", "revoking", "resending",
          "removing", "setting_role", "deleting", "repairing"}

\* Steps taken on the strength of an admin membership read earlier.
AdminSteps == {"authorized", "inviting", "revoking", "resending",
               "removing", "setting_role", "deleting", "repairing"}

\* Updates of users: each row in the domain has its new active household.
Updates == UNION {[S -> Households \cup {NULL}] : S \in SUBSET Users}

NothingWritten == [u \in {} |-> NULL]

Added(w, u, h) == [v \in {u} \cup DOMAIN w |-> IF v = u THEN h ELSE w[v]]

Idle == [step |-> "idle", user |-> NULL, house |-> NULL, target |-> NULL,
         inv |-> NULL, role |-> "none", affected |-> {}, gone |-> "nothing",
         fallback |-> NULL, written |-> NothingWritten]

NoInvitation == [status |-> "none", house |-> NULL, by |-> NULL,
                 email |-> NULL, role |-> "none", resends |-> 0,
                 recent |-> FALSE, expired |-> FALSE]

Invitation ==
  {v \in [status : {"none", "pending", "accepted", "revoked", "deleted"},
          house : Households \cup {NULL}, by : Users \cup {NULL},
          email : Users \cup {NULL}, role : Roles \cup {"none"},
          resends : Nat, recent : BOOLEAN, expired : BOOLEAN] :
     IF v.status = "none" THEN v = NoInvitation
     ELSE v.house \in Households /\ v.role \in Roles}

\* A request knows its caller, and the steps that need a household, an
\* invitation, another user or a role have read one.  While it repairs,
\* gone is the row it has deleted, target the user whose fallback it has
\* selected, affected those to follow, and written the users rows it has
\* updated; none of it is committed.
Request ==
  {q \in [step : Steps, user : Users \cup {NULL},
          house : Households \cup {NULL}, target : Users \cup {NULL},
          inv : Invitations \cup {NULL}, role : Roles \cup {"none"},
          affected : SUBSET Users, gone : {"nothing", "member", "household"},
          fallback : Households \cup {NULL}, written : Updates] :
     /\ q.step # "idle" => q.user \in Users
     /\ q.step \notin {"idle", "clearing", "list_clearing"}
          => q.house \in Households
     /\ q.step \in {"accepting", "revoking", "resending"}
          => q.inv \in Invitations
     /\ q.step \in {"removing", "setting_role", "repairing"} => q.target \in Users
     /\ q.step \in {"accepting", "inviting", "setting_role"}
          => q.role \in Roles
     /\ q.step = "repairing" /\ q.gone # "household" => q.affected = {}
     /\ q.step # "repairing" => q.written = NothingWritten}

\* The type invariant.
TypeOK ==
  /\ state \in [Households -> {"new", "live", "deleted"}]
  /\ role \in [Households -> [Users -> Roles \cup {"none"}]]
  /\ active \in [Users -> Households \cup {NULL}]
  /\ invite \in [Invitations -> Invitation]
  /\ admitted \in [Invitations -> Nat]
  /\ req \in [Requests -> Request]

-----------------------------------------------------------------------------
(* Queries of HouseholdRepo.                                               *)

Members(h) == {u \in Users : role[h][u] # "none"}
Admins(h) == {u \in Users : role[h][u] = "admin"}
MembershipsOf(u) == {h \in Households : state[h] = "live" /\ role[h][u] # "none"}

\* The membership _resolve_membership_for_user accepts without repair.
ActiveIsValid(u) == active[u] \in MembershipsOf(u)

\* create_invitation's count of recent invitations by one admin.
RecentInvites(h, u) ==
  {i \in Invitations : /\ invite[i].house = h
                       /\ invite[i].by = u
                       /\ invite[i].recent
                       /\ invite[i].status \in {"pending", "accepted"}}

PendingFor(h, e) ==
  {i \in Invitations : /\ invite[i].house = h
                       /\ invite[i].email = e
                       /\ invite[i].status = "pending"
                       /\ ~invite[i].expired}

\* _raise_for_unavailable_invitation and _ensure_invitation_not_expired.  No
\* code writes the legacy status "declined", so it is left out.
Acceptable(i) == invite[i].status = "pending" /\ ~invite[i].expired

\* Request r stops here: its session closes and what it read is forgotten.
Finish(r) == req' = [req EXCEPT ![r] = Idle]

\* Request r goes to its next step with these fields of its record changed.
Goto(r, fields) == req' = [req EXCEPT ![r] = fields]

-----------------------------------------------------------------------------
(* Rows that another request has written and not committed: who would      *)
(* write them too, or refer to a household being deleted, waits.           *)

Repairing(s, gone) == req[s].step = "repairing" /\ req[s].gone = gone

HouseLocked(r, h) ==
  \E s \in Requests \ {r} : Repairing(s, "household") /\ req[s].house = h

MemberLocked(r, h, u) ==
  \/ HouseLocked(r, h)
  \/ \E s \in Requests \ {r} : /\ Repairing(s, "member")
                              /\ req[s].house = h /\ req[s].target = u

\* The users row of u: repaired, or cleared by the foreign key of a deletion.
UserLocked(r, u) ==
  \E s \in Requests \ {r} :
    /\ req[s].step = "repairing"
    /\ \/ u \in DOMAIN req[s].written
       \/ req[s].gone = "household" /\ active[u] = req[s].house

\* What the deletion of a household would touch: its row, its memberships,
\* the users rows it clears, and what a written users row refers to.
DeletionLocked(r, h) ==
  \E s \in Requests \ {r} :
    /\ req[s].step = "repairing"
    /\ \/ req[s].house = h /\ req[s].gone # "nothing"
       \/ \E u \in DOMAIN req[s].written : h \in {req[s].written[u], active[u]}

Init ==
  /\ state = [h \in Households |-> "new"]
  /\ role = [h \in Households |-> [u \in Users |-> "none"]]
  /\ active = [u \in Users |-> NULL]
  /\ invite = [i \in Invitations |-> NoInvitation]
  /\ admitted = [i \in Invitations |-> 0]
  /\ req = [r \in Requests |-> Idle]

-----------------------------------------------------------------------------
(* Resolving the caller's membership: deps._resolve_membership_for_user    *)
(* and require_admin.                                                      *)

\* The active household is valid and the caller administers it.  A plain
\* member is refused (403) and nothing changes, so that case is no step.
ResolveActive(r, u) ==
  /\ req[r].step = "idle"
  /\ ActiveIsValid(u)
  /\ role[active[u]][u] = "admin"
  /\ Goto(r, [Idle EXCEPT !.step = "authorized", !.user = u,
                          !.house = active[u]])
  /\ UNCHANGED <<state, role, active, invite, admitted>>

\* The active household is no longer accessible: it will be cleared.
ResolveStale(r, u) ==
  /\ req[r].step = "idle"
  /\ active[u] # NULL
  /\ ~ActiveIsValid(u)
  /\ Goto(r, [Idle EXCEPT !.step = "clearing", !.user = u])
  /\ UNCHANGED <<state, role, active, invite, admitted>>

\* The first membership by name, as read now, will become the active one.
FallBackTo(r, u, h) ==
  Goto(r, [Idle EXCEPT !.step = "falling_back", !.user = u, !.house = h,
                       !.role = role[h][u]])

ResolveUnset(r, u) ==
  /\ req[r].step = "idle"
  /\ active[u] = NULL
  /\ \E h \in MembershipsOf(u) : FallBackTo(r, u, h)
  /\ UNCHANGED <<state, role, active, invite, admitted>>

\* clear_active_household commits whatever the row now holds; then the
\* memberships are read.  Without any, the caller gets 403.
ClearStale(r) ==
  LET u == req[r].user
  IN  /\ req[r].step = "clearing"
      /\ ~UserLocked(r, u)
      /\ active' = [active EXCEPT ![u] = NULL]
      /\ \/ MembershipsOf(u) = {} /\ Finish(r)
         \/ \E h \in MembershipsOf(u) : FallBackTo(r, u, h)
      /\ UNCHANGED <<state, role, invite, admitted>>

\* users.active_household_id references households: the update of a user
\* fails when the household's row is gone, and the request ends with a 500.
SetActive(r, u, h) ==
  /\ ~UserLocked(r, u)
  /\ ~HouseLocked(r, h)
  /\ active' = IF state[h] = "live" THEN [active EXCEPT ![u] = h] ELSE active

\* set_active_household commits the fallback; an admin goes on with the role
\* read before the commit (the session does not expire objects on commit).
SetFallback(r) ==
  LET q == req[r]
  IN  /\ q.step = "falling_back"
      /\ SetActive(r, q.user, q.house)
      /\ IF state[q.house] = "live" /\ q.role = "admin"
         THEN Goto(r, [Idle EXCEPT !.step = "authorized", !.user = q.user,
                                   !.house = q.house])
         ELSE Finish(r)
      /\ UNCHANGED <<state, role, invite, admitted>>

\* An authorized request refused by a check (removing or demoting oneself is
\* always refused), or one that only reads.
Refuse(r) ==
  /\ req[r].step = "authorized"
  /\ Finish(r)
  /\ UNCHANGED <<state, role, active, invite, admitted>>

Resolve(r) ==
  \/ \E u \in Users : ResolveActive(r, u)
  \/ \E u \in Users : ResolveStale(r, u)
  \/ \E u \in Users : ResolveUnset(r, u)
  \/ ClearStale(r)
  \/ SetFallback(r)
  \/ Refuse(r)

-----------------------------------------------------------------------------
(* Endpoints any signed-in user may call.                                  *)

CreatorRoleFaulty == "member"

CreatorRole == "admin"

\* create_household: household and admin membership in one transaction,
\* committed together with the creator's active household.
CreateHousehold(r, u) ==
  /\ "create" \in Operations
  /\ req[r].step = "idle"
  /\ ~UserLocked(r, u)
  /\ \E h \in Households :
       /\ state[h] = "new"
       /\ state' = [state EXCEPT ![h] = "live"]
       /\ role' = [role EXCEPT ![h][u] = CreatorRole]
       /\ active' = [active EXCEPT ![u] = h]
  /\ UNCHANGED <<invite, admitted, req>>

\* list_my_households and get_me: an active household that is not among the
\* memberships is replaced by the first of them, or cleared.
ListHouseholds(r, u) ==
  /\ "list" \in Operations
  /\ req[r].step = "idle"
  /\ ~ActiveIsValid(u)
  /\ \/ \E h \in MembershipsOf(u) :
          Goto(r, [Idle EXCEPT !.step = "switching", !.user = u, !.house = h])
     \/ /\ MembershipsOf(u) = {}
        /\ active[u] # NULL
        /\ Goto(r, [Idle EXCEPT !.step = "list_clearing", !.user = u])
  /\ UNCHANGED <<state, role, active, invite, admitted>>

ClearListed(r) ==
  /\ req[r].step = "list_clearing"
  /\ ~UserLocked(r, req[r].user)
  /\ active' = [active EXCEPT ![req[r].user] = NULL]
  /\ Finish(r)
  /\ UNCHANGED <<state, role, invite, admitted>>

\* switch_household: the membership is checked, then the choice committed.
CheckSwitch(r, u, h) ==
  /\ "switch" \in Operations
  /\ req[r].step = "idle"
  /\ h \in MembershipsOf(u)
  /\ Goto(r, [Idle EXCEPT !.step = "switching", !.user = u, !.house = h])
  /\ UNCHANGED <<state, role, active, invite, admitted>>

WriteSwitch(r) ==
  /\ req[r].step = "switching"
  /\ SetActive(r, req[r].user, req[r].house)
  /\ Finish(r)
  /\ UNCHANGED <<state, role, invite, admitted>>

NoRoom(h) == Cardinality(Members(h)) >= MemberLimit

\* accept_invite's reads: a usable link, a live household, not a member yet
\* and room for one more.
CheckAccept(r, u, i) ==
  /\ "accept" \in Operations
  /\ req[r].step = "idle"
  /\ Acceptable(i)
  /\ state[invite[i].house] = "live"
  /\ role[invite[i].house][u] = "none"
  /\ ~NoRoom(invite[i].house)
  /\ Goto(r, [Idle EXCEPT !.step = "accepting", !.user = u, !.inv = i,
                          !.house = invite[i].house, !.role = invite[i].role])
  /\ UNCHANGED <<state, role, active, invite, admitted>>

\* The WHERE clause of accept_invitation's atomic update.  The row is found
\* by id: the link the request came with is not looked at again.
StillPendingFaulty(i) == invite[i].status # "none"

StillPending(i) == invite[i].status = "pending"

\* accept_invite's writes.  The insertion fails on the foreign key or on
\* uq_household_members_household_user, the update when the invitation was
\* taken meanwhile; each rolls everything back.
WriteAccept(r) ==
  LET q == req[r]
  IN  /\ q.step = "accepting"
      /\ ~MemberLocked(r, q.house, q.user)
      /\ ~UserLocked(r, q.user)
      /\ Finish(r)
      /\ UNCHANGED state
      /\ IF /\ state[q.house] = "live"
            /\ role[q.house][q.user] = "none"
            /\ StillPending(q.inv)
         THEN /\ role' = [role EXCEPT ![q.house][q.user] = q.role]
              /\ invite' = [invite EXCEPT ![q.inv].status = "accepted"]
              /\ active' = [active EXCEPT ![q.user] = q.house]
              /\ admitted' = [admitted EXCEPT ![q.inv] = @ + 1]
         ELSE UNCHANGED <<role, active, invite, admitted>>

UserRequest(r) ==
  \/ \E u \in Users : CreateHousehold(r, u)
  \/ \E u \in Users : ListHouseholds(r, u)
  \/ ClearListed(r)
  \/ \E u \in Users, h \in Households : CheckSwitch(r, u, h)
  \/ WriteSwitch(r)
  \/ \E u \in Users, i \in Invitations : CheckAccept(r, u, i)
  \/ WriteAccept(r)

-----------------------------------------------------------------------------
(* Endpoints for admins: each goes on from an authorized request.          *)

Authorized(r, op) == op \in Operations /\ req[r].step = "authorized"

\* create_invitation's checks: room, rate, no pending invitation to the same
\* address, no member with that address.  email = u stands for the address
\* of user u, NULL for a link-only invitation.
CheckInvite(r, e, newRole) ==
  LET q == req[r]
  IN  /\ Authorized(r, "invite")
      /\ ~NoRoom(q.house)
      /\ Cardinality(RecentInvites(q.house, q.user)) < InviteRate
      /\ e # NULL => PendingFor(q.house, e) = {} /\ role[q.house][e] = "none"
      /\ Goto(r, [q EXCEPT !.step = "inviting", !.target = e,
                           !.role = newRole])
      /\ UNCHANGED <<state, role, active, invite, admitted>>

\* The insertion fails on the foreign key once the household is gone.
WriteInvite(r) ==
  LET q == req[r]
  IN  /\ q.step = "inviting"
      /\ ~HouseLocked(r, q.house)
      /\ Finish(r)
      /\ \/ /\ state[q.house] = "live"
            /\ \E i \in Invitations :
                 /\ invite[i].status = "none"
                 /\ invite' = [invite EXCEPT ![i] =
                      [status |-> "pending", house |-> q.house,
                       by |-> q.user, email |-> q.target, role |-> q.role,
                       resends |-> 0, recent |-> TRUE, expired |-> FALSE]]
         \/ /\ \/ state[q.house] # "live"
               \/ \A i \in Invitations : invite[i].status # "none"
            /\ UNCHANGED invite
      /\ UNCHANGED <<state, role, active, admitted>>

\* The row as revoke_invitation and resend_invitation first read it: the
\* second read returns the session's copy, so one check decides.
HasInvitation(h, i) ==
  /\ invite[i].status \in {"pending", "revoked", "accepted"}
  /\ invite[i].house = h

NotAcceptedFaulty(i) == TRUE

NotAccepted(i) == invite[i].status # "accepted"

CheckRevoke(r, i) ==
  /\ Authorized(r, "revoke")
  /\ HasInvitation(req[r].house, i)
  /\ NotAccepted(i)
  /\ Goto(r, [req[r] EXCEPT !.step = "revoking", !.inv = i])
  /\ UNCHANGED <<state, role, active, invite, admitted>>

RowExists(i) == invite[i].status \in {"pending", "revoked", "accepted"}

\* revoke_invitation's update names the row by id, whatever its status now.
WriteRevoke(r) ==
  LET i == req[r].inv
  IN  /\ req[r].step = "revoking"
      /\ ~HouseLocked(r, req[r].house)
      /\ invite' = IF RowExists(i)
                   THEN [invite EXCEPT ![i].status = "revoked"]
                   ELSE invite
      /\ Finish(r)
      /\ UNCHANGED <<state, role, active, admitted>>

\* MaxResends bounds the rotations of one link, those under way included.
ResendsOf(i) ==
  invite[i].resends
    + Cardinality({r \in Requests : req[r].step = "resending" /\ req[r].inv = i})

CheckResend(r, i) ==
  /\ Authorized(r, "resend")
  /\ HasInvitation(req[r].house, i)
  /\ NotAccepted(i)
  /\ ResendsOf(i) < MaxResends
  /\ Goto(r, [req[r] EXCEPT !.step = "resending", !.inv = i])
  /\ UNCHANGED <<state, role, active, invite, admitted>>

\* resend_invitation: a new link, pending again for another 72 hours, by id
\* and whatever the status now.  invited_at keeps its first value.
WriteResend(r) ==
  LET i == req[r].inv
  IN  /\ req[r].step = "resending"
      /\ ~HouseLocked(r, req[r].house)
      /\ invite' = IF RowExists(i)
                   THEN [invite EXCEPT ![i] =
                           [@ EXCEPT !.status = "pending", !.expired = FALSE,
                                     !.resends = invite[i].resends + 1]]
                   ELSE invite
      /\ Finish(r)
      /\ UNCHANGED <<state, role, active, admitted>>

InvitationRequest(r) ==
  \/ \E e \in Users \cup {NULL}, newRole \in Roles : CheckInvite(r, e, newRole)
  \/ WriteInvite(r)
  \/ \E i \in Invitations : CheckRevoke(r, i)
  \/ WriteRevoke(r)
  \/ \E i \in Invitations : CheckResend(r, i)
  \/ WriteResend(r)

\* remove_member's checks.  A target that is no member passes: nothing is
\* deleted for it, but its active household is still repaired.
CheckRemove(r, t) ==
  LET q == req[r]
  IN  /\ Authorized(r, "remove")
      /\ t # q.user
      /\ role[q.house][t] = "admin" => Cardinality(Admins(q.house)) > 1
      /\ Goto(r, [q EXCEPT !.step = "removing", !.target = t,
                           !.role = role[q.house][t]])
      /\ UNCHANGED <<state, role, active, invite, admitted>>

FallbacksFaulty(u, q) ==
  IF MembershipsOf(u) = {} THEN {NULL} ELSE MembershipsOf(u)

\* The fallbacks repair_active_households_for_users may select for u: the
\* request no longer sees the memberships it has deleted itself.
Fallbacks(u, q) ==
  LET left == MembershipsOf(u) \ (IF q.gone = "nothing" THEN {} ELSE {q.house})
  IN  IF left = {} THEN {NULL} ELSE left

CascadeFaulty(h) ==
  /\ role' = [role EXCEPT ![h] = [u \in Users |-> "none"]]
  /\ invite' = invite

\* The foreign keys of household_members and pending_invitations cascade.
Cascade(h) ==
  /\ role' = [role EXCEPT ![h] = [u \in Users |-> "none"]]
  /\ invite' = [i \in Invitations |->
                  IF invite[i].house = h
                  THEN [invite[i] EXCEPT !.status = "deleted"]
                  ELSE invite[i]]

\* users.active_household_id as q leaves it: the repaired users have their
\* fallback, the foreign key clears the other users of a deleted household.
Repaired(q) ==
  [u \in Users |->
     IF u \in DOMAIN q.written THEN q.written[u]
     ELSE IF q.gone = "household" /\ active[u] = q.house THEN NULL
     ELSE active[u]]

\* The handler's only commit: all that q has written takes effect at once.
CommitRepair(r, q) ==
  /\ active' = Repaired(q)
  /\ \/ q.gone = "nothing" /\ UNCHANGED <<state, role, invite>>
     \/ /\ q.gone = "member"
        /\ role' = [role EXCEPT ![q.house][q.target] = "none"]
        /\ UNCHANGED <<state, invite>>
     \/ /\ q.gone = "household"
        /\ state' = [state EXCEPT ![q.house] = "deleted"]
        /\ Cascade(q.house)
  /\ Finish(r)
  /\ UNCHANGED admitted

Selecting(q, u, h) ==
  [q EXCEPT !.step = "repairing", !.role = "none", !.target = u,
            !.affected = @ \ {u}, !.fallback = h]

\* The loop goes on with the SELECT of the next user's fallback; after the
\* last user the handler commits.
Repair(r, q) ==
  \/ q.affected = {} /\ CommitRepair(r, q)
  \/ /\ \E u \in q.affected : \E h \in Fallbacks(u, q) :
          Goto(r, Selecting(q, u, h))
     /\ UNCHANGED <<state, role, active, invite, admitted>>

\* remove_member's DELETE, and the SELECT of the target's fallback.  A row
\* that somebody else has deleted meanwhile is not there to delete.
DeleteMember(r) ==
  LET q == req[r]
      deletes == q.role # "none" /\ role[q.house][q.target] # "none"
  IN  /\ q.step = "removing"
      /\ q.role # "none" => ~MemberLocked(r, q.house, q.target)
      /\ Repair(r, [q EXCEPT !.affected = {q.target},
                             !.gone = IF deletes THEN "member" ELSE "nothing"])

\* The UPDATE of the users row whose fallback was selected, with whatever the
\* memberships were then.  It fails on the foreign key when the fallback has
\* been deleted since, and the whole request is rolled back.
RepairUser(r) ==
  LET q == req[r]
  IN  /\ q.step = "repairing"
      /\ ~UserLocked(r, q.target)
      /\ ~HouseLocked(r, q.fallback)
      /\ IF q.fallback # NULL /\ state[q.fallback] # "live"
         THEN Finish(r) /\ UNCHANGED <<state, role, active, invite, admitted>>
         ELSE Repair(r, [q EXCEPT !.written = Added(@, q.target, q.fallback)])

\* The database aborts the victim of a deadlock, and the transaction of a
\* server or connection that is lost: nothing of it remains.
RollBack(r) ==
  /\ req[r].step = "repairing"
  /\ Finish(r)
  /\ UNCHANGED <<state, role, active, invite, admitted>>

\* update_member_role's checks: no self-demotion, an existing member, and
\* another admin left when one is demoted.
CheckSetRole(r, t, newRole) ==
  LET q == req[r]
  IN  /\ Authorized(r, "set_role")
      /\ t = q.user => newRole = "admin"
      /\ role[q.house][t] # "none"
      /\ role[q.house][t] = "admin" /\ newRole # "admin"
           => Cardinality(Admins(q.house)) > 1
      /\ Goto(r, [q EXCEPT !.step = "setting_role", !.target = t,
                           !.role = newRole])
      /\ UNCHANGED <<state, role, active, invite, admitted>>

RowToUpdateFaulty(h, t) == state[h] = "live"

\* The update matches the membership row if it is still there; otherwise the
\* read after it finds nothing and the request fails.
RowToUpdate(h, t) == role[h][t] # "none"

WriteSetRole(r) ==
  LET q == req[r]
  IN  /\ q.step = "setting_role"
      /\ ~MemberLocked(r, q.house, q.target)
      /\ role' = IF RowToUpdate(q.house, q.target)
                 THEN [role EXCEPT ![q.house][q.target] = q.role]
                 ELSE role
      /\ Finish(r)
      /\ UNCHANGED <<state, active, invite, admitted>>

AffectedFaulty(h) == {h}

\* The users hard_delete will repair: the members, read before the deletion.
Affected(h) == Members(h)

\* delete_household reads the household and, in hard_delete, its members.
CheckDelete(r) ==
  LET q == req[r]
  IN  /\ Authorized(r, "delete")
      /\ state[q.house] = "live"
      /\ Goto(r, [q EXCEPT !.step = "deleting",
                           !.affected = Affected(q.house)])
      /\ UNCHANGED <<state, role, active, invite, admitted>>

\* hard_delete's DELETE, and the SELECT of the first affected user's fallback
\* (or the commit, if there was no member).
DeleteHousehold(r) ==
  LET q == req[r]
  IN  /\ q.step = "deleting"
      /\ ~DeletionLocked(r, q.house)
      /\ IF state[q.house] = "live"
         THEN Repair(r, [q EXCEPT !.gone = "household"])
         ELSE Finish(r) /\ UNCHANGED <<state, role, active, invite, admitted>>

MemberRequest(r) ==
  \/ \E t \in Users : CheckRemove(r, t)
  \/ DeleteMember(r)
  \/ \E t \in Users, newRole \in Roles : CheckSetRole(r, t, newRole)
  \/ WriteSetRole(r)
  \/ CheckDelete(r)
  \/ DeleteHousehold(r)
  \/ RepairUser(r)
  \/ RollBack(r)

-----------------------------------------------------------------------------
(* Time: 24 hours after its creation an invitation no longer counts        *)
(* against the rate, and 72 hours after its link was issued it expires     *)
(* (nothing looks at the expiry of one that is not pending).               *)

Age(i) ==
  /\ "time" \in Operations
  /\ RowExists(i)
  /\ invite[i].recent
  /\ invite' = [invite EXCEPT ![i].recent = FALSE]
  /\ UNCHANGED <<state, role, active, admitted, req>>

Expire(i) ==
  /\ "time" \in Operations
  /\ invite[i].status = "pending"
  /\ ~invite[i].recent
  /\ ~invite[i].expired
  /\ invite' = [invite EXCEPT ![i].expired = TRUE]
  /\ UNCHANGED <<state, role, active, admitted, req>>

Next ==
  \/ \E r \in Requests : \/ Resolve(r)
                         \/ UserRequest(r)
                         \/ InvitationRequest(r)
                         \/ MemberRequest(r)
  \/ \E i \in Invitations : Age(i) \/ Expire(i)

Spec == Init /\ [][Next]_vars

-----------------------------------------------------------------------------
(* Properties that hold whatever the requests' interleaving.               *)

\* A link admits one membership each time it is issued, by create_invitation
\* or resend_invitation: what the status guard of accept_invitation's update
\* is for, however many accepts of one link race.
AdmissionsBounded == \A i \in Invitations : admitted[i] <= invite[i].resends + 1

\* The member limit is checked before the insertion and not under a lock, so
\* racing accepts overshoot it, by less than one member per request.
OvershootBounded ==
  \A h \in Households :
    Cardinality(Members(h)) < MemberLimit + Cardinality(Requests)

\* After hard_delete nothing refers to the household: no membership, no
\* usable invitation, no user's active household.
NoDanglingReference ==
  /\ \A h \in Households : state[h] # "live" => Members(h) = {}
  /\ \A i \in Invitations :
       invite[i].status \in {"pending", "accepted", "revoked"}
         => state[invite[i].house] = "live"
  /\ \A u \in Users : active[u] # NULL => state[active[u]] = "live"

\* A membership appears only with the household (its creator) or with one
\* admission through an invitation to that household: no write prepared
\* before a removal brings the removed member back.
JoinedByInvitation ==
  [][\A h \in Households, u \in Users :
       role[h][u] = "none" /\ role'[h][u] # "none"
         => \/ state[h] = "new" /\ state'[h] = "live"
            \/ \E i \in Invitations : /\ invite[i].house = h
                                      /\ admitted'[i] = admitted[i] + 1]_vars

MemberSets == [h \in Households |-> Members(h)]
UsableLinks == {i \in Invitations : invite[i].status = "pending"}
Homes == [i \in Invitations |-> invite[i].house]

M == INSTANCE Membership WITH member <- MemberSets, usable <- UsableLinks,
                              home <- Homes

\* Seen through who belongs to which household and which link is usable, the
\* overlapping requests act as if each took effect at one instant: every
\* member but the founder has joined by taking one usable link of that
\* household out of use, and what is deleted has ended for good.
ImplementsMembership == M!Spec

-----------------------------------------------------------------------------
(* Properties that some overlap of requests breaks: which one, see below.  *)

\* A live household has an admin: remove_member and update_member_role refuse
\* to take the last one away.
HasAdmin == \A h \in Households : state[h] = "live" => Admins(h) # {}

\* accept_invite keeps a household within _MEMBER_LIMIT.
WithinMemberLimit == \A h \in Households : Cardinality(Members(h)) <= MemberLimit

\* A user's active household is one the user is a member of: removal and
\* deletion repair the pointer that switching and accepting set.
ActiveIsMembership == \A u \in Users : active[u] # NULL => ActiveIsValid(u)

\* "Accepted invitations cannot be revoked", nor resent: an accepted
\* invitation stays accepted until its household goes.
AcceptedIsFinal ==
  [][\A i \in Invitations :
       invite[i].status = "accepted"
         => invite'[i].status \in {"accepted", "deleted"}]_vars

-----------------------------------------------------------------------------
(* The overlaps that break them.  Each property above survives every other *)
(* interleaving.                                                           *)

\* Request r is taking its target's membership away.
Removing(r) ==
  \/ req[r].step = "removing" /\ req[r].role # "none"
  \/ Repairing(r, "member")

\* Request r will take a membership or an admin role from its target.
Lowering(r) ==
  \/ Removing(r)
  \/ req[r].step = "setting_role" /\ req[r].role # "admin"

\* Of the removals and demotions in one household, one is under way at a time.
OneLowering ==
  \A r, s \in Requests :
    Lowering(r) /\ Lowering(s) /\ req[r].house = req[s].house => r = s

\* Request r is about to make h the active household of u.
PointsTo(r, u, h) ==
  \/ /\ req[r].step \in {"switching", "falling_back"}
     /\ req[r].user = u /\ req[r].house = h
  \/ /\ req[r].step = "repairing"
     /\ req[r].target = u /\ req[r].fallback = h

\* While a household is being made a user's active one (by the user's switch
\* or fallback, or by the repair of another removal or of a deletion), the
\* user is not being removed from it.
NoPointerWhileRemoved ==
  \A r, s \in Requests :
    Removing(s) => ~PointsTo(r, req[s].target, req[s].house)

\* No invitation is accepted while it is being revoked or resent.
NoAcceptWhileUpdated ==
  \A r, s \in Requests :
    req[r].step = "accepting" /\ req[s].step \in {"revoking", "resending"}
      => req[r].inv # req[s].inv

Accepting(h) == {r \in Requests : req[r].step = "accepting" /\ req[r].house = h}

AcceptsAtMost(k) == \A h \in Households : Cardinality(Accepting(h)) <= k

Serialized ==
  OneLowering /\ NoPointerWhileRemoved /\ NoAcceptWhileUpdated /\ AcceptsAtMost(1)

SerializedSpec == Init /\ [][Next /\ Serialized']_vars

-----------------------------------------------------------------------------
(* A property the documentation states and the code does not have.         *)

\* A user's active household changes by somebody else's request only if the
\* user can no longer reach it.
ActiveKeptWhileAccessible ==
  [][\A u \in Users :
       /\ ActiveIsValid(u)
       /\ active'[u] # active[u]
       /\ role'[active[u]][u] # "none"
       => \/ \E r \in Requests : req[r].user = u /\ req'[r] # req[r]
          \/ \E h \in Households : state[h] = "new" /\ state'[h] = "live"]_vars
=============================================================================
