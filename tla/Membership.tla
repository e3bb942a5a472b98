----------------------------- MODULE Membership -----------------------------
(***************************************************************************)
(* What households promise about who belongs to them, without requests:    *)
(* every operation takes effect at one instant.  A household is founded by *)
(* its first member.  Anybody else joins through a usable link, and using  *)
(* it takes it out of use; only its own household puts it into use again.  *)
(* A dissolved household has no members and no usable link, for good.      *)
(***************************************************************************)
CONSTANTS Users, Households, Invitations, NULL

VARIABLES state,    \* of a household: "new", "live" or "deleted"
          member,   \* the members of a household
          usable,   \* the invitations whose link lets somebody in
          home      \* the household an invitation was issued for

vars == <<state, member, usable, home>>

Init ==
  /\ state = [h \in Households |-> "new"]
  /\ member = [h \in Households |-> {}]
  /\ usable = {}
  /\ home = [i \in Invitations |-> NULL]

Found(h, u) ==
  /\ state[h] = "new"
  /\ state' = [state EXCEPT ![h] = "live"]
  /\ member' = [member EXCEPT ![h] = {u}]
  /\ UNCHANGED <<usable, home>>

Issue(h, i) ==
  /\ state[h] = "live"
  /\ i \notin usable
  /\ home[i] \in {NULL, h}
  /\ usable' = usable \cup {i}
  /\ home' = [home EXCEPT ![i] = h]
  /\ UNCHANGED <<state, member>>

Admit(h, u, i) ==
  /\ state[h] = "live"
  /\ i \in usable
  /\ home[i] = h
  /\ u \notin member[h]
  /\ member' = [member EXCEPT ![h] = @ \cup {u}]
  /\ usable' = usable \ {i}
  /\ UNCHANGED <<state, home>>

Withdraw(i) ==
  /\ usable' = usable \ {i}
  /\ UNCHANGED <<state, member, home>>

Part(h, u) ==
  /\ member' = [member EXCEPT ![h] = @ \ {u}]
  /\ UNCHANGED <<state, usable, home>>

Dissolve(h) ==
  /\ state[h] = "live"
  /\ state' = [state EXCEPT ![h] = "deleted"]
  /\ member' = [member EXCEPT ![h] = {}]
  /\ usable' = {i \in usable : home[i] # h}
  /\ UNCHANGED home

Next ==
  \/ \E h \in Households, u \in Users : Found(h, u) \/ Part(h, u)
  \/ \E h \in Households, i \in Invitations : Issue(h, i)
  \/ \E h \in Households, u \in Users, i \in Invitations : Admit(h, u, i)
  \/ \E i \in Invitations : Withdraw(i)
  \/ \E h \in Households : Dissolve(h)

Spec == Init /\ [][Next]_vars
=============================================================================
