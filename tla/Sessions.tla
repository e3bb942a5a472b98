------------------------------ MODULE Sessions ------------------------------
(***************************************************************************)
(* What refresh-token rotation promises, without tokens: a login opens a   *)
(* session of its user; a session stays live through any number of         *)
(* refreshes; once it is over it never comes back.  Logging out ends one   *)
(* session, a detected replay ends sessions of one user together.          *)
(***************************************************************************)
CONSTANTS Users, Logins, NULL

VARIABLES owner,    \* the user a login belongs to
          phase     \* "none", "live" or "over"

Init == /\ owner = [l \in Logins |-> NULL]
        /\ phase = [l \in Logins |-> "none"]

Open(l, u) ==
  /\ phase[l] = "none"
  /\ owner' = [owner EXCEPT ![l] = u]
  /\ phase' = [phase EXCEPT ![l] = "live"]

End(ended) ==
  /\ \A l \in ended : phase[l] = "live"
  /\ \A l, m \in ended : owner[l] = owner[m]
  /\ phase' = [l \in Logins |-> IF l \in ended THEN "over" ELSE phase[l]]
  /\ UNCHANGED owner

Next == \/ \E l \in Logins, u \in Users : Open(l, u)
        \/ \E ended \in SUBSET Logins : End(ended)

Spec == Init /\ [][Next]_<<owner, phase>>
=============================================================================
