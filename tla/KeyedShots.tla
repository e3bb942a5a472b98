----------------------------- MODULE KeyedShots -----------------------------
(***************************************************************************)
(* What idempotency keys of shots promise: a household stores at most one  *)
(* shot under a key, until the shot is deleted, and another creation with  *)
(* the key is told whether its payload is the stored one.                  *)
(***************************************************************************)
CONSTANTS Households, Requests, Ids, Bodies, Keys, NULL

VARIABLES
  stored,   \* stored[h][k]: pairs of id and payload
  verdict   \* verdict[r]: what a creation that was not the first was told

vars == <<stored, verdict>>

Init ==
  /\ stored = [h \in Households |-> [k \in Keys |-> {}]]
  /\ verdict = [r \in Requests |-> NULL]

Store(h, k, i, b) ==
  /\ stored[h][k] = {}
  /\ stored' = [stored EXCEPT ![h][k] = {<<i, b>>}]
  /\ UNCHANGED verdict

\* A shot, or all of a household.
Delete(h, ks) ==
  /\ stored' = [stored EXCEPT ![h] = [k \in Keys |-> IF k \in ks THEN {} ELSE @[k]]]
  /\ UNCHANGED verdict

Tell(r, h, k, b) ==
  /\ verdict[r] = NULL
  /\ \E s \in stored[h][k] :
       verdict' = [verdict EXCEPT ![r] = [home |-> h, key |-> k, body |-> b,
                                          agrees |-> s[2] = b]]
  /\ UNCHANGED stored

Next ==
  \E h \in Households :
    \/ \E ks \in SUBSET Keys : Delete(h, ks)
    \/ \E k \in Keys, b \in Bodies : \/ \E i \in Ids : Store(h, k, i, b)
                                     \/ \E r \in Requests : Tell(r, h, k, b)

Spec == Init /\ [][Next]_vars
=============================================================================
