------------------------------- MODULE Shelves -------------------------------
(***************************************************************************)
(* What the tenant tables promise, one household at a time: each has a     *)
(* shelf of its own, which nothing done for another household reaches.     *)
(* Rows are put on it one by one, next to what they refer to; of a shot    *)
(* the correction and the feedback change and nothing else; shots alone are*)
(* thrown away; and a household that is dissolved loses its shelf for good.*)
(***************************************************************************)
CONSTANTS Households, Ids, Tables, Entry, NULL

VARIABLES
  open,    \* households that have a shelf
  shelf    \* shelf[h][t][i]: the row with id i in table t of household h, or NULL

vars == <<open, shelf>>

Bare == [t \in Tables |-> [i \in Ids |-> NULL]]

\* Beans at most are there at the beginning.
Init ==
  /\ open = Households
  /\ shelf \in [Households -> [Tables -> [Ids -> Entry \cup {NULL}]]]
  /\ \A h \in Households, t \in Tables \ {"catalog"} : shelf[h][t] = Bare[t]

Has(h, t, i) == i \in Ids /\ shelf[h][t][i] # NULL

Set(h, t, i, e) ==
  /\ shelf' = [shelf EXCEPT ![h][t][i] = e]
  /\ UNCHANGED open

\* A row is created or changed.
Keep(h, t, i, e) ==
  /\ h \in open
  /\ e \in Entry
  /\ t = "inventory_bags" => Has(h, "catalog", e.ref)
  /\ t = "maintenance_log" => Has(h, "hardware", e.ref)
  /\ t = "brew_log" /\ Has(h, t, i) =>
       e.key = shelf[h][t][i].key /\ e.body = shelf[h][t][i].body
  /\ Set(h, t, i, e)

Discard(h, i) ==
  /\ h \in open /\ Has(h, "brew_log", i)
  /\ Set(h, "brew_log", i, NULL)

Dissolve(h) ==
  /\ h \in open
  /\ open' = open \ {h}
  /\ shelf' = [shelf EXCEPT ![h] = Bare]

Next ==
  \E h \in Households :
    \/ \E t \in Tables, i \in Ids : Keep(h, t, i, shelf'[h][t][i])
    \/ \E i \in Ids : Discard(h, i)
    \/ Dissolve(h)

Spec == Init /\ [][Next]_vars
=============================================================================
