------------------------------- MODULE Kitchen -------------------------------
(***************************************************************************)
(* The household data as a whole: brew log, equipment and guest links over *)
(* the same tables, requests and households, and the deletion of a         *)
(* household, which cascades to all of them.                               *)
(***************************************************************************)
EXTENDS BrewLog, Equipment, GuestLinks

vars == <<focus, live, row, req, link>>

\* hard_delete.  Requests about the household go on, and may even start their
\* last step after it; one whose lock the deletion meets ends before or after.
DeleteHousehold(h) ==
  /\ h \in live
  /\ live' = live \ {h}
  /\ row' = Cascade(h)
  /\ link' = [l \in Links |-> IF link[l] # NULL /\ link[l].home = h THEN Deleted ELSE link[l]]
  /\ UNCHANGED req

KitchenInit == Init /\ LinksInit

Next ==
  /\ \/ BrewLogNext /\ UNCHANGED link
     \/ EquipmentNext /\ UNCHANGED link
     \/ \E r \in Requests : Abort(r) /\ UNCHANGED link
     \/ LinksNext
     \/ \E h \in Households : DeleteHousehold(h)
  /\ UNCHANGED focus

Spec == KitchenInit /\ [][Next]_vars

-----------------------------------------------------------------------------
(* Properties.                                                             *)

\* The type invariant.
TypeOK ==
  /\ focus \in Focuses
  /\ live \subseteq Households
  /\ row \in [Tables -> [Ids -> Entry \cup {NULL}]]
  /\ req \in [Requests -> Request]
  /\ link \in [Links -> GuestToken \cup {NULL}]

\* Whatever a handler displays (lists, details, replays, guest views) is of the
\* household its caller was admitted to, also after a commit has taken the
\* household from its transaction.
ShowsOwnHousehold == \A r \in Requests : req[r].shown \subseteq {req[r].home}

\* A row is created, changed or removed only by a request of its household, or
\* with its household: rows never move between households, and a stale read or
\* an id another household uses never leads to a foreign row.
StaysInHousehold ==
  [][\A t \in Tables, i \in Ids : row[t][i] # row'[t][i] =>
       \A h \in Households :
         (\E e \in {row[t][i], row'[t][i]} : e # NULL /\ e.home = h) =>
            \/ h \in live \ live'
            \/ \E r \in Requests : req[r] # req'[r] /\ req'[r].home = h]_vars

\* A request that was under way while a household was deleted leaves no row and
\* no link of it behind.
NoOrphans ==
  /\ \A t \in Tables, i \in Ids : row[t][i] # NULL => row[t][i].home \in live
  /\ \A l \in Links : Active(l) => link[l].home \in live

\* Catalog_ID of a bag and Hardware_ID of an event name a row of the same
\* household, although they are plain texts, checked in an earlier statement.
ReferencesInHousehold ==
  \A i \in Ids :
    /\ LET e == row["inventory_bags"][i] IN
         e # NULL => e.ref \in VisibleTo(e.home, "catalog")
    /\ LET e == row["maintenance_log"][i] IN
         e # NULL => e.ref \in VisibleTo(e.home, "hardware")

\* What the request that writes a row determines of it.
Written(e) == <<e.home, e.body, e.ref>>

\* Request s has changed or deleted a row that was there, the one q is about.
Replaced(s, q) ==
  /\ s.wrote /\ s.home = q.home /\ s.table = q.table /\ s.id = q.id
  /\ s.seen # NULL \/ s.op = "edit"

Stands(q, e) ==
  row[q.table][q.id] # NULL /\ Written(row[q.table][q.id]) = Written(e)

\* An answer says what was committed.  Of a request that has created or changed
\* a row, the row is there as the request wrote it, until the household or
\* another of its requests deletes or replaces it: no creation is lost to one
\* that did not know of it.  Nothing was committed for a refusal, a replay or a
\* conflict, nor for an error, but for a maintenance event, whose creation is
\* reported as failed, and for feedback stored when the time was over.
AnswersMatchCommits ==
  \A r \in Requests : LET q == req[r] IN
    /\ q.answer = "created" => q.wrote \/ q.op = "link"
    /\ q.wrote /\ q.new # NULL /\ q.home \in live =>
         Stands(q, q.new) \/ \E s \in Requests \ {r} : Replaced(req[s], q)
    /\ q.answer \in {"refused", "replayed", "conflict"} => ~q.wrote
    /\ q.answer = "failed" /\ q.wrote => q.table = "maintenance_log"
    /\ q.answer = "timeout" /\ q.wrote => q.op = "feedback"

\* A household has one usable link at most, however many admins generate and
\* revoke at the same time, and the links a request found are closed when it
\* reports success.
LinksReplaced ==
  /\ \A h \in Households : \A k, l \in ActiveLinks(h) : k = l
  /\ \A r \in Requests : req[r].answer \in {"ok", "created"} =>
       \A l \in req[r].links : ~Active(l)

\* Shot_ID is unique within a household, and NN counts the household's shots: a
\* creation is turned down only for a shot of its own household.
NumberedWithinHousehold ==
  [][\A r \in Requests :
       /\ req[r].step = "inserting" /\ req'[r].answer = "failed" /\ req[r].home \in live
       => \E i \in VisibleTo(req[r].home, "brew_log") :
            i = req[r].id \/ (Shots[i].key # NULL /\ Shots[i].key = req[r].new.key)]_vars

-----------------------------------------------------------------------------
(* Idempotency keys, abstractly.                                           *)

\* The shots stored under key k of household h, as id and payload.
Stored(h, k) ==
  {<<i, Shots[i].body>> : i \in {j \in Ids : Shots[j] # NULL /\ Shots[j].home = h
                                                /\ Shots[j].key = k}}

Verdict(q) ==
  IF q.answer \in {"replayed", "conflict"}
  THEN [home |-> q.home, key |-> q.new.key, body |-> q.new.body,
        agrees |-> q.answer = "replayed"]
  ELSE NULL

Keyed == INSTANCE KeyedShots WITH
  stored <- [h \in Households |-> [k \in Keys |-> Stored(h, k)]],
  verdict <- [r \in Requests |-> Verdict(req[r])]

\* However first attempts, retries, deletions and failures overlap, a key of a
\* household names at most one shot, and a replay or a conflict is answered
\* from the shot stored under the key at that moment.
ImplementsKeyedShots == Keyed!Spec

-----------------------------------------------------------------------------
(* Separation of the households, abstractly.                               *)

\* The row with id i in table t, if it is of household h.
RowOf(h, t, i) == IF MayRead(row[t][i], h) THEN row[t][i] ELSE NULL

Separate == INSTANCE Shelves WITH
  open <- live,
  shelf <- [h \in Households |-> [t \in Tables |-> [i \in Ids |-> RowOf(h, t, i)]]]

\* Although the households share tables, ids, requests and instances, each has a
\* shelf of its own: a step of any handler puts, changes or discards one row of
\* one household, next to what the row refers to, and nothing comes back to a
\* household that has been deleted.
ImplementsShelves == Separate!Spec
=============================================================================
