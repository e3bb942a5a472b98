------------------------------- MODULE Tenancy -------------------------------
(***************************************************************************)
(* What all handlers of household data share: the five tenant tables under *)
(* row-level security, the household a transaction runs in, and the life   *)
(* of a request.  BrewLog, Equipment and GuestLinks add the operations,    *)
(* Kitchen composes them.                                                  *)
(*                                                                         *)
(* The policy of a tenant table compares household_id with a setting that  *)
(* is local to the transaction, so every commit and every rollback leaves  *)
(* the rest of the request without a household, until it is set again.     *)
(* An id (sheets_id) is unique over all households, whoever can see it.    *)
(*                                                                         *)
(* A request is a chain of steps, one for each statement whose result a    *)
(* later one depends on.  Nothing a handler does before its first read of  *)
(* a tenant table depends on one, so admission and first read are one      *)
(* step.  An insertion and its commit are one step too: until the commit   *)
(* nobody sees the row and a conflicting insertion waits.                  *)
(***************************************************************************)
EXTENDS Naturals, FiniteSets

\* Focuses and MaxActive are bounds of the model: the entity families a
\* behaviour is about (they share no row), and how many requests overlap.
CONSTANTS Households, Requests, Ids, Bodies, Keys, Links, NULL, Focuses, MaxActive

VARIABLES
  focus,   \* the family of entities this behaviour is about
  live,    \* households that have not been deleted
  row,     \* row[t][i]: the row of table t with sheets_id i, or NULL
  req      \* what every request has read and done, and the step it is at

Tables == {"brew_log", "catalog", "inventory_bags", "hardware", "maintenance_log"}

\* body: what the creator or editor typed.  key: Idempotency_Key.  edited: the
\* one column another endpoint changes (the correction of a shot, the image of
\* a bean or item, the status of a bag).  feedback: the AI feedback is there.
\* ref: Catalog_ID of a bag, Hardware_ID of an event.
Entry == [home : Households, body : Bodies, key : Keys \cup {NULL},
          edited : BOOLEAN, feedback : BOOLEAN, ref : Ids \cup {NULL}]

NewEntry(h, b, k, ref) == [home |-> h, body |-> b, key |-> k, edited |-> FALSE,
                           feedback |-> FALSE, ref |-> ref]

Steps == {"new", "numbering", "inserting", "retried", "feeding", "asking",
          "deleting", "uploading", "selecting", "writing", "picturing",
          "appending", "refreshing", "linking", "closing", "viewing", "answered"}

Answers == {"ok", "created", "replayed", "conflict", "refused", "timeout",
            "failed", "lost"}

ASSUME TenancyAssumption ==
  /\ Ids \subseteq Nat \ {0}
  /\ NULL \notin Households \cup Ids \cup Bodies \cup Keys \cup Entry \cup Answers

\* op: what tells two users of one step apart.  home: the household the request
\* was admitted to.  ctx: the household of its transaction.  new: the row it is
\* to write, seen: the row it has read.  wrote: it has committed a row.
\* shown: whose rows it has displayed.  links: guest links it has to revoke.
Request == [step : Steps, op : {"read", "create", "picture", "edit", "feedback", "link"},
            home : Households \cup {NULL}, ctx : Households \cup {NULL},
            table : Tables, id : Ids \cup {NULL}, new : Entry \cup {NULL},
            seen : Entry \cup {NULL}, answer : Answers \cup {NULL},
            wrote : BOOLEAN, shown : SUBSET Households, links : SUBSET Links]

Waiting == [step |-> "new", op |-> "read", home |-> NULL, ctx |-> NULL,
            table |-> "brew_log", id |-> NULL, new |-> NULL, seen |-> NULL,
            answer |-> NULL, wrote |-> FALSE, shown |-> {}, links |-> {}]

Running == {r \in Requests : req[r].step \notin {"new", "answered"}}

-----------------------------------------------------------------------------
(* Statements.                                                             *)

MayReadFaulty(e, ctx) == e # NULL /\ ctx # NULL

\* The policy household_isolation: fail closed when no household is set.
MayRead(e, ctx) == e # NULL /\ e.home = ctx

VisibleTo(ctx, t) == {i \in Ids : MayRead(row[t][i], ctx)}

Visible(r, t) == VisibleTo(req[r].ctx, t)

KeyTakenFaulty(e) == FALSE

\* uq_brew_log_household_idempotency_key.
KeyTaken(e) ==
  e.key # NULL /\ \E i \in Ids : LET s == row["brew_log"][i]
                                 IN  s # NULL /\ s.home = e.home /\ s.key = e.key

AllowedFaulty(r, t, i, e) ==
  req[r].ctx = e.home /\ row[t][i] = NULL /\ ~KeyTaken(e)

\* INSERT of e as row i of t: the policy's check, the foreign key to
\* households, and the unique constraints.
Allowed(r, t, i, e) ==
  req[r].ctx = e.home /\ e.home \in live /\ row[t][i] = NULL /\ ~KeyTaken(e)

Put(t, i, e) == row' = [row EXCEPT ![t][i] = e]

CascadeFaulty(h) ==
  [t \in Tables |-> [i \in Ids |->
     IF MayRead(row[t][i], h) /\ t # "maintenance_log" THEN NULL ELSE row[t][i]]]

\* ON DELETE CASCADE of the tenant tables.
Cascade(h) ==
  [t \in Tables |-> [i \in Ids |-> IF MayRead(row[t][i], h) THEN NULL ELSE row[t][i]]]

-----------------------------------------------------------------------------
(* Requests.                                                               *)

\* A behaviour about bags begins with a full catalog: a few requests then reach
\* bags of different beans.
Beans == {NewEntry(h, b, NULL, NULL) : h \in Households, b \in Bodies}

Init ==
  /\ focus \in Focuses
  /\ live = Households
  /\ \E bean \in IF focus = "bags" THEN Beans ELSE {NULL} :
       row = [t \in Tables |-> [i \in Ids |-> IF t = "catalog" THEN bean ELSE NULL]]
  /\ req = [r \in Requests |-> Waiting]

MayBegin(r, h) ==
  req[r].step = "new" /\ h \in live /\ Cardinality(Running) < MaxActive

\* current_household_membership admits a member of h and sets the household.
Admitted(op, s, h, t, i, e) ==
  [Waiting EXCEPT !.step = s, !.op = op, !.home = h, !.ctx = h, !.table = t,
                  !.id = i, !.new = e]

Become(r, q) == req' = [req EXCEPT ![r] = q]

Goto(r, s) == req' = [req EXCEPT ![r].step = s]

\* The request is answered; get_db closes its session.
Answered(q, a) == [q EXCEPT !.step = "answered", !.answer = a, !.ctx = NULL]

Answer(r, a) == Become(r, Answered(req[r], a))

Refuse(r, h) == Become(r, Answered([Waiting EXCEPT !.home = h], "refused"))

\* The wrappers roll back, log and raise again: the answer is 500.
WriteError(r) == "failed"

\* Whose rows of the tables ts a transaction of household ctx displays.
Displayed(ctx, ts) == UNION {{row[t][i].home : i \in VisibleTo(ctx, t)} : t \in ts}

Read(r, h, ts) ==
  /\ MayBegin(r, h)
  /\ Become(r, [Answered(Waiting, "ok") EXCEPT !.home = h, !.shown = Displayed(h, ts)])
  /\ UNCHANGED <<live, row>>

\* A detail: of one row that has to be there, and what belongs to it.
ReadOne(r, h, t, i, ts) ==
  IF i \in VisibleTo(h, t) THEN Read(r, h, ts)
  ELSE MayBegin(r, h) /\ Refuse(r, h) /\ UNCHANGED <<live, row>>

\* The client goes away, the connection or the instance is lost.
Abort(r) ==
  /\ r \in Running
  /\ Answer(r, "lost")
  /\ UNCHANGED <<live, row>>
=============================================================================
