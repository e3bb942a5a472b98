---------------------------- MODULE KitchenSafety ----------------------------
(***************************************************************************)
(* The safety properties of Kitchen, for every value of its constants.     *)
(*                                                                         *)
(* Every step of a request is Ordinary or a step of LinksNext.  Ordinary   *)
(* says all that the invariants need of such a step, so they are shown     *)
(* about Ordinary and the deletion of a household, not action by action.   *)
(***************************************************************************)
EXTENDS KitchenProofs

USE TenancyAssumption, LinksAssumption

-----------------------------------------------------------------------------
(* The inductive invariant.                                                *)

\* What a row e of table t and household h refers to.
Refs(t, h, e) ==
  /\ t = "inventory_bags" => e.ref \in VisibleTo(h, "catalog")
  /\ t = "maintenance_log" => e.ref \in VisibleTo(h, "hardware")

\* A row that is to be written refers to rows that are still there: no request
\* removes a bean or an item.
PendingReferences ==
  \A r \in Requests : req[r].new # NULL /\ req[r].home \in live =>
                        Refs(req[r].table, req[r].home, req[r].new)

\* The index on idempotency keys.
OneShotPerKey ==
  \A i, j \in Ids : /\ Shots[i] # NULL /\ Shots[j] # NULL /\ Shots[i].key # NULL
                    /\ Shots[i].home = Shots[j].home /\ Shots[i].key = Shots[j].key
                    => i = j

\* The links of a snapshot have been generated: none of them is drawn again.
LinksKnown == \A r \in Requests : \A l \in req[r].links : link[l] # NULL

IInv ==
  /\ TypeOK /\ AllLocal /\ NoOrphans /\ ReferencesInHousehold /\ PendingReferences
  /\ OneShotPerKey /\ LinksReplaced /\ LinksKnown

-----------------------------------------------------------------------------
(* What a request may do to the rows.                                      *)

Writes(r, t, i, e) ==
  /\ t \in Tables /\ i \in Ids /\ e \in Entry
  /\ Put(t, i, e)
  /\ e.home \in live /\ Refs(t, e.home, e)
  /\ req'[r].home = e.home /\ req'[r] # req[r]
  /\ \/ row[t][i] = NULL /\ (t = "brew_log" => ~KeyTaken(e))
     \/ /\ row[t][i] # NULL /\ row[t][i].home = e.home
        /\ t = "brew_log" => row[t][i].key = e.key /\ row[t][i].body = e.body

Removes(r, i) ==
  /\ i \in Ids /\ Shots[i] # NULL
  /\ Put("brew_log", i, NULL)
  /\ req'[r].home = Shots[i].home /\ req'[r] # req[r]

\* A replay or a conflict is about a shot that is stored.
Told(q) ==
  q.answer \in {"replayed", "conflict"} =>
    /\ UNCHANGED row
    /\ q.home \in Households /\ q.new \in Entry /\ q.new.key \in Keys
    /\ \E i \in WithKey(q.home, q.new.key) :
         (q.answer = "replayed") <=> SamePayload(i, q.new.body)

\* How the request itself goes on.
Proceeds(r, q) ==
  /\ req' = [req EXCEPT ![r] = q]
  /\ req[r].step # "answered"
  /\ q.new # NULL /\ q.home \in live => Refs(q.table, q.home, q.new)
  /\ Told(q)

GoesOn(r, q) == Proceeds(r, q) /\ q.links = {}

\* What the tables need to know of a step.
RowStep(r) ==
  /\ \E q : Proceeds(r, q)
  /\ \/ UNCHANGED row
     \/ \E t \in Tables, i \in Ids, e \in Entry : Writes(r, t, i, e)
     \/ \E i \in Ids : Removes(r, i)
  /\ UNCHANGED live

Ordinary(r) == RowStep(r) /\ \E q : GoesOn(r, q)

-----------------------------------------------------------------------------
(* Steps that write nothing.                                               *)

\* An answer that is not about a stored shot.
LEMMA AnswerGoesOn ==
  ASSUME IInv, NEW r \in Requests, NEW a \in Answers, a \notin {"replayed", "conflict"},
         Answer(r, a), req[r].step \notin {"answered", "linking", "closing"}
  PROVE  GoesOn(r, Answered(req[r], a))
<1> DEFINE q == Answered(req[r], a)
<1>1. req[r] \in Request /\ req[r].links = {}
  BY DEF IInv, AllLocal, Local, Committing
<1>2. /\ q.links = {} /\ q.new = req[r].new /\ q.home = req[r].home /\ q.table = req[r].table
      /\ q.answer = a
  BY <1>1 DEF Answered, Request
<1>3. q.new # NULL /\ q.home \in live => Refs(q.table, q.home, q.new)
  BY <1>2 DEF IInv, PendingReferences
<1>4. req' = [req EXCEPT ![r] = q]
  BY DEF Answer, Become
<1> HIDE DEF q
<1> QED
  BY <1>2, <1>3, <1>4 DEF GoesOn, Proceeds, Told, q

LEMMA AnswerOrdinary ==
  ASSUME IInv, NEW r \in Requests, NEW a \in Answers, a \notin {"replayed", "conflict"},
         Answer(r, a), req[r].step \notin {"answered", "linking", "closing"},
         UNCHANGED <<live, row>>
  PROVE  Ordinary(r)
  BY AnswerGoesOn DEF Ordinary, RowStep, GoesOn

\* Refusals.
LEMMA RefuseOrdinary ==
  ASSUME NEW r \in Requests, NEW h, MayBegin(r, h), Refuse(r, h), UNCHANGED <<live, row>>
  PROVE  Ordinary(r)
<1> DEFINE q == Answered([Waiting EXCEPT !.home = h], "refused")
<1>1. q.links = {} /\ q.new = NULL /\ q.answer = "refused"
  BY DEF Answered, Waiting
<1>2. req' = [req EXCEPT ![r] = q] /\ req[r].step # "answered"
  BY DEF Refuse, Become, MayBegin
<1> HIDE DEF q
<1> QED
  BY <1>1, <1>2 DEF Ordinary, RowStep, GoesOn, Proceeds, Told

\* Readings.
LEMMA ReadOrdinary ==
  ASSUME NEW r \in Requests, NEW h, NEW ts, Read(r, h, ts)
  PROVE  Ordinary(r)
<1> DEFINE s == Displayed(h, ts)
           q == [Answered(Waiting, "ok") EXCEPT !.home = h, !.shown = s]
<1> HIDE DEF s
<1>1. q.links = {} /\ q.new = NULL /\ q.answer = "ok"
  BY DEF Answered, Waiting
<1>2. req' = [req EXCEPT ![r] = q] /\ req[r].step # "answered" /\ UNCHANGED <<live, row>>
  BY DEF Read, Become, MayBegin, s
<1> HIDE DEF q
<1> QED
  BY <1>1, <1>2 DEF Ordinary, RowStep, GoesOn, Proceeds, Told

LEMMA ReadOneOrdinary ==
  ASSUME NEW r \in Requests, NEW h, NEW t, NEW i, NEW ts, ReadOne(r, h, t, i, ts)
  PROVE  Ordinary(r)
  BY ReadOrdinary, RefuseOrdinary DEF ReadOne

\* The first step of a request with further ones.
LEMMA AdmittedOrdinary ==
  ASSUME NEW r \in Requests, NEW h, NEW op, NEW s, NEW t, NEW i, NEW e,
         e # NULL => Refs(t, h, e), MayBegin(r, h),
         Become(r, Admitted(op, s, h, t, i, e)), UNCHANGED <<live, row>>
  PROVE  Ordinary(r)
<1> DEFINE q == Admitted(op, s, h, t, i, e)
<1>1. q.links = {} /\ q.new = e /\ q.home = h /\ q.table = t /\ q.answer = NULL
  BY DEF Admitted, Waiting
<1>2. req' = [req EXCEPT ![r] = q] /\ req[r].step # "answered"
  BY DEF Become, MayBegin
<1>3. NULL \notin {"replayed", "conflict"}
  BY DEF Answers
<1> HIDE DEF q
<1> QED
  BY <1>1, <1>2, <1>3 DEF Ordinary, RowStep, GoesOn, Proceeds, Told
-----------------------------------------------------------------------------
(* The brew log.                                                           *)

\* What a replay is answered from.
LEMMA ReplayGoesOn ==
  ASSUME NEW r \in Requests, NEW q \in Request, q.links = {}, q.new \in Entry,
         q.new.key \in Keys, q.home \in Households, q.table = "brew_log",
         NEW i \in WithKey(q.home, q.new.key), req[r].step # "answered",
         Become(r, Replay(q, i)), UNCHANGED row
  PROVE  GoesOn(r, Replay(q, i))
<1> DEFINE a == IF SamePayload(i, q.new.body) THEN "replayed" ELSE "conflict"
           s == IF SamePayload(i, q.new.body) THEN {Shots[i].home} ELSE {}
           n == [Answered(q, a) EXCEPT !.shown = s]
<1>1. (a = "replayed") <=> SamePayload(i, q.new.body)
  OBVIOUS
<1>2. Replay(q, i) = n
  BY DEF Replay
<1> HIDE DEF a, s
<1>3. n.links = {} /\ n.new = q.new /\ n.home = q.home /\ n.table = q.table /\ n.answer = a
  BY DEF Answered, Request
<1>4. req' = [req EXCEPT ![r] = n]
  BY <1>2 DEF Become
<1> HIDE DEF n
<1>5. Told(n) /\ Refs(n.table, n.home, n.new)
  BY <1>1, <1>3 DEF Told, Refs
<1> QED
  BY <1>2, <1>3, <1>4, <1>5 DEF GoesOn, Proceeds

LEMMA CreateShotOrdinary ==
  ASSUME IInv, NEW r \in Requests, NEW h \in Households, NEW k \in Keys \cup {NULL},
         NEW b \in Bodies, CreateShot(r, h, k, b)
  PROVE  Ordinary(r)
<1> DEFINE e == NewEntry(h, b, k, NULL)
           q == Admitted("create", "numbering", h, "brew_log", NULL, e)
<1>1. e \in Entry /\ e.key = k
  BY DEF NewEntry, Entry
<1>2. q \in Request /\ q.links = {} /\ q.new = e /\ q.home = h /\ q.table = "brew_log"
  BY <1>1 DEF Admitted, Waiting, Request, Steps, Tables
<1>3. MayBegin(r, h) /\ UNCHANGED <<live, row>> /\ req[r].step # "answered"
  BY DEF CreateShot, MayBegin
<1>4. CASE k # NULL /\ WithKey(h, k) # {}
  <2>1. PICK i \in WithKey(h, k) : Become(r, Replay(q, i))
    BY <1>4 DEF CreateShot
  <2> HIDE DEF e, q
  <2>2. GoesOn(r, Replay(q, i))
    BY <1>1, <1>2, <1>3, <1>4, <2>1, ReplayGoesOn
  <2> QED
    BY <1>3, <2>2 DEF Ordinary, RowStep, GoesOn
<1>5. CASE ~(k # NULL /\ WithKey(h, k) # {})
  <2>1. Become(r, q) /\ Refs("brew_log", h, e)
    BY <1>5 DEF CreateShot, Refs
  <2> QED
    BY <1>3, <2>1, AdmittedOrdinary
<1> QED
  BY <1>4, <1>5

\* A request that keeps its row and its links.
LEMMA KeptGoesOn ==
  ASSUME IInv, NEW r \in Requests, NEW q, req[r].step \notin {"answered", "linking", "closing"},
         req' = [req EXCEPT ![r] = q], q.links = req[r].links, q.new = req[r].new,
         q.home = req[r].home, q.table = req[r].table, q.answer \notin {"replayed", "conflict"}
  PROVE  GoesOn(r, q)
<1>1. req[r].links = {}
  BY DEF IInv, AllLocal, Local, Committing
<1>2. q.new # NULL /\ q.home \in live => Refs(q.table, q.home, q.new)
  BY DEF IInv, PendingReferences
<1> QED
  BY <1>1, <1>2 DEF GoesOn, Proceeds, Told

LEMMA NumberShotOrdinary ==
  ASSUME IInv, NEW r \in Requests, NumberShot(r)
  PROVE  Ordinary(r)
<1>1. PICK i \in Ids : req' = [req EXCEPT ![r].step = "inserting", ![r].id = i]
  BY DEF NumberShot
<1> DEFINE q == [req[r] EXCEPT !.step = "inserting", !.id = i]
<1>2. req[r] \in Request /\ req[r].step = "numbering" /\ req[r].answer = NULL
  BY DEF NumberShot, IInv, AllLocal, Local, Committing
<1>3. /\ q.links = req[r].links /\ q.new = req[r].new /\ q.home = req[r].home
      /\ q.table = req[r].table /\ q.answer = NULL
  BY <1>2 DEF Request
<1>5. req' = [req EXCEPT ![r] = q]
  BY <1>1
<1> HIDE DEF q
<1>4. GoesOn(r, q)
  BY <1>2, <1>3, <1>5, KeptGoesOn DEF Answers
<1> QED
  BY <1>4 DEF Ordinary, RowStep, GoesOn, NumberShot

\* Goto, outside of guest links.
LEMMA GotoOrdinary ==
  ASSUME IInv, NEW r \in Requests, NEW s, req[r].step \notin {"answered", "linking", "closing"},
         Goto(r, s), UNCHANGED <<live, row>>
  PROVE  Ordinary(r)
<1> DEFINE q == [req[r] EXCEPT !.step = s]
<1>1. req[r] \in Request /\ req[r].answer = NULL
  BY DEF IInv, AllLocal, Local, Committing
<1>2. /\ q.links = req[r].links /\ q.new = req[r].new /\ q.home = req[r].home
      /\ q.table = req[r].table /\ q.answer = NULL /\ req' = [req EXCEPT ![r] = q]
  BY <1>1 DEF Request, Goto
<1> HIDE DEF q
<1>3. GoesOn(r, q)
  BY <1>2, KeptGoesOn DEF Answers
<1> QED
  BY <1>3 DEF Ordinary, RowStep, GoesOn

\* A change of the own row: what every writer needs.
LEMMA OwnRow ==
  ASSUME IInv, NEW r \in Requests, NEW t \in Tables, NEW i \in Ids, i \in Visible(r, t)
  PROVE  /\ row[t][i] \in Entry /\ row[t][i] # NULL /\ row[t][i].home = req[r].home
         /\ req[r].home \in live /\ Refs(t, req[r].home, row[t][i])
<1>1. req[r].ctx \in Households \cup {NULL} /\ req[r].ctx \in {req[r].home, NULL}
  BY DEF IInv, AllLocal, Local, Request, AtHome
<1>2. RowsOK
  BY DEF IInv, TypeOK, RowsOK
<1>3. row[t][i] \in Entry /\ row[t][i].home = req[r].ctx /\ row[t][i] # NULL
      /\ req[r].ctx \in Households
  BY <1>1, <1>2, VisibleEntry DEF Visible
<1>4. req[r].home = row[t][i].home /\ req[r].home \in live
  BY <1>1, <1>3 DEF IInv, NoOrphans
<1>5. Refs(t, row[t][i].home, row[t][i])
  BY <1>3 DEF IInv, ReferencesInHousehold, Refs
<1> QED
  BY <1>3, <1>4, <1>5
\* The insertion of a shot.
LEMMA InsertShotOrdinary ==
  ASSUME IInv, NEW r \in Requests, InsertShot(r)
  PROVE  Ordinary(r)
<1> DEFINE i == req[r].id
           e == req[r].new
<1>1. /\ req[r] \in Request /\ req[r].step = "inserting" /\ req[r].answer = NULL
      /\ i \in Ids /\ e \in Entry /\ e.home = req[r].home
  BY DEF InsertShot, IInv, AllLocal, Local, Committing, Ready, AtHome
<1>2. UNCHANGED live
  BY DEF InsertShot
<1>3. CASE Allowed(r, "brew_log", i, e)
  <2> DEFINE q == [req[r] EXCEPT !.step = "feeding", !.wrote = TRUE]
  <2>1. Put("brew_log", i, e)
        /\ req' = [req EXCEPT ![r].step = "feeding", ![r].wrote = TRUE]
    BY <1>3 DEF InsertShot
  <2>2. /\ q.links = req[r].links /\ q.new = e /\ q.home = req[r].home
        /\ q.table = req[r].table /\ q.answer = NULL /\ q.step = "feeding"
    BY <1>1 DEF Request
  <2>3. req' = [req EXCEPT ![r] = q]
    BY <2>1
  <2> HIDE DEF q
  <2>4. GoesOn(r, q)
    BY <1>1, <2>2, <2>3, KeptGoesOn DEF Answers
  <2>5. req'[r] = q /\ q # req[r]
    BY <1>1, <2>2, <2>3 DEF IInv, TypeOK
  <2>6. e.home \in live /\ row["brew_log"][i] = NULL /\ ~KeyTaken(e)
    BY <1>3 DEF Allowed
  <2>7. Writes(r, "brew_log", i, e)
    BY <1>1, <2>1, <2>2, <2>5, <2>6 DEF Writes, Refs, Tables
  <2> QED
    BY <1>1, <1>2, <2>4, <2>7 DEF Ordinary, RowStep, GoesOn, Tables
<1>4. CASE ~Allowed(r, "brew_log", i, e)
  <2>1. UNCHANGED <<live, row>> /\ (Answer(r, "failed") \/ Goto(r, "retried"))
    BY <1>2, <1>4 DEF InsertShot, WriteError
  <2> QED
    BY <1>1, <2>1, AnswerOrdinary, GotoOrdinary DEF Answers
<1> QED
  BY <1>3, <1>4

LEMMA RetryShotOrdinary ==
  ASSUME IInv, NEW r \in Requests, RetryShot(r)
  PROVE  Ordinary(r)
<1> DEFINE q == req[r]
<1>1. /\ q \in Request /\ q.step = "retried" /\ q.links = {} /\ q.new \in Entry
      /\ q.new.key \in Keys /\ q.table = "brew_log" /\ q.new.home = q.home
      /\ q.ctx \in {q.home, NULL} /\ UNCHANGED <<live, row>>
  BY DEF RetryShot, IInv, AllLocal, Local, Committing, Ready, AtHome
<1>2. CASE Answer(r, "failed")
  BY <1>1, <1>2, AnswerOrdinary DEF RetryShot, Answers
<1>3. CASE \E i \in WithKey(q.ctx, q.new.key) : Become(r, Replay(q, i))
  <2>1. PICK i \in WithKey(q.ctx, q.new.key) : Become(r, Replay(q, i))
    BY <1>3 DEF RetryShot
  <2>2. RowsOK
    BY DEF IInv, TypeOK, RowsOK
  <2>3. q.ctx \in Households \cup {NULL}
    BY <1>1 DEF Request
  <2>4. q.ctx = q.home /\ q.home \in Households
    BY <1>1, <2>2, <2>3, WithKeyHome
  <2>5. i \in WithKey(q.home, q.new.key)
    BY <2>4
  <2>6. GoesOn(r, Replay(q, i))
    BY <1>1, <2>1, <2>4, <2>5, ReplayGoesOn
  <2> QED
    BY <1>1, <2>6 DEF Ordinary, RowStep, GoesOn
<1> QED
  BY <1>2, <1>3 DEF RetryShot

\* A look-up hands a shot over without a new row.
LEMMA LookUpShotOrdinary ==
  ASSUME NEW r \in Requests, NEW h \in Households, NEW i \in Ids,
         GenerateFeedback(r, h, i) \/ CheckDelete(r, h, i)
  PROVE  Ordinary(r)
<1>1. MayBegin(r, h) /\ UNCHANGED <<live, row>>
  BY DEF GenerateFeedback, CheckDelete
<1>2. \/ Become(r, Admitted("feedback", "feeding", h, "brew_log", i, NULL))
      \/ Become(r, Admitted("edit", "deleting", h, "brew_log", i, NULL))
      \/ Refuse(r, h)
  BY DEF GenerateFeedback, CheckDelete
<1> QED
  BY <1>1, <1>2, AdmittedOrdinary, RefuseOrdinary

\* The last step of a request, which writes row i of t, or nothing.
LEMMA EndWrites ==
  ASSUME IInv, NEW r \in Requests, NEW a \in {"ok", "created", "timeout"}, NEW w,
         Become(r, [Answered(req[r], a) EXCEPT !.wrote = w]),
         req[r].step \notin {"answered", "linking", "closing"}, UNCHANGED live,
         NEW t \in Tables, NEW i \in Ids, NEW e \in Entry, Put(t, i, e),
         i \in Visible(r, t), e.home = row[t][i].home, e.ref = row[t][i].ref,
         t = "brew_log" => row[t][i].key = e.key /\ row[t][i].body = e.body
  PROVE  Ordinary(r)
<1> DEFINE q == [Answered(req[r], a) EXCEPT !.wrote = w]
<1>1. req[r] \in Request /\ req' = [req EXCEPT ![r] = q]
  BY DEF Become, IInv, TypeOK
<1>2. /\ q.links = req[r].links /\ q.new = req[r].new /\ q.home = req[r].home
      /\ q.table = req[r].table /\ q.answer = a /\ q.step = "answered"
  BY <1>1 DEF Answered, Request
<1> HIDE DEF q
<1>3. GoesOn(r, q)
  BY <1>1, <1>2, KeptGoesOn
<1>4. req'[r].home = req[r].home /\ req'[r] # req[r]
  BY <1>1, <1>2 DEF IInv, TypeOK
<1>5. row[t][i].home = req[r].home /\ row[t][i] # NULL /\ req[r].home \in live
      /\ Refs(t, req[r].home, row[t][i])
  BY OwnRow
<1>6. Refs(t, e.home, e)
  BY <1>5 DEF Refs
<1>7. Writes(r, t, i, e)
  BY <1>4, <1>5, <1>6 DEF Writes
<1> QED
  BY <1>3, <1>7 DEF Ordinary, RowStep, GoesOn

LEMMA EndKeeps ==
  ASSUME IInv, NEW r \in Requests, NEW a \in {"ok", "created", "timeout"}, NEW w,
         Become(r, [Answered(req[r], a) EXCEPT !.wrote = w]),
         req[r].step \notin {"answered", "linking", "closing"}, UNCHANGED <<live, row>>
  PROVE  Ordinary(r)
<1> DEFINE q == [Answered(req[r], a) EXCEPT !.wrote = w]
<1>1. req[r] \in Request /\ req' = [req EXCEPT ![r] = q]
  BY DEF Become, IInv, TypeOK
<1>2. /\ q.links = req[r].links /\ q.new = req[r].new /\ q.home = req[r].home
      /\ q.table = req[r].table /\ q.answer = a
  BY <1>1 DEF Answered, Request
<1> HIDE DEF q
<1>3. GoesOn(r, q)
  BY <1>1, <1>2, KeptGoesOn
<1> QED
  BY <1>3 DEF Ordinary, RowStep, GoesOn

LEMMA StoreFeedbackOrdinary ==
  ASSUME IInv, NEW r \in Requests, StoreFeedback(r)
  PROVE  Ordinary(r)
<1> DEFINE i == req[r].id
           e == [Shots[i] EXCEPT !.feedback = TRUE]
<1>1. req[r].step = "asking" /\ UNCHANGED live /\ AllLocal
  BY DEF StoreFeedback, IInv
<1>2. i \in Ids
  BY <1>1, FeedbackFacts
<1>3. PICK a \in {"created", "ok", "timeout"} :
        \E w : Become(r, [Answered(req[r], a) EXCEPT !.wrote = w])
  BY DEF StoreFeedback
<1>4. PICK w : Become(r, [Answered(req[r], a) EXCEPT !.wrote = w])
  BY <1>3
<1>5. CASE i \in Visible(r, "brew_log")
  <2>1. Put("brew_log", i, e)
    BY <1>5 DEF StoreFeedback
  <2>2. Shots[i] \in Entry
    BY <1>2, <1>5, OwnRow DEF Shots, Tables
  <2>3. /\ e \in Entry /\ e.home = Shots[i].home /\ e.ref = Shots[i].ref
        /\ e.key = Shots[i].key /\ e.body = Shots[i].body
    BY <2>2 DEF Entry
  <2> HIDE DEF e
  <2> QED
    BY <1>1, <1>2, <1>4, <1>5, <2>1, <2>3, EndWrites DEF Shots, Tables
<1>6. CASE i \notin Visible(r, "brew_log")
  BY <1>1, <1>4, <1>6, EndKeeps DEF StoreFeedback
<1> QED
  BY <1>5, <1>6

LEMMA FeedbackOrdinary ==
  ASSUME IInv, NEW r \in Requests, ReadForFeedback(r) \/ GiveUpFeedback(r)
  PROVE  Ordinary(r)
<1>1. req[r].step \in {"feeding", "asking"} /\ UNCHANGED <<live, row>> /\ AllLocal
  BY DEF ReadForFeedback, GiveUpFeedback, IInv
<1>2. WithoutFeedback(r) \in {"created", "failed"}
  BY <1>1, FeedbackFacts
<1>3. \/ Goto(r, "asking") \/ Answer(r, WithoutFeedback(r))
      \/ Answer(r, "created") \/ Answer(r, "timeout")
  BY DEF ReadForFeedback, GiveUpFeedback
<1> QED
  BY <1>1, <1>2, <1>3, GotoOrdinary, AnswerOrdinary DEF Answers

LEMMA PatchShotOrdinary ==
  ASSUME IInv, NEW r \in Requests, NEW h \in Households, NEW i \in Ids, PatchShot(r, h, i)
  PROVE  Ordinary(r)
<1> DEFINE s == {h} \cup Displayed(NULL, Tables)
           q == [Answered(Waiting, "ok") EXCEPT !.home = h, !.wrote = TRUE, !.shown = s]
           e == [Shots[i] EXCEPT !.edited = TRUE]
<1>1. MayBegin(r, h) /\ req[r].step = "new" /\ UNCHANGED live
  BY DEF PatchShot, MayBegin
<1>2. CASE i \in VisibleTo(h, "brew_log")
  <2>1. Put("brew_log", i, e) /\ Become(r, q)
    BY <1>2 DEF PatchShot
  <2> HIDE DEF s
  <2>2. q.links = {} /\ q.new = NULL /\ q.answer = "ok" /\ q.home = h /\ q.step = "answered"
    BY DEF Answered, Waiting
  <2> HIDE DEF q
  <2>3. GoesOn(r, q)
    BY <1>1, <2>1, <2>2 DEF GoesOn, Proceeds, Told, Become
  <2>4. req'[r] = q /\ q # req[r]
    BY <1>1, <2>1, <2>2 DEF Become, IInv, TypeOK
  <2>5. RowsOK
    BY DEF IInv, TypeOK, RowsOK
  <2>6. Shots[i] \in Entry /\ Shots[i].home = h /\ Shots[i] # NULL
    BY <1>2, <2>5, VisibleEntry DEF Shots, Tables
  <2>7. e \in Entry /\ e.home = h /\ e.key = Shots[i].key /\ e.body = Shots[i].body
    BY <2>6 DEF Entry
  <2> HIDE DEF e
  <2>8. Writes(r, "brew_log", i, e)
    BY <1>1, <2>1, <2>2, <2>4, <2>6, <2>7 DEF Writes, Refs, Tables, Shots, MayBegin
  <2> QED
    BY <1>1, <2>3, <2>7, <2>8 DEF Ordinary, RowStep, GoesOn, Tables
<1>3. CASE i \notin VisibleTo(h, "brew_log")
  BY <1>1, <1>3, RefuseOrdinary DEF PatchShot
<1> QED
  BY <1>2, <1>3

LEMMA DeleteShotOrdinary ==
  ASSUME IInv, NEW r \in Requests, DeleteShot(r)
  PROVE  Ordinary(r)
<1> DEFINE i == req[r].id
           w == i \in Visible(r, "brew_log")
           q == [Answered(req[r], "ok") EXCEPT !.wrote = w]
<1>1. req[r].step = "deleting" /\ Become(r, q) /\ UNCHANGED live /\ i \in Ids
      /\ req[r] \in Request
  BY DEF DeleteShot, IInv, AllLocal, Local, Ready
<1> HIDE DEF w
<1>2. CASE i \in Visible(r, "brew_log")
  <2>1. Put("brew_log", i, NULL)
    BY <1>2 DEF DeleteShot
  <2>2. req' = [req EXCEPT ![r] = q]
    BY <1>1 DEF Become
  <2>3. /\ q.links = req[r].links /\ q.new = req[r].new /\ q.home = req[r].home
        /\ q.table = req[r].table /\ q.answer = "ok" /\ q.step = "answered"
    BY <1>1 DEF Answered, Request
  <2> HIDE DEF q
  <2>4. GoesOn(r, q)
    BY <1>1, <2>2, <2>3, KeptGoesOn
  <2>5. req'[r].home = req[r].home /\ req'[r] # req[r]
    BY <1>1, <2>2, <2>3 DEF IInv, TypeOK
  <2>6. Shots[i] # NULL /\ Shots[i].home = req[r].home
    BY <1>1, <1>2, OwnRow DEF Shots, Tables
  <2>7. Removes(r, i)
    BY <1>1, <2>1, <2>5, <2>6 DEF Removes
  <2> QED
    BY <1>1, <2>4, <2>7 DEF Ordinary, RowStep, GoesOn
<1>3. CASE i \notin Visible(r, "brew_log")
  BY <1>1, <1>3, EndKeeps DEF DeleteShot
<1> QED
  BY <1>2, <1>3

LEMMA BrewLogOrdinary ==
  ASSUME IInv, BrewLogNext
  PROVE  \E r \in Requests : Ordinary(r)
<1>1. PICK r \in Requests :
        \/ \E h \in Households : ListShots(r, h) \/ Dashboard(r, h)
        \/ \E h \in Households, b \in Bodies, k \in Keys \cup {NULL} : CreateShot(r, h, k, b)
        \/ \E h \in Households, i \in Ids :
             \/ GenerateFeedback(r, h, i) \/ PatchShot(r, h, i)
             \/ CheckDelete(r, h, i) \/ ShowShot(r, h, i) \/ ShowFeedback(r, h, i)
        \/ NumberShot(r) \/ InsertShot(r) \/ RetryShot(r)
        \/ ReadForFeedback(r) \/ StoreFeedback(r) \/ GiveUpFeedback(r) \/ DeleteShot(r)
  BY DEF BrewLogNext
<1>2. \A h \in Households : ListShots(r, h) \/ Dashboard(r, h) => Ordinary(r)
  BY ReadOrdinary DEF ListShots, Dashboard
<1>3. \A h \in Households, b \in Bodies, k \in Keys \cup {NULL} :
        CreateShot(r, h, k, b) => Ordinary(r)
  BY CreateShotOrdinary
<1>4. \A h \in Households, i \in Ids :
        GenerateFeedback(r, h, i) \/ PatchShot(r, h, i) \/ CheckDelete(r, h, i) => Ordinary(r)
  BY LookUpShotOrdinary, PatchShotOrdinary
<1>5. \A h \in Households, i \in Ids : ShowShot(r, h, i) \/ ShowFeedback(r, h, i) => Ordinary(r)
  BY ReadOneOrdinary DEF ShowShot, ShowFeedback
<1>6. NumberShot(r) \/ InsertShot(r) \/ RetryShot(r) \/ DeleteShot(r) => Ordinary(r)
  BY NumberShotOrdinary, InsertShotOrdinary, RetryShotOrdinary, DeleteShotOrdinary
<1>7. ReadForFeedback(r) \/ StoreFeedback(r) \/ GiveUpFeedback(r) => Ordinary(r)
  BY FeedbackOrdinary, StoreFeedbackOrdinary
<1> QED
  BY <1>1, <1>2, <1>3, <1>4, <1>5, <1>6, <1>7

-----------------------------------------------------------------------------
(* Equipment.                                                              *)

LEMMA CreateOrdinary ==
  ASSUME IInv, NEW r \in Requests, NEW h \in Households, NEW c, NEW b, NEW f,
         \/ CreateHardware(r, h, c, b, f) \/ CreateBean(r, h, b, f)
         \/ AddBag(r, h, c, b) \/ AddEvent(r, h, c, b)
  PROVE  Ordinary(r)
<1>1. NewEntry(h, b, NULL, c).ref = c
  BY DEF NewEntry
<1>2. CASE CreateHardware(r, h, c, b, f)
  <2>1. \A e : Refs("hardware", h, e)
    BY DEF Refs
  <2>2. PICK op, i, e : Become(r, Admitted(op, "selecting", h, "hardware", i, e))
    BY <1>2 DEF CreateHardware
  <2> QED
    BY <1>2, <2>1, <2>2, AdmittedOrdinary DEF CreateHardware
<1>3. CASE CreateBean(r, h, b, f)
  <2>1. \A e : Refs("catalog", h, e)
    BY DEF Refs
  <2>2. PICK i, e : Become(r, Admitted("create", "selecting", h, "catalog", i, e))
    BY <1>3 DEF CreateBean
  <2> QED
    BY <1>3, <2>1, <2>2, AdmittedOrdinary DEF CreateBean
<1>4. CASE AddBag(r, h, c, b)
  <2>1. CASE c \in VisibleTo(h, "catalog")
    <3>1. Refs("inventory_bags", h, NewEntry(h, b, NULL, c))
      BY <1>1, <2>1 DEF Refs
    <3> QED
      BY <1>4, <2>1, <3>1, AdmittedOrdinary DEF AddBag
  <2>2. CASE c \notin VisibleTo(h, "catalog")
    BY <1>4, <2>2, RefuseOrdinary DEF AddBag
  <2> QED
    BY <2>1, <2>2
<1>5. CASE AddEvent(r, h, c, b)
  <2>1. CASE c \in VisibleTo(h, "hardware")
    <3>1. Refs("maintenance_log", h, NewEntry(h, b, NULL, c))
      BY <1>1, <2>1 DEF Refs
    <3> QED
      BY <1>5, <2>1, <3>1, AdmittedOrdinary DEF AddEvent
  <2>2. CASE c \notin VisibleTo(h, "hardware")
    BY <1>5, <2>2, RefuseOrdinary DEF AddEvent
  <2> QED
    BY <2>1, <2>2
<1> QED
  BY <1>2, <1>3, <1>4, <1>5

LEMMA EditOrdinary ==
  ASSUME IInv, NEW r \in Requests, NEW h \in Households, NEW i \in Ids, NEW b, NEW f,
         \/ EditHardware(r, h, i, b) \/ EditBean(r, h, i, b)
         \/ PatchBag(r, h, i, f) \/ UploadImage(r, h, i)
  PROVE  Ordinary(r)
<1>1. ASSUME NEW t, NEW e, NEW s, Edit(r, h, t, i, e, s),
             e # NULL /\ i \in VisibleTo(h, t) => Refs(t, h, e)
      PROVE  Ordinary(r)
  BY <1>1, AdmittedOrdinary, RefuseOrdinary DEF Edit
<1>2. \A e : Refs("hardware", h, e) /\ Refs("catalog", h, e)
  BY DEF Refs
<1>3. CASE EditHardware(r, h, i, b)
  BY <1>1, <1>2, <1>3 DEF EditHardware
<1>4. CASE EditBean(r, h, i, b) \/ UploadImage(r, h, i)
  BY <1>1, <1>2, <1>4 DEF EditBean, UploadImage
<1>5. CASE PatchBag(r, h, i, f)
  <2> DEFINE e == [row["inventory_bags"][i] EXCEPT !.edited = f]
  <2>1. RowsOK
    BY DEF IInv, TypeOK, RowsOK
  <2>2. ASSUME i \in VisibleTo(h, "inventory_bags")
        PROVE  Refs("inventory_bags", h, e)
    <3>1. /\ row["inventory_bags"][i] \in Entry /\ row["inventory_bags"][i].home = h
          /\ row["inventory_bags"][i] # NULL
      BY <2>1, <2>2, VisibleEntry DEF Tables
    <3>2. e.ref = row["inventory_bags"][i].ref
      BY <3>1 DEF Entry
    <3>3. row["inventory_bags"][i].ref \in VisibleTo(h, "catalog")
      BY <3>1 DEF IInv, ReferencesInHousehold
    <3> QED
      BY <3>2, <3>3 DEF Refs
  <2> HIDE DEF e
  <2> QED
    BY <1>1, <1>5, <2>2 DEF PatchBag, e
<1> QED
  BY <1>3, <1>4, <1>5
LEMMA RefetchBeanOrdinary ==
  ASSUME IInv, NEW r \in Requests, RefetchBean(r)
  PROVE  Ordinary(r)
<1> DEFINE i == req[r].id
           e == [row["catalog"][i] EXCEPT !.edited = TRUE]
           q == [req[r] EXCEPT !.step = "selecting", !.new = e]
<1>1. /\ req[r] \in Request /\ req[r].step = "uploading" /\ UNCHANGED <<live, row>>
      /\ req[r].table = "catalog" /\ req[r].links = {} /\ req[r].answer = NULL
  BY DEF RefetchBean, IInv, AllLocal, Local, Ready, Committing
<1>2. CASE i \in Visible(r, "catalog")
  <2> HIDE DEF e
  <2>1. q.links = {} /\ q.table = "catalog" /\ q.answer = NULL
    BY <1>1 DEF Request
  <2>2. req' = [req EXCEPT ![r] = q]
    BY <1>2 DEF RefetchBean, e
  <2> HIDE DEF q
  <2>3. GoesOn(r, q)
    BY <1>1, <2>1, <2>2 DEF GoesOn, Proceeds, Told, Refs, Answers
  <2> QED
    BY <1>1, <2>3 DEF Ordinary, RowStep, GoesOn
<1>3. CASE i \notin Visible(r, "catalog")
  BY <1>1, <1>3, AnswerOrdinary DEF RefetchBean, Answers
<1> QED
  BY <1>2, <1>3

LEMMA SelectRowOrdinary ==
  ASSUME IInv, NEW r \in Requests, SelectRow(r)
  PROVE  Ordinary(r)
<1> DEFINE e == IF req[r].id \in Visible(r, req[r].table) THEN row[req[r].table][req[r].id]
                ELSE NULL
           q == [req[r] EXCEPT !.step = "writing", !.seen = e]
<1>1. /\ req[r] \in Request /\ req[r].step = "selecting" /\ UNCHANGED <<live, row>>
      /\ req[r].answer = NULL
  BY DEF SelectRow, IInv, AllLocal, Local, Committing
<1> HIDE DEF e
<1>2. /\ q.links = req[r].links /\ q.new = req[r].new /\ q.home = req[r].home
      /\ q.table = req[r].table /\ q.answer = NULL
  BY <1>1 DEF Request
<1>3. req' = [req EXCEPT ![r] = q]
  BY DEF SelectRow, e
<1> HIDE DEF q
<1>4. GoesOn(r, q)
  BY <1>1, <1>2, <1>3, KeptGoesOn DEF Answers
<1> QED
  BY <1>1, <1>4 DEF Ordinary, RowStep, GoesOn

\* The commit of an upsert of row i of t.
LEMMA CommittedWrites ==
  ASSUME IInv, NEW r \in Requests, req[r].step = "writing", Become(r, Committed(r)),
         UNCHANGED live, NEW t \in Tables, t = req[r].table, NEW i \in Ids, NEW e \in Entry,
         Put(t, i, e), e.home = req[r].home, e.home \in live, Refs(t, e.home, e),
         row[t][i] = NULL \/ (row[t][i] # NULL /\ row[t][i].home = e.home)
  PROVE  Ordinary(r)
<1> DEFINE s == IF req[r].op = "picture" THEN "picturing" ELSE "answered"
           a == CASE req[r].op = "create" -> "created" [] req[r].op = "edit" -> "ok"
                  [] OTHER -> NULL
           q == [req[r] EXCEPT !.wrote = TRUE, !.ctx = NULL, !.step = s, !.answer = a]
<1>1. req[r] \in Request /\ t # "brew_log"
  BY DEF IInv, AllLocal, Local, Ready
<1>2. a \notin {"replayed", "conflict"} /\ s # "writing"
  BY DEF Answers
<1>3. req' = [req EXCEPT ![r] = q]
  BY DEF Become, Committed
<1> HIDE DEF s, a
<1>4. /\ q.links = req[r].links /\ q.new = req[r].new /\ q.home = req[r].home
      /\ q.table = req[r].table /\ q.answer = a /\ q.step = s
  BY <1>1 DEF Request
<1> HIDE DEF q
<1>5. GoesOn(r, q)
  BY <1>2, <1>3, <1>4, KeptGoesOn
<1>6. req'[r] = q /\ q # req[r]
  BY <1>2, <1>3, <1>4 DEF IInv, TypeOK
<1>7. Writes(r, t, i, e)
  BY <1>1, <1>4, <1>6 DEF Writes
<1> QED
  BY <1>5, <1>7 DEF Ordinary, RowStep, GoesOn

\* The commit of an upsert that had nothing to change.
LEMMA CommittedKeeps ==
  ASSUME IInv, NEW r \in Requests, req[r].step = "writing", Become(r, Committed(r)),
         UNCHANGED <<live, row>>
  PROVE  Ordinary(r)
<1> DEFINE s == IF req[r].op = "picture" THEN "picturing" ELSE "answered"
           a == CASE req[r].op = "create" -> "created" [] req[r].op = "edit" -> "ok"
                  [] OTHER -> NULL
           q == [req[r] EXCEPT !.wrote = TRUE, !.ctx = NULL, !.step = s, !.answer = a]
<1>1. req[r] \in Request
  BY DEF IInv, AllLocal, Local
<1>2. a \notin {"replayed", "conflict"} /\ s # "writing"
  BY DEF Answers
<1>3. req' = [req EXCEPT ![r] = q]
  BY DEF Become, Committed
<1> HIDE DEF s, a
<1>4. /\ q.links = req[r].links /\ q.new = req[r].new /\ q.home = req[r].home
      /\ q.table = req[r].table /\ q.answer = a /\ q.step = s
  BY <1>1 DEF Request
<1> HIDE DEF q
<1>5. GoesOn(r, q)
  BY <1>2, <1>3, <1>4, KeptGoesOn
<1> QED
  BY <1>5 DEF Ordinary, RowStep, GoesOn

\* What is stored is an entry.
LEMMA StoredEntry ==
  ASSUME IInv, NEW t \in Tables, NEW i \in Ids, row[t][i] # NULL
  PROVE  row[t][i] \in Entry
  BY DEF IInv, TypeOK

\* The row that is put has the columns of one of the rows it is made of.
LEMMA MergedFacts ==
  ASSUME NEW seen \in Entry, NEW new \in Entry, NEW now \in Entry
  PROVE  /\ Merged(seen, new, now) \in Entry
         /\ Merged(seen, new, now).home = now.home
         /\ Merged(seen, new, now).ref \in {now.ref, new.ref}
         /\ now.home = new.home /\ Written(now) = Written(seen) =>
              Written(Merged(seen, new, now)) = Written(new)
<1> DEFINE b == IF new.body = seen.body THEN now.body ELSE new.body
           e == IF new.edited = seen.edited THEN now.edited ELSE new.edited
           f == IF new.ref = seen.ref THEN now.ref ELSE new.ref
           m == Merged(seen, new, now)
<1>1. b \in Bodies /\ e \in BOOLEAN /\ f \in Ids \cup {NULL}
  BY DEF Entry
<1>2. Written(now) = Written(seen) => b = new.body /\ f = new.ref
  BY DEF Written
<1>3. f \in {now.ref, new.ref}
  OBVIOUS
<1>4. m = [now EXCEPT !.body = b, !.edited = e, !.ref = f]
  BY Zenon DEF Merged
<1> HIDE DEF b, e, f, m
<1>5. m \in Entry /\ m.home = now.home /\ m.body = b /\ m.ref = f
  <2>1. now.home \in Households /\ now.key \in Keys \cup {NULL} /\ now.feedback \in BOOLEAN
    BY DEF Entry
  <2>2. m = [home |-> now.home, body |-> b, key |-> now.key,
             edited |-> e, feedback |-> now.feedback, ref |-> f]
    BY <1>4 DEF Entry
  <2> QED
    BY <1>1, <2>1, <2>2 DEF Entry
<1>6. now.home = new.home /\ Written(now) = Written(seen) => Written(m) = Written(new)
  BY <1>2, <1>5 DEF Written
<1> QED
  BY <1>3, <1>5, <1>6 DEF m

LEMMA WriteRowOrdinary ==
  ASSUME IInv, NEW r \in Requests, WriteRow(r)
  PROVE  Ordinary(r)
<1> DEFINE q == req[r]
           t == q.table
           i == q.id
           now == row[t][i]
           m == Merged(q.seen, q.new, now)
<1>1. /\ q \in Request /\ q.step = "writing" /\ UNCHANGED live /\ t \in Tables
      /\ t \in {"catalog", "inventory_bags", "hardware"} /\ i \in Ids
      /\ q.new \in Entry /\ q.new # NULL /\ q.new.home = q.home /\ (q.seen # NULL => q.seen \in Entry /\ q.seen.home = q.home)
  BY DEF WriteRow, IInv, AllLocal, Local, Ready, AtHome, Request
<1>2. CASE q.seen = NULL /\ Allowed(r, t, i, q.new) /\ Put(t, i, q.new)
           /\ Become(r, Committed(r))
  <2>1. q.home \in live /\ now = NULL
    BY <1>1, <1>2 DEF Allowed
  <2>2. Refs(t, q.home, q.new)
    BY <1>1, <2>1 DEF IInv, PendingReferences
  <2> QED
    BY <1>1, <1>2, <2>1, <2>2, CommittedWrites
<1>3. CASE q.seen # NULL /\ StillThere(q) /\ Put(t, i, m) /\ Become(r, Committed(r))
  <2>1. now # NULL /\ now.home = q.home
    BY <1>1, <1>3 DEF StillThere
  <2>2. now \in Entry /\ q.home \in live /\ Refs(t, q.home, now)
    <3>1. now \in Entry
      BY <1>1, <2>1, StoredEntry
    <3>2. now.home \in live
      BY <1>1, <2>1 DEF IInv, NoOrphans
    <3>3. Refs(t, now.home, now)
      BY <1>1, <2>1 DEF IInv, ReferencesInHousehold, Refs
    <3> QED
      BY <2>1, <3>1, <3>2, <3>3
  <2>3. m \in Entry /\ m.home = q.home /\ m.ref \in {now.ref, q.new.ref}
    <3> HIDE DEF now
    <3> QED
      BY <1>1, <1>3, <2>1, <2>2, MergedFacts
  <2>5. Refs(t, q.home, q.new)
    BY <1>1, <2>2 DEF IInv, PendingReferences
  <2> HIDE DEF m
  <2>4. Refs(t, m.home, m)
    BY <2>2, <2>3, <2>5 DEF Refs
  <2> QED
    BY <1>1, <1>3, <2>1, <2>2, <2>3, <2>4, CommittedWrites
<1>4. CASE Answer(r, WriteError(r)) /\ UNCHANGED row
  BY <1>1, <1>4, AnswerOrdinary DEF WriteError, Answers
<1>5. CASE Become(r, Committed(r)) /\ UNCHANGED row
  BY <1>1, <1>5, CommittedKeeps
<1> QED
  BY <1>2, <1>3, <1>4, <1>5 DEF WriteRow

\* The second upsert, and maintenance events.
LEMMA SavePictureOrdinary ==
  ASSUME IInv, NEW r \in Requests, SavePicture(r)
  PROVE  Ordinary(r)
<1> DEFINE i == req[r].id
           e == [req[r].new EXCEPT !.edited = TRUE]
<1>1. /\ req[r] \in Request /\ req[r].step = "picturing" /\ UNCHANGED live /\ i \in Ids
      /\ req[r].new \in Entry /\ req[r].new # NULL /\ req[r].new.home = req[r].home
      /\ Answer(r, "created")
  BY DEF SavePicture, IInv, AllLocal, Local, Ready, AtHome
<1>2. GoesOn(r, Answered(req[r], "created"))
  BY <1>1, AnswerGoesOn DEF Answers
<1>3. e \in Entry /\ e.home = req[r].home
  BY <1>1 DEF Entry
<1>4. CASE i \in Visible(r, "hardware") \/ Allowed(r, "hardware", i, e)
  <2> HIDE DEF e
  <2>1. Put("hardware", i, e)
    BY <1>4 DEF SavePicture, Put, e
  <2>2. /\ e.home \in live
        /\ \/ row["hardware"][i] = NULL
           \/ row["hardware"][i] # NULL /\ row["hardware"][i].home = e.home
    BY <1>1, <1>3, <1>4, OwnRow DEF Allowed, Tables
  <2>3. req' = [req EXCEPT ![r] = Answered(req[r], "created")]
    BY <1>1 DEF Answer, Become
  <2>4. Answered(req[r], "created").home = req[r].home
        /\ Answered(req[r], "created").step = "answered"
    BY <1>1 DEF Answered, Request
  <2>5. req'[r].home = req[r].home /\ req'[r] # req[r]
    BY <1>1, <2>3, <2>4 DEF IInv, TypeOK
  <2>6. Writes(r, "hardware", i, e)
    BY <1>1, <1>3, <2>1, <2>2, <2>5 DEF Writes, Refs, Tables
  <2> QED
    BY <1>1, <1>2, <1>3, <2>6 DEF Ordinary, RowStep, GoesOn, Tables
<1>5. CASE ~(i \in Visible(r, "hardware") \/ Allowed(r, "hardware", i, e))
  BY <1>1, <1>2, <1>5 DEF SavePicture, Ordinary, RowStep, GoesOn
<1> QED
  BY <1>4, <1>5

LEMMA AppendEventOrdinary ==
  ASSUME IInv, NEW r \in Requests, AppendEvent(r)
  PROVE  Ordinary(r)
<1> DEFINE t == req[r].table
           i == req[r].id
           e == req[r].new
           q == [req[r] EXCEPT !.step = "refreshing", !.ctx = NULL, !.wrote = TRUE]
<1>1. /\ req[r] \in Request /\ req[r].step = "appending" /\ UNCHANGED live /\ i \in Ids
      /\ e \in Entry /\ e # NULL /\ e.home = req[r].home /\ t = "maintenance_log"
      /\ req[r].answer = NULL
  BY DEF AppendEvent, IInv, AllLocal, Local, Ready, AtHome, Committing
<1>2. CASE Allowed(r, t, i, e)
  <2>1. Put(t, i, e) /\ req' = [req EXCEPT ![r] = q]
    BY <1>2 DEF AppendEvent, Become
  <2>2. /\ q.links = req[r].links /\ q.new = e /\ q.home = req[r].home
        /\ q.table = t /\ q.answer = NULL /\ q.step = "refreshing"
    BY <1>1 DEF Request
  <2> HIDE DEF q
  <2>3. GoesOn(r, q)
    BY <1>1, <2>1, <2>2, KeptGoesOn DEF Answers
  <2>4. req'[r] = q /\ q # req[r]
    BY <1>1, <2>1, <2>2 DEF IInv, TypeOK
  <2>5. e.home \in live /\ row[t][i] = NULL
    BY <1>2 DEF Allowed
  <2>6. Refs(t, e.home, e)
    BY <1>1, <2>5 DEF IInv, PendingReferences
  <2>7. Writes(r, t, i, e)
    BY <1>1, <2>1, <2>2, <2>4, <2>5, <2>6 DEF Writes, Tables
  <2> QED
    BY <1>1, <2>3, <2>7 DEF Ordinary, RowStep, GoesOn, Tables
<1>3. CASE ~Allowed(r, t, i, e)
  BY <1>1, <1>3, AnswerOrdinary DEF AppendEvent, WriteError, Answers
<1> QED
  BY <1>2, <1>3

LEMMA EquipmentOrdinary ==
  ASSUME IInv, EquipmentNext
  PROVE  \E r \in Requests : Ordinary(r)
<1>1. PICK r \in Requests :
        \/ \E h \in Households : ListHardware(r, h) \/ ListEvents(r, h) \/ ListBeans(r, h)
                                 \/ ListBags(r, h)
        \/ \E h \in Households, i \in Ids :
             ShowHardware(r, h, i) \/ ShowBean(r, h, i) \/ ShowBag(r, h, i)
        \/ \E h \in Households, i \in Ids, b \in Bodies, f \in BOOLEAN :
             \/ CreateHardware(r, h, i, b, f) \/ AddBag(r, h, i, b) \/ AddEvent(r, h, i, b)
             \/ EditHardware(r, h, i, b) \/ EditBean(r, h, i, b)
        \/ \E h \in Households, b \in Bodies, f \in BOOLEAN : CreateBean(r, h, b, f)
        \/ \E h \in Households, i \in Ids, f \in BOOLEAN : PatchBag(r, h, i, f)
        \/ \E h \in Households, i \in Ids : UploadImage(r, h, i)
        \/ RefetchBean(r) \/ SelectRow(r) \/ WriteRow(r) \/ SavePicture(r)
        \/ AppendEvent(r) \/ RefreshEvent(r)
  BY ZenonT(60) DEF EquipmentNext
<1>2. \A h \in Households : ListHardware(r, h) \/ ListEvents(r, h) \/ ListBeans(r, h)
                            \/ ListBags(r, h) => Ordinary(r)
  BY ReadOrdinary DEF ListHardware, ListEvents, ListBeans, ListBags
<1>3. \A h \in Households, i \in Ids :
        ShowHardware(r, h, i) \/ ShowBean(r, h, i) \/ ShowBag(r, h, i) => Ordinary(r)
  BY ReadOneOrdinary DEF ShowHardware, ShowBean, ShowBag
<1>4. \A h \in Households : \A i, b, f :
        CreateHardware(r, h, i, b, f) => Ordinary(r)
  BY CreateOrdinary
<1>8. \A h \in Households : \A i, b : AddBag(r, h, i, b) \/ AddEvent(r, h, i, b) => Ordinary(r)
  BY CreateOrdinary
<1>9. \A h \in Households : \A b, f : CreateBean(r, h, b, f) => Ordinary(r)
  BY CreateOrdinary
<1>5. \A h \in Households, i \in Ids :
        /\ \A b : EditHardware(r, h, i, b) \/ EditBean(r, h, i, b) => Ordinary(r)
        /\ \A f : PatchBag(r, h, i, f) => Ordinary(r)
        /\ UploadImage(r, h, i) => Ordinary(r)
  BY EditOrdinary
<1>6. RefetchBean(r) \/ SelectRow(r) \/ WriteRow(r) \/ SavePicture(r) \/ AppendEvent(r)
        => Ordinary(r)
  BY RefetchBeanOrdinary, SelectRowOrdinary, WriteRowOrdinary, SavePictureOrdinary,
     AppendEventOrdinary
<1>7. RefreshEvent(r) => Ordinary(r)
  <2>1. RefreshEvent(r) => /\ req[r].step = "refreshing" /\ UNCHANGED <<live, row>>
                           /\ Answer(r, "created") \/ Answer(r, "failed")
    BY DEF RefreshEvent, WriteError
  <2> QED
    BY <2>1, AnswerOrdinary DEF Answers
<1> QED
  BY <1>1, <1>2, <1>3, <1>4, <1>5, <1>6, <1>7, <1>8, <1>9
-----------------------------------------------------------------------------
(* Guest links, lost requests, and all steps together.                     *)

\* An answer that is not about a stored shot, of any request under way.
LEMMA AnswerRows ==
  ASSUME IInv, NEW r \in Requests, NEW a \in Answers, a \notin {"replayed", "conflict"},
         Answer(r, a), req[r].step # "answered", UNCHANGED <<live, row>>
  PROVE  RowStep(r)
<1> DEFINE q == Answered(req[r], a)
<1>1. req[r] \in Request
  BY DEF IInv, TypeOK
<1>2. /\ q.new = req[r].new /\ q.home = req[r].home /\ q.table = req[r].table
      /\ q.answer = a
  BY <1>1 DEF Answered, Request
<1>3. q.new # NULL /\ q.home \in live => Refs(q.table, q.home, q.new)
  BY <1>2 DEF IInv, PendingReferences
<1>4. req' = [req EXCEPT ![r] = q]
  BY DEF Answer, Become
<1> HIDE DEF q
<1>5. Proceeds(r, q)
  BY <1>2, <1>3, <1>4 DEF Proceeds, Told
<1> QED
  BY <1>5 DEF RowStep

\* The snapshot of the links to be revoked.
LEMMA LinkRequestRows ==
  ASSUME NEW r \in Requests, NEW h, GenerateLink(r, h) \/ RevokeLink(r, h)
  PROVE  RowStep(r)
<1>1. PICK s : Become(r, [Admitted("link", s, h, "brew_log", NULL, NULL)
                            EXCEPT !.links = ActiveLinks(h)])
  BY DEF GenerateLink, RevokeLink
<1> DEFINE q == [Admitted("link", s, h, "brew_log", NULL, NULL) EXCEPT !.links = ActiveLinks(h)]
<1>2. q.new = NULL /\ q.answer = NULL
  BY DEF Admitted, Waiting
<1>3. NULL \notin {"replayed", "conflict"}
  BY DEF Answers
<1>4. req' = [req EXCEPT ![r] = q] /\ req[r].step # "answered" /\ UNCHANGED <<live, row>>
  BY <1>1 DEF Become, GenerateLink, RevokeLink, MayBegin
<1> HIDE DEF q
<1> QED
  BY <1>2, <1>3, <1>4 DEF RowStep, Proceeds, Told

\* A guest.
LEMMA GuestOrdinary ==
  ASSUME IInv, NEW r \in Requests, ViewAsGuest(r) \/ \E l \in Links : OpenLink(r, l)
  PROVE  Ordinary(r)
<1>1. CASE ViewAsGuest(r)
  <2> DEFINE s == Displayed(req[r].home, Tables)
             q == [Answered(req[r], "ok") EXCEPT !.shown = s]
  <2>1. req[r] \in Request /\ req[r].step = "viewing" /\ UNCHANGED <<live, row>>
    BY <1>1 DEF IInv, TypeOK, ViewAsGuest
  <2>2. CASE Become(r, q)
    <3> HIDE DEF s
    <3>1. /\ q.links = req[r].links /\ q.new = req[r].new /\ q.home = req[r].home
          /\ q.table = req[r].table /\ q.answer = "ok"
      BY <2>1 DEF Answered, Request
    <3> HIDE DEF q
    <3>2. GoesOn(r, q)
      BY <2>1, <2>2, <3>1, KeptGoesOn DEF Become
    <3> QED
      BY <2>1, <3>2 DEF Ordinary, RowStep, GoesOn
  <2>3. CASE Answer(r, "refused")
    BY <2>1, <2>3, AnswerOrdinary DEF Answers
  <2> QED
    BY <1>1, <2>2, <2>3 DEF ViewAsGuest
<1>2. CASE \E l \in Links : OpenLink(r, l)
  <2>1. PICK l \in Links : OpenLink(r, l)
    BY <1>2
  <2> DEFINE q == Answered(Waiting, "refused")
             p == Admitted("read", "viewing", link[l].home, "brew_log", NULL, NULL)
  <2>2. q.links = {} /\ q.new = NULL /\ q.answer = "refused"
    BY DEF Answered, Waiting
  <2>3. p.links = {} /\ p.new = NULL /\ p.answer = NULL
    BY DEF Admitted, Waiting
  <2>4. NULL \notin {"replayed", "conflict"}
    BY DEF Answers
  <2>5. /\ req[r].step # "answered" /\ UNCHANGED <<live, row>>
        /\ req' = [req EXCEPT ![r] = p] \/ req' = [req EXCEPT ![r] = q]
    BY <2>1 DEF OpenLink, Become
  <2> HIDE DEF p, q
  <2> QED
    BY <2>2, <2>3, <2>4, <2>5 DEF Ordinary, RowStep, GoesOn, Proceeds, Told
<1> QED
  BY <1>1, <1>2

\* Every step is one of these.
LinkStep(r) ==
  \/ \E h \in Households : GenerateLink(r, h) \/ RevokeLink(r, h)
  \/ CommitLink(r) \/ CommitRevocation(r)

LEMMA NextCases ==
  ASSUME IInv, Next
  PROVE  /\ focus' = focus
         /\ \/ UNCHANGED link /\ \E r \in Requests : Ordinary(r)
            \/ UNCHANGED link /\ \E r \in Requests : Abort(r)
            \/ \E r \in Requests : LinkStep(r)
            \/ \E h \in Households : DeleteHousehold(h)
<1>1. CASE BrewLogNext /\ UNCHANGED link
  BY <1>1, BrewLogOrdinary DEF Next
<1>2. CASE EquipmentNext /\ UNCHANGED link
  BY <1>2, EquipmentOrdinary DEF Next
<1>3. CASE LinksNext
  <2>1. PICK r \in Requests : LinkStep(r) \/ ViewAsGuest(r) \/ \E l \in Links : OpenLink(r, l)
    BY <1>3 DEF LinksNext, LinkStep
  <2>2. ViewAsGuest(r) \/ (\E l \in Links : OpenLink(r, l)) => UNCHANGED link
    BY DEF ViewAsGuest, OpenLink
  <2> QED
    BY <2>1, <2>2, GuestOrdinary DEF Next
<1> QED
  BY <1>1, <1>2, <1>3 DEF Next

LEMMA LinkStepRows ==
  ASSUME IInv, NEW r \in Requests, LinkStep(r)
  PROVE  RowStep(r)
<1>1. CASE CommitLink(r) \/ CommitRevocation(r)
  <2>1. /\ UNCHANGED <<live, row>> /\ req[r].step # "answered"
        /\ Answer(r, "created") \/ Answer(r, "failed") \/ Answer(r, "ok")
    BY <1>1 DEF CommitLink, CommitRevocation
  <2> QED
    BY <2>1, AnswerRows DEF Answers
<1> QED
  BY <1>1, LinkRequestRows DEF LinkStep

LEMMA NextRows ==
  ASSUME IInv, Next
  PROVE  (\E r \in Requests : RowStep(r)) \/ (\E h \in Households : DeleteHousehold(h))
<1>1. ASSUME NEW r \in Requests, Abort(r) PROVE RowStep(r)
  BY <1>1, AnswerRows DEF Abort, Running, Answers
<1> QED
  BY <1>1, NextCases, LinkStepRows DEF Ordinary
-----------------------------------------------------------------------------
(* The tables.                                                             *)

\* Put changes one row.
LEMMA PutRow ==
  ASSUME IInv, NEW t \in Tables, NEW i \in Ids, NEW e, Put(t, i, e)
  PROVE  \A u \in Tables, j \in Ids : row'[u][j] = IF u = t /\ j = i THEN e ELSE row[u][j]
  BY DEF IInv, TypeOK, Put

\* What a step of a request does to one row.
LEMMA RowFate ==
  ASSUME IInv, NEW r \in Requests, RowStep(r), NEW t \in Tables, NEW i \in Ids
  PROVE  \/ row'[t][i] = row[t][i]
         \/ /\ row'[t][i] \in Entry /\ row'[t][i] # NULL /\ Writes(r, t, i, row'[t][i])
         \/ t = "brew_log" /\ row'[t][i] = NULL /\ Removes(r, i)
<1>1. CASE UNCHANGED row
  BY <1>1
<1>2. CASE \E u \in Tables, j \in Ids, e \in Entry : Writes(r, u, j, e)
  <2>1. PICK u \in Tables, j \in Ids, e \in Entry : Writes(r, u, j, e)
    BY <1>2
  <2>2. row'[t][i] = IF t = u /\ i = j THEN e ELSE row[t][i]
    BY <2>1, PutRow DEF Writes
  <2> QED
    BY <2>1, <2>2
<1>3. CASE \E j \in Ids : Removes(r, j)
  <2>1. PICK j \in Ids : Removes(r, j)
    BY <1>3
  <2>2. row'[t][i] = IF t = "brew_log" /\ i = j THEN NULL ELSE row[t][i]
    BY <2>1, PutRow DEF Removes, Tables
  <2> QED
    BY <2>1, <2>2
<1> QED
  BY <1>1, <1>2, <1>3 DEF RowStep

\* What the deletion of a household does to one row.
LEMMA CascadeRow ==
  ASSUME IInv, NEW h \in Households, DeleteHousehold(h), NEW t \in Tables, NEW i \in Ids
  PROVE  row'[t][i] = IF row[t][i] # NULL /\ row[t][i].home = h THEN NULL ELSE row[t][i]
  BY DEF DeleteHousehold, Cascade, MayRead

LEMMA CascadeLeaves ==
  ASSUME IInv, NEW h \in Households, DeleteHousehold(h), NEW t \in Tables, NEW i \in Ids,
         row[t][i].home # h
  PROVE  row'[t][i] = row[t][i]
  BY CascadeRow

\* Beans and items of a household stay while it lives.
LEMMA ReferredStay ==
  ASSUME IInv, \/ \E r \in Requests : RowStep(r)
               \/ \E h \in Households : DeleteHousehold(h),
         NEW g \in live', NEW t \in {"catalog", "hardware"}
  PROVE  VisibleTo(g, t) \subseteq VisibleTo(g, t)'
<1> SUFFICES ASSUME NEW i \in VisibleTo(g, t)
             PROVE  MayRead(row'[t][i], g)
  BY DEF VisibleTo
<1>1. i \in Ids /\ t \in Tables /\ row[t][i] # NULL /\ row[t][i].home = g
  BY DEF VisibleTo, MayRead, Tables
<1>2. CASE \E r \in Requests : RowStep(r)
  <2>1. PICK r \in Requests : RowStep(r)
    BY <1>2
  <2>2. row'[t][i] = row[t][i] \/ (row'[t][i] # NULL /\ Writes(r, t, i, row'[t][i]))
    BY <1>1, <2>1, RowFate
  <2> QED
    BY <1>1, <2>2 DEF MayRead, Writes
<1>3. CASE \E h \in Households : DeleteHousehold(h)
  <2>1. PICK h \in Households : DeleteHousehold(h)
    BY <1>3
  <2>2. g # h
    BY <2>1 DEF DeleteHousehold
  <2> QED
    BY <1>1, <2>1, <2>2, CascadeRow DEF MayRead
<1> QED
  BY <1>2, <1>3

LEMMA RefsStay ==
  ASSUME IInv, \/ \E r \in Requests : RowStep(r)
               \/ \E h \in Households : DeleteHousehold(h),
         NEW g \in live', NEW t, NEW e, Refs(t, g, e)
  PROVE  Refs(t, g, e)'
  BY ReferredStay DEF Refs

\* No row of a household that is gone.
LEMMA RowsStayHome ==
  ASSUME IInv, \/ \E r \in Requests : RowStep(r)
               \/ \E h \in Households : DeleteHousehold(h),
         NEW t \in Tables, NEW i \in Ids, row'[t][i] # NULL
  PROVE  row'[t][i].home \in live' /\ Refs(t, row[t][i].home, row[t][i])'
<1> DEFINE e == row'[t][i]
<1>1. CASE row'[t][i] = row[t][i] /\ e.home \in live'
  <2>1. Refs(t, e.home, e)
    BY <1>1 DEF IInv, ReferencesInHousehold, Refs
  <2> QED
    BY <1>1, <2>1, RefsStay
<1>2. CASE \E r \in Requests : RowStep(r)
  <2>1. PICK r \in Requests : RowStep(r)
    BY <1>2
  <2>2. live' = live
    BY <2>1 DEF RowStep
  <2>3. CASE row'[t][i] = row[t][i]
    BY <1>1, <2>2, <2>3 DEF IInv, NoOrphans
  <2>4. CASE Writes(r, t, i, e)
    <3>1. e.home \in live /\ Refs(t, e.home, e)
      BY <2>4 DEF Writes
    <3> QED
      BY <1>2, <2>2, <3>1, RefsStay
  <2> QED
    BY <2>1, <2>3, <2>4, RowFate
<1>3. CASE \E h \in Households : DeleteHousehold(h)
  <2>1. PICK h \in Households : DeleteHousehold(h)
    BY <1>3
  <2>2. row'[t][i] = row[t][i] /\ e.home # h
    BY <2>1, CascadeRow
  <2>3. e.home \in live'
    BY <2>1, <2>2 DEF DeleteHousehold, IInv, NoOrphans
  <2> QED
    BY <1>1, <2>2, <2>3
<1> QED
  BY <1>2, <1>3

LEMMA ReferencesStay ==
  ASSUME IInv, Next
  PROVE  ReferencesInHousehold'
<1> SUFFICES ASSUME NEW i \in Ids
             PROVE  /\ row'["inventory_bags"][i] # NULL =>
                         row'["inventory_bags"][i].ref
                           \in VisibleTo(row["inventory_bags"][i].home, "catalog")'
                    /\ row'["maintenance_log"][i] # NULL =>
                         row'["maintenance_log"][i].ref
                           \in VisibleTo(row["maintenance_log"][i].home, "hardware")'
  BY DEF ReferencesInHousehold
<1>1. \A t \in Tables : row'[t][i] # NULL => Refs(t, row[t][i].home, row[t][i])'
  BY NextRows, RowsStayHome
<1> QED
  BY <1>1 DEF Refs, Tables

LEMMA PendingStay ==
  ASSUME IInv, Next
  PROVE  PendingReferences'
<1> SUFFICES ASSUME NEW r \in Requests, req'[r].new # NULL, req'[r].home \in live'
             PROVE  Refs(req[r].table, req[r].home, req[r].new)'
  BY DEF PendingReferences
<1>1. CASE req'[r] = req[r] /\ req[r].home \in live
  <2>1. Refs(req[r].table, req[r].home, req[r].new)
    BY <1>1 DEF IInv, PendingReferences
  <2> QED
    BY <1>1, <2>1, NextRows, RefsStay
<1>2. CASE \E p \in Requests : RowStep(p)
  <2>1. PICK p \in Requests : RowStep(p)
    BY <1>2
  <2>2. live' = live
    BY <2>1 DEF RowStep
  <2>3. PICK q : Proceeds(p, q)
    BY <2>1 DEF RowStep
  <2>4. req' = [req EXCEPT ![p] = q]
    BY <2>3 DEF Proceeds
  <2>5. CASE p = r
    <3>1. req'[r] = q
      BY <2>4, <2>5 DEF IInv, TypeOK
    <3>2. Refs(q.table, q.home, q.new)
      BY <2>2, <2>3, <3>1 DEF Proceeds
    <3> QED
      BY <1>2, <3>1, <3>2, RefsStay
  <2>6. CASE p # r
    BY <1>1, <2>2, <2>4, <2>6 DEF IInv, TypeOK
  <2> QED
    BY <2>5, <2>6
<1>3. CASE \E h \in Households : DeleteHousehold(h)
  BY <1>1, <1>3 DEF DeleteHousehold
<1> QED
  BY <1>2, <1>3, NextRows
LEMMA KeysStay ==
  ASSUME IInv, Next
  PROVE  OneShotPerKey'
<1> SUFFICES ASSUME NEW i \in Ids, NEW j \in Ids, Shots'[i] # NULL, Shots'[j] # NULL,
                    Shots'[i].key # NULL, Shots'[i].home = Shots'[j].home,
                    Shots'[i].key = Shots'[j].key, i # j
             PROVE  FALSE
  BY DEF OneShotPerKey
<1>1. "brew_log" \in Tables
  BY DEF Tables
<1>2. ASSUME NEW k \in Ids, NEW l \in Ids, Shots[k] # NULL, Shots[l] # NULL,
             Shots[k].key # NULL, Shots[k].home = Shots[l].home, Shots[k].key = Shots[l].key
      PROVE  k = l
  BY <1>2 DEF IInv, OneShotPerKey
<1>3. CASE \E h \in Households : DeleteHousehold(h)
  <2>1. PICK h \in Households : DeleteHousehold(h)
    BY <1>3
  <2>2. Shots'[i] = Shots[i] /\ Shots'[j] = Shots[j]
    BY <1>1, <2>1, CascadeRow DEF Shots
  <2> QED
    BY <1>2, <2>2
<1>4. CASE \E r \in Requests : RowStep(r)
  <2>1. PICK r \in Requests : RowStep(r)
    BY <1>4
  <2>2. ASSUME NEW k \in Ids, NEW l \in Ids, k # l, Shots'[k] # Shots[k],
               Shots'[k] # NULL, Shots'[l] # NULL, Shots'[k].key # NULL,
               Shots'[k].home = Shots'[l].home, Shots'[k].key = Shots'[l].key
        PROVE  FALSE
    <3> DEFINE e == Shots'[k]
    <3>1. Writes(r, "brew_log", k, e)
      BY <1>1, <2>1, <2>2, RowFate DEF Shots
    <3>2. Shots'[l] = Shots[l]
      BY <1>1, <2>2, <3>1, PutRow DEF Writes, Shots
    <3>3. KeyTaken(e) /\ Shots[l] # NULL
      BY <2>2, <3>2 DEF KeyTaken, Shots
    <3>4. Shots[k] # NULL /\ Shots[k].home = e.home /\ Shots[k].key = e.key
      BY <3>1, <3>3 DEF Writes, Shots
    <3> QED
      BY <1>2, <2>2, <3>2, <3>3, <3>4
  <2>3. Shots'[i] = Shots[i] /\ Shots'[j] = Shots[j]
    BY <2>2
  <2> QED
    BY <1>2, <2>3
<1> QED
  BY <1>3, <1>4, NextRows

-----------------------------------------------------------------------------
(* The links.                                                              *)

\* What a step does to one link.
LEMMA LinkFate ==
  ASSUME IInv, Next, NEW l \in Links
  PROVE  /\ link'[l] \in GuestToken \cup {NULL}
         /\ link[l] # NULL => link'[l] # NULL
         /\ Active(l)' => \/ Active(l) /\ link'[l] = link[l]
                          \/ link[l] = NULL
<1>1. link[l] \in GuestToken \cup {NULL} /\ link \in [Links -> GuestToken \cup {NULL}]
  BY DEF IInv, TypeOK
<1>2. CASE UNCHANGED link
  BY <1>1, <1>2 DEF Active
<1>3. \A r \in Requests, k \in Links :
        /\ Revoked(r)[k] \in GuestToken \cup {NULL}
        /\ link[k] # NULL => Revoked(r)[k] # NULL
        /\ Revoked(r)[k] = link[k]
             \/ (link[k] # NULL /\ Revoked(r)[k] # NULL /\ Revoked(r)[k].revoked)
  BY DEF IInv, TypeOK, Revoked, GuestToken, Active
<1>4. CASE \E r \in Requests : CommitRevocation(r)
  BY <1>1, <1>3, <1>4 DEF CommitRevocation, Active
<1>5. CASE \E r \in Requests : CommitLink(r)
  <2>1. PICK r \in Requests : CommitLink(r)
    BY <1>5
  <2>2. CASE UNCHANGED link
    BY <1>2, <2>2
  <2>3. CASE \E m \in Links :
               /\ link[m] = NULL
               /\ link' = [Revoked(r) EXCEPT ![m] = [home |-> req[r].home, revoked |-> FALSE]]
    <3>1. PICK m \in Links :
               /\ link[m] = NULL
               /\ link' = [Revoked(r) EXCEPT ![m] = [home |-> req[r].home, revoked |-> FALSE]]
      BY <2>3
    <3>2. [home |-> req[r].home, revoked |-> FALSE] \in GuestToken
      BY DEF IInv, TypeOK, Request, GuestToken
    <3>3. link'[l] = IF l = m THEN [home |-> req[r].home, revoked |-> FALSE] ELSE Revoked(r)[l]
      BY <3>1 DEF Revoked
    <3> QED
      BY <1>1, <1>3, <3>1, <3>2, <3>3 DEF Active
  <2> QED
    BY <2>1, <2>2, <2>3 DEF CommitLink
<1>6. CASE \E h \in Households : DeleteHousehold(h)
  <2>1. PICK h \in Households : DeleteHousehold(h)
    BY <1>6
  <2>2. Deleted \in GuestToken /\ Deleted.revoked
    BY DEF Deleted, GuestToken
  <2>3. link'[l] = IF link[l] # NULL /\ link[l].home = h THEN Deleted ELSE link[l]
    BY <2>1 DEF DeleteHousehold
  <2> QED
    BY <1>1, <2>2, <2>3 DEF Active
<1> QED
  BY <1>2, <1>4, <1>5, <1>6, NextCases DEF LinkStep, GenerateLink, RevokeLink

LEMMA KnownStay ==
  ASSUME IInv, Next
  PROVE  LinksKnown'
<1> SUFFICES ASSUME NEW r \in Requests, NEW l \in req'[r].links
             PROVE  link'[l] # NULL
  BY DEF LinksKnown
<1>1. ASSUME l \in req[r].links PROVE link'[l] # NULL
  <2>1. link[l] # NULL /\ l \in Links
    BY <1>1 DEF IInv, LinksKnown, TypeOK, Request
  <2> QED
    BY <2>1, LinkFate
<1>2. CASE \E p \in Requests : Ordinary(p)
  <2>. PICK p \in Requests : Ordinary(p)
    BY <1>2
  <2>1. PICK q : GoesOn(p, q)
    BY DEF Ordinary
  <2>2. req' = [req EXCEPT ![p] = q] /\ q.links = {}
    BY <2>1 DEF GoesOn, Proceeds
  <2> QED
    BY <1>1, <2>2 DEF IInv, TypeOK
<1>3. ASSUME NEW p \in Requests, NEW a, Answer(p, a) PROVE link'[l] # NULL
  <2>1. req' = [req EXCEPT ![p] = Answered(req[p], a)]
        /\ Answered(req[p], a).links = req[p].links
    BY <1>3 DEF Answer, Become, Answered, IInv, TypeOK, Request
  <2>2. req'[r].links = req[r].links
    BY <2>1 DEF IInv, TypeOK
  <2> QED
    BY <1>1, <2>2
<1>4. ASSUME NEW p \in Requests, NEW h, GenerateLink(p, h) \/ RevokeLink(p, h)
      PROVE  link'[l] # NULL
  <2>1. PICK s : req' = [req EXCEPT ![p] = [Admitted("link", s, h, "brew_log", NULL, NULL)
                                              EXCEPT !.links = ActiveLinks(h)]]
    BY <1>4 DEF GenerateLink, RevokeLink, Become
  <2>2. [Admitted("link", s, h, "brew_log", NULL, NULL) EXCEPT !.links = ActiveLinks(h)].links
          = ActiveLinks(h)
    BY DEF Admitted, Waiting
  <2>3. req'[r].links = req[r].links \/ req'[r].links = ActiveLinks(h)
    BY <2>1, <2>2 DEF IInv, TypeOK
  <2>4. l \in ActiveLinks(h) => link[l] # NULL /\ l \in Links
    BY DEF ActiveLinks, Active
  <2> QED
    BY <1>1, <2>3, <2>4, LinkFate
<1>5. CASE \E h \in Households : DeleteHousehold(h)
  BY <1>1, <1>5 DEF DeleteHousehold
<1> QED
  BY <1>2, <1>3, <1>4, <1>5, NextCases DEF LinkStep, CommitLink, CommitRevocation, Abort
\* Where a usable link comes from.
LEMMA NewLink ==
  ASSUME IInv, Next, NEW l \in Links, Active(l)', link[l] = NULL
  PROVE  \E r \in Requests :
           /\ CommitLink(r) /\ IndexAllows(r) /\ req[r].home \in live /\ UNCHANGED live
           /\ link' = [Revoked(r) EXCEPT ![l] = [home |-> req[r].home, revoked |-> FALSE]]
<1>1. link # link'
  BY DEF Active
<1>2. CASE \E r \in Requests : CommitRevocation(r)
  BY <1>2 DEF CommitRevocation, Revoked, Active
<1>3. CASE \E h \in Households : DeleteHousehold(h)
  BY <1>3 DEF DeleteHousehold, Active
<1>4. CASE \E r \in Requests : CommitLink(r)
  <2>1. PICK r \in Requests : CommitLink(r)
    BY <1>4
  <2>2. PICK m \in Links :
             link' = [Revoked(r) EXCEPT ![m] = [home |-> req[r].home, revoked |-> FALSE]]
    BY <1>1, <2>1 DEF CommitLink
  <2>3. m = l
    BY <2>2 DEF Revoked, Active
  <2> QED
    BY <1>1, <2>1, <2>2, <2>3 DEF CommitLink
<1> QED
  BY <1>1, <1>2, <1>3, <1>4, NextCases DEF LinkStep, GenerateLink, RevokeLink

LEMMA OneLinkStays ==
  ASSUME IInv, Next, NEW h \in Households, NEW k \in ActiveLinks(h)', NEW l \in ActiveLinks(h)'
  PROVE  k = l
<1>1. /\ k \in Links /\ l \in Links /\ Active(k)' /\ Active(l)'
      /\ link'[k].home = h /\ link'[l].home = h
  BY DEF ActiveLinks
<1>2. ASSUME NEW m \in Links, NEW n \in Links, m # n, link[n] = NULL, Active(m)', Active(n)',
             link'[m].home = h, link'[n].home = h
      PROVE  FALSE
  <2>1. PICK r \in Requests :
           /\ IndexAllows(r)
           /\ link' = [Revoked(r) EXCEPT ![n] = [home |-> req[r].home, revoked |-> FALSE]]
    BY <1>2, NewLink
  <2>2. link'[m] = Revoked(r)[m] /\ link'[n] = [home |-> req[r].home, revoked |-> FALSE]
    BY <1>2, <2>1 DEF Revoked
  <2>3. req[r].home = h /\ Active(m) /\ link[m].home = h /\ m \notin req[r].links
    BY <1>2, <2>2 DEF Revoked, Active, IInv, TypeOK, GuestToken
  <2> QED
    BY <2>1, <2>3 DEF IndexAllows, ActiveLinks
<1>3. CASE link[k] # NULL /\ link[l] # NULL
  <2>1. Active(k) /\ Active(l) /\ link[k].home = h /\ link[l].home = h
    BY <1>1, <1>3, LinkFate
  <2> QED
    BY <1>1, <2>1 DEF IInv, LinksReplaced, ActiveLinks
<1> QED
  BY <1>1, <1>2, <1>3

LEMMA ClosedStay ==
  ASSUME IInv, Next, NEW r \in Requests, req'[r].answer \in {"ok", "created"},
         NEW l \in req'[r].links
  PROVE  ~Active(l)'
<1>1. ASSUME req'[r] = req[r] PROVE ~Active(l)'
  <2>1. ~Active(l) /\ link[l] # NULL /\ l \in Links
    BY <1>1 DEF IInv, LinksReplaced, LinksKnown, TypeOK, Request
  <2> QED
    BY <2>1, LinkFate
<1>2. CASE \E p \in Requests : Ordinary(p)
  <2>. PICK p \in Requests : Ordinary(p)
    BY <1>2
  <2>1. PICK q : GoesOn(p, q)
    BY DEF Ordinary
  <2>2. req' = [req EXCEPT ![p] = q] /\ q.links = {}
    BY <2>1 DEF GoesOn, Proceeds
  <2> QED
    BY <1>1, <2>2 DEF IInv, TypeOK
<1>3. ASSUME NEW p \in Requests, NEW a, Answer(p, a), a \notin {"ok", "created"}
      PROVE  ~Active(l)'
  <2>1. req' = [req EXCEPT ![p] = Answered(req[p], a)] /\ Answered(req[p], a).answer = a
    BY <1>3 DEF Answer, Become, Answered, IInv, TypeOK, Request
  <2>2. req'[r] = req[r]
    BY <1>3, <2>1 DEF IInv, TypeOK
  <2> QED
    BY <1>1, <2>2
<1>4. ASSUME NEW p \in Requests, NEW h, GenerateLink(p, h) \/ RevokeLink(p, h)
      PROVE  ~Active(l)'
  <2>1. PICK s : req' = [req EXCEPT ![p] = [Admitted("link", s, h, "brew_log", NULL, NULL)
                                              EXCEPT !.links = ActiveLinks(h)]]
    BY <1>4 DEF GenerateLink, RevokeLink, Become
  <2>2. [Admitted("link", s, h, "brew_log", NULL, NULL) EXCEPT !.links = ActiveLinks(h)].answer
          = NULL
    BY DEF Admitted, Waiting
  <2>3. NULL \notin {"ok", "created"}
    BY DEF Answers
  <2>4. req'[r] = req[r]
    BY <2>1, <2>2, <2>3 DEF IInv, TypeOK
  <2> QED
    BY <1>1, <2>4
<1>5. CASE \E h \in Households : DeleteHousehold(h)
  BY <1>1, <1>5 DEF DeleteHousehold
<1>6. ASSUME NEW p \in Requests, CommitRevocation(p) \/ (CommitLink(p) /\ ~Answer(p, "failed"))
      PROVE  ~Active(l)'
  <2>4. PICK a : Answer(p, a)
    BY <1>6 DEF CommitLink, CommitRevocation
  <2>1. req' = [req EXCEPT ![p] = Answered(req[p], a)]
        /\ Answered(req[p], a).links = req[p].links
    BY <2>4 DEF Answer, Become, Answered, IInv, TypeOK, Request
  <2>2. CASE p # r
    BY <1>1, <2>1, <2>2 DEF IInv, TypeOK
  <2>3. CASE p = r
    <3>1. l \in req[r].links /\ l \in Links /\ link[l] # NULL
      BY <2>1, <2>3 DEF IInv, TypeOK, Request, LinksKnown
    <3>2. link'[l] = Revoked(r)[l]
      BY <1>6, <2>3, <3>1 DEF CommitLink, CommitRevocation, Revoked
    <3> QED
      BY <3>1, <3>2 DEF Revoked, Active, IInv, TypeOK, GuestToken
  <2> QED
    BY <2>2, <2>3
<1> QED
  BY <1>2, <1>3, <1>4, <1>5, <1>6, NextCases DEF LinkStep, Abort

LEMMA LinksStay ==
  ASSUME IInv, Next
  PROVE  LinksReplaced'
  BY OneLinkStays, ClosedStay DEF LinksReplaced

LEMMA LinksStayHome ==
  ASSUME IInv, Next, NEW l \in Links, Active(l)'
  PROVE  link'[l].home \in live'
<1>1. CASE link[l] = NULL
  <2>1. PICK r \in Requests :
           /\ req[r].home \in live /\ UNCHANGED live
           /\ link' = [Revoked(r) EXCEPT ![l] = [home |-> req[r].home, revoked |-> FALSE]]
    BY <1>1, NewLink
  <2> QED
    BY <2>1 DEF Revoked
<1>2. CASE link[l] # NULL
  <2>1. Active(l) /\ link'[l] = link[l] /\ link[l].home \in live
    BY <1>2, LinkFate DEF IInv, NoOrphans
  <2>2. CASE \E h \in Households : DeleteHousehold(h)
    <3>1. Deleted.revoked
      BY DEF Deleted
    <3> QED
      BY <2>1, <2>2, <3>1 DEF DeleteHousehold, Active
  <2>3. CASE \E r \in Requests : RowStep(r)
    BY <2>1, <2>3 DEF RowStep
  <2> QED
    BY <2>2, <2>3, NextRows
<1> QED
  BY <1>1, <1>2
-----------------------------------------------------------------------------
(* All together.                                                           *)

\* What requests know about themselves stays true.
LEMMA LocalStays ==
  ASSUME IInv, Next
  PROVE  AllLocal'
<1>1. AllLocal /\ RowsOK
  BY DEF IInv, TypeOK, RowsOK
<1>2. CASE BrewLogNext
  <2>1. PICK r \in Requests :
        \/ \E h \in Households : ListShots(r, h) \/ Dashboard(r, h)
        \/ \E h \in Households, b \in Bodies, k \in Keys \cup {NULL} : CreateShot(r, h, k, b)
        \/ \E h \in Households, i \in Ids :
             \/ GenerateFeedback(r, h, i) \/ PatchShot(r, h, i)
             \/ CheckDelete(r, h, i) \/ ShowShot(r, h, i) \/ ShowFeedback(r, h, i)
        \/ NumberShot(r) \/ InsertShot(r) \/ RetryShot(r)
        \/ ReadForFeedback(r) \/ StoreFeedback(r) \/ GiveUpFeedback(r) \/ DeleteShot(r)
    BY <1>2 DEF BrewLogNext
  <2>2. \A h \in Households : ListShots(r, h) \/ Dashboard(r, h) => AllLocal'
    BY <1>1, ReadShotsLocal
  <2>3. \A h \in Households, b \in Bodies, k \in Keys \cup {NULL} :
          CreateShot(r, h, k, b) => AllLocal'
    BY <1>1, CreateShotLocal
  <2>4. \A h \in Households, i \in Ids :
          GenerateFeedback(r, h, i) \/ PatchShot(r, h, i) \/ CheckDelete(r, h, i)
            \/ ShowShot(r, h, i) \/ ShowFeedback(r, h, i) => AllLocal'
    BY <1>1, LookUpShotLocal, PatchShotLocal, ReadShotsLocal
  <2>5. NumberShot(r) \/ InsertShot(r) \/ RetryShot(r) \/ DeleteShot(r)
          \/ ReadForFeedback(r) \/ StoreFeedback(r) \/ GiveUpFeedback(r) => AllLocal'
    BY <1>1, NumberShotLocal, InsertShotLocal, RetryShotLocal, FeedbackLocal, DeleteShotLocal
  <2> QED
    BY <2>1, <2>2, <2>3, <2>4, <2>5
<1>3. CASE EquipmentNext
  <2>1. PICK r \in Requests :
        \/ \E h \in Households : ListHardware(r, h) \/ ListEvents(r, h) \/ ListBeans(r, h)
                                 \/ ListBags(r, h)
        \/ \E h \in Households, i \in Ids :
             ShowHardware(r, h, i) \/ ShowBean(r, h, i) \/ ShowBag(r, h, i)
        \/ \E h \in Households, i \in Ids, b \in Bodies, f \in BOOLEAN :
             CreateHardware(r, h, i, b, f)
        \/ \E h \in Households, i \in Ids, b \in Bodies :
             AddBag(r, h, i, b) \/ AddEvent(r, h, i, b) \/ EditHardware(r, h, i, b)
             \/ EditBean(r, h, i, b)
        \/ \E h \in Households, b \in Bodies, f \in BOOLEAN : CreateBean(r, h, b, f)
        \/ \E h \in Households, i \in Ids, f \in BOOLEAN : PatchBag(r, h, i, f)
        \/ \E h \in Households, i \in Ids : UploadImage(r, h, i)
        \/ RefetchBean(r) \/ SelectRow(r) \/ WriteRow(r) \/ SavePicture(r)
        \/ AppendEvent(r) \/ RefreshEvent(r)
    BY <1>3 DEF EquipmentNext
  <2>2. \A h \in Households : ListHardware(r, h) \/ ListEvents(r, h) \/ ListBeans(r, h)
                              \/ ListBags(r, h) => AllLocal'
    BY <1>1, ReadEquipmentLocal
  <2>3. \A h \in Households, i \in Ids :
          ShowHardware(r, h, i) \/ ShowBean(r, h, i) \/ ShowBag(r, h, i) => AllLocal'
    BY <1>1, ReadEquipmentLocal
  <2>4. \A h \in Households, i \in Ids, b \in Bodies, f \in BOOLEAN :
          CreateHardware(r, h, i, b, f) => AllLocal'
    BY <1>1, CreateLocal
  <2>5. \A h \in Households, i \in Ids, b \in Bodies :
          /\ AddBag(r, h, i, b) \/ AddEvent(r, h, i, b) => AllLocal'
          /\ EditHardware(r, h, i, b) \/ EditBean(r, h, i, b) => AllLocal'
    BY <1>1, CreateLocal, EditLocal
  <2>6. \A h \in Households, b \in Bodies, f \in BOOLEAN : CreateBean(r, h, b, f) => AllLocal'
    BY <1>1, CreateLocal
  <2>7. \A h \in Households, i \in Ids, f \in BOOLEAN : PatchBag(r, h, i, f) => AllLocal'
    BY <1>1, EditLocal
  <2>8. \A h \in Households, i \in Ids : UploadImage(r, h, i) => AllLocal'
    BY <1>1, UploadImageLocal
  <2>9. RefetchBean(r) \/ SelectRow(r) \/ WriteRow(r) \/ SavePicture(r)
          \/ AppendEvent(r) \/ RefreshEvent(r) => AllLocal'
    BY <1>1, RefetchBeanLocal, SelectRowLocal, WriteRowLocal, SavePictureLocal,
       AppendEventLocal, RefreshEventLocal
  <2> QED
    BY <2>1, <2>2, <2>3, <2>4, <2>5, <2>6, <2>7, <2>8, <2>9
<1>4. CASE \E r \in Requests : Abort(r)
  BY <1>1, <1>4, AbortLocal
<1>5. CASE LinksNext
  <2>1. PICK r \in Requests :
        \/ \E h \in Households : GenerateLink(r, h) \/ RevokeLink(r, h)
        \/ \E l \in Links : OpenLink(r, l)
        \/ CommitLink(r) \/ CommitRevocation(r) \/ ViewAsGuest(r)
    BY <1>5 DEF LinksNext
  <2>2. \A h \in Households : ActiveLinks(h) \in SUBSET Links
    BY DEF ActiveLinks
  <2>3. \A h \in Households : GenerateLink(r, h) \/ RevokeLink(r, h) => AllLocal'
    BY <1>1, <2>2, LinkRequestLocal DEF GenerateLink, RevokeLink
  <2>4. \A l \in Links : Active(l) => link[l].home \in Households
    BY DEF IInv, NoOrphans, TypeOK
  <2>5. \A l \in Links : OpenLink(r, l) => AllLocal'
    BY <1>1, <2>4, OpenLinkLocal
  <2>6. CommitLink(r) \/ CommitRevocation(r) \/ ViewAsGuest(r) => AllLocal'
    BY <1>1, CommitLinkLocal, ViewAsGuestLocal
  <2> QED
    BY <2>1, <2>3, <2>5, <2>6
<1>6. CASE \E h \in Households : DeleteHousehold(h)
  BY <1>1, <1>6 DEF DeleteHousehold, AllLocal
<1> QED
  BY <1>2, <1>3, <1>4, <1>5, <1>6 DEF Next

\* Types.
LEMMA TypesStay ==
  ASSUME IInv, Next
  PROVE  TypeOK'
<1>1. req' \in [Requests -> Request]
  BY LocalStays DEF AllLocal
<1>2. focus' \in Focuses
  BY NextCases DEF IInv, TypeOK
<1>3. live' \subseteq Households
  BY NextRows DEF RowStep, DeleteHousehold, IInv, TypeOK
<1>4. row' \in [Tables -> [Ids -> Entry \cup {NULL}]]
  <2>1. row \in [Tables -> [Ids -> Entry \cup {NULL}]]
    BY DEF IInv, TypeOK
  <2>2. ASSUME NEW t, NEW i, NEW e \in Entry \cup {NULL}, Put(t, i, e)
        PROVE  row' \in [Tables -> [Ids -> Entry \cup {NULL}]]
    BY <2>1, <2>2 DEF Put
  <2>3. CASE \E h \in Households : DeleteHousehold(h)
    BY <2>1, <2>3 DEF DeleteHousehold, Cascade
  <2> QED
    BY <2>1, <2>2, <2>3, NextRows DEF RowStep, Writes, Removes
<1>5. link' \in [Links -> GuestToken \cup {NULL}]
  <2>1. \A l \in Links : link'[l] \in GuestToken \cup {NULL}
    BY LinkFate
  <2>2. link' = [l \in Links |-> link'[l]]
    BY NextCases DEF LinkStep, GenerateLink, RevokeLink, CommitLink, CommitRevocation,
       Revoked, DeleteHousehold, IInv, TypeOK
  <2> QED
    BY <2>1, <2>2
<1> QED
  BY <1>1, <1>2, <1>3, <1>4, <1>5 DEF TypeOK

\* Only beans are there at the start.
LEMMA BeansStored ==
  ASSUME Init
  PROVE  /\ row \in [Tables -> [Ids -> Entry \cup {NULL}]]
         /\ \A i \in Ids : /\ row["brew_log"][i] = NULL /\ row["inventory_bags"][i] = NULL
                          /\ row["hardware"][i] = NULL /\ row["maintenance_log"][i] = NULL
<1>1. PICK bean \in Beans \cup {NULL} :
        row = [u \in Tables |-> [j \in Ids |-> IF u = "catalog" THEN bean ELSE NULL]]
  BY DEF Init
<1>2. \A h \in Households, b \in Bodies : NewEntry(h, b, NULL, NULL) \in Entry
  BY DEF NewEntry, Entry
<1>3. bean \in Entry \cup {NULL}
  BY <1>2 DEF Beans
<1>4. row \in [Tables -> [Ids -> Entry \cup {NULL}]]
  BY <1>1, <1>3
<1> QED
  BY <1>1, <1>4 DEF Tables

\* The invariant holds at the start,
LEMMA InitInvariant ==
  ASSUME KitchenInit
  PROVE  IInv
<1> USE DEF KitchenInit, Init, LinksInit
<1>1. Local(Waiting) /\ Waiting \in Request
  BY NothingLocal DEF Local
<1>2. TypeOK /\ AllLocal
  BY <1>1, BeansStored DEF TypeOK, AllLocal
<1>6. live = Households /\ \A l \in Links : link[l] = NULL
  OBVIOUS
<1> HIDE DEF Init
<1>8. NoOrphans
  <2>1. ASSUME NEW t \in Tables, NEW i \in Ids, row[t][i] # NULL PROVE row[t][i].home \in live
    <3>1. row[t][i] \in Entry
      BY <2>1, BeansStored
    <3> QED
      BY <3>1, <1>6 DEF Entry
  <2> QED
    BY <1>6, <2>1 DEF NoOrphans, Active
<1>3. ReferencesInHousehold /\ OneShotPerKey
  BY BeansStored DEF ReferencesInHousehold, OneShotPerKey, Shots
<1> USE DEF Init
<1>4. Waiting.links = {} /\ Waiting.new = NULL
  BY DEF Waiting
<1>5. PendingReferences /\ LinksReplaced /\ LinksKnown
  BY <1>4 DEF PendingReferences, LinksReplaced, LinksKnown, ActiveLinks, Active
<1> QED
  BY <1>2, <1>3, <1>5, <1>8 DEF IInv

\* and every step keeps it.
LEMMA NextInvariant ==
  ASSUME IInv, [Next]_vars
  PROVE  IInv'
<1>1. CASE Next
  <2>1. TypeOK' /\ AllLocal'
    BY <1>1, TypesStay, LocalStays
  <2>2. NoOrphans'
    BY <1>1, NextRows, RowsStayHome, LinksStayHome DEF NoOrphans
  <2>3. ReferencesInHousehold' /\ PendingReferences' /\ OneShotPerKey'
    BY <1>1, ReferencesStay, PendingStay, KeysStay
  <2>4. LinksReplaced' /\ LinksKnown'
    BY <1>1, LinksStay, KnownStay
  <2> QED
    BY <2>1, <2>2, <2>3, <2>4 DEF IInv
<1>2. CASE UNCHANGED vars
  <2> USE <1>2 DEF vars
  <2>1. TypeOK' /\ AllLocal'
    BY DEF IInv, TypeOK, AllLocal
  <2>2. NoOrphans' /\ ReferencesInHousehold' /\ OneShotPerKey'
    BY DEF IInv, NoOrphans, ReferencesInHousehold, OneShotPerKey, Shots, VisibleTo, Active
  <2>3. PendingReferences' /\ LinksReplaced' /\ LinksKnown'
    BY DEF IInv, PendingReferences, Refs, VisibleTo, LinksReplaced, LinksKnown, ActiveLinks,
       Active
  <2> QED
    BY <2>1, <2>2, <2>3 DEF IInv
<1> QED
  BY <1>1, <1>2

LEMMA Invariant == Spec => []IInv
  BY InitInvariant, NextInvariant, PTL DEF Spec
\* Every variable keeps its type (get_db, the wrappers and the tables of the
\* household data).
THEOREM TypeCorrect == Spec => []TypeOK
<1>1. IInv => TypeOK
  BY DEF IInv
<1> QED
  BY <1>1, Invariant, PTL

\* Row-level security and the set_household_context of each transaction: what a
\* handler displays is of the household its caller was admitted to.
THEOREM OwnHouseholdShown == Spec => []ShowsOwnHousehold
<1>1. IInv => ShowsOwnHousehold
  BY DEF IInv, AllLocal, Local, AtHome, ShowsOwnHousehold
<1> QED
  BY <1>1, Invariant, PTL

\* hard_delete against requests that are under way: neither a row nor a usable
\* link outlives its household.
THEOREM NothingLeftBehind == Spec => []NoOrphans
<1>1. IInv => NoOrphans
  BY DEF IInv
<1> QED
  BY <1>1, Invariant, PTL

\* Catalog_ID and Hardware_ID, which no foreign key protects.
THEOREM ReferencesHold == Spec => []ReferencesInHousehold
<1>1. IInv => ReferencesInHousehold
  BY DEF IInv
<1> QED
  BY <1>1, Invariant, PTL

\* revoke_previous_guest_tokens and uq_guest_tokens_active_household, for any
\* number of admins at once.
THEOREM OneUsableLink == Spec => []LinksReplaced
<1>1. IInv => LinksReplaced
  BY DEF IInv
<1> QED
  BY <1>1, Invariant, PTL

-----------------------------------------------------------------------------
(* Rows stay in their household.                                           *)

\* The body of StaysInHousehold, for one row.
LEMMA RowChange ==
  ASSUME IInv, Next, NEW t \in Tables, NEW i \in Ids, row[t][i] # row'[t][i],
         NEW h \in Households, NEW e \in {row[t][i], row'[t][i]}, e # NULL, e.home = h
  PROVE  \/ h \in live \ live'
         \/ \E r \in Requests : req[r] # req'[r] /\ req'[r].home = h
<1>1. CASE \E r \in Requests : RowStep(r)
  <2>1. PICK r \in Requests : RowStep(r)
    BY <1>1
  <2>2. CASE Writes(r, t, i, row'[t][i])
    <3>1. row'[t][i].home = h
      BY <2>2 DEF Writes
    <3> QED
      BY <2>2, <3>1 DEF Writes
  <2>3. CASE t = "brew_log" /\ row'[t][i] = NULL /\ Removes(r, i)
    BY <2>3 DEF Removes, Shots
  <2> QED
    BY <2>1, <2>2, <2>3, RowFate
<1>2. CASE \E g \in Households : DeleteHousehold(g)
  <2>1. PICK g \in Households : DeleteHousehold(g)
    BY <1>2
  <2>2. row[t][i].home = g /\ row'[t][i] = NULL
    BY <2>1, CascadeRow
  <2> QED
    BY <2>1, <2>2 DEF DeleteHousehold
<1> QED
  BY <1>1, <1>2, NextRows

\* No stale read, no id another household uses and no retry makes a request
\* change a row of another household.
THEOREM RowsStay == Spec => StaysInHousehold
<1> DEFINE A == \A t \in Tables, i \in Ids : row[t][i] # row'[t][i] =>
       \A h \in Households :
         (\E e \in {row[t][i], row'[t][i]} : e # NULL /\ e.home = h) =>
            \/ h \in live \ live'
            \/ \E r \in Requests : req[r] # req'[r] /\ req'[r].home = h
<1>1. IInv /\ [Next]_vars => [A]_vars
  <2>1. IInv /\ Next => A
    BY RowChange
  <2> QED
    BY <2>1
<1>2. Spec => [][A]_vars
  BY <1>1, Invariant, PTL DEF Spec
<1> QED
  BY <1>2 DEF StaysInHousehold

-----------------------------------------------------------------------------
(* Idempotency keys.                                                       *)

\* A step that is not about a stored shot changes no verdict.
LEMMA VerdictStays ==
  ASSUME IInv, NEW r \in Requests, NEW q, Proceeds(r, q), q.answer \notin {"replayed", "conflict"}
  PROVE  \A p \in Requests : Verdict(req'[p]) = Verdict(req[p])
<1>1. req' = [req EXCEPT ![r] = q] /\ req[r].answer = NULL
  BY DEF Proceeds, IInv, AllLocal, Local, Committing
<1>2. NULL \notin {"replayed", "conflict"}
  BY DEF Answers
<1>3. Verdict(q) = NULL /\ Verdict(req[r]) = NULL
  BY <1>1, <1>2 DEF Verdict
<1> QED
  BY <1>1, <1>3 DEF IInv, TypeOK
\* A shot that another step stores, keeps or removes under a key.
IsStored(i, h, k) == Shots[i] # NULL /\ Shots[i].home = h /\ Shots[i].key = k

LEMMA StoredShots ==
  \A h, k : Stored(h, k) = {<<i, Shots[i].body>> : i \in {j \in Ids : IsStored(j, h, k)}}
  BY DEF Stored, IsStored

\* The same shots are the same pairs.
LEMMA SameStored ==
  ASSUME NEW h, NEW k,
         \A i \in Ids : /\ IsStored(i, h, k)' <=> IsStored(i, h, k)
                        /\ IsStored(i, h, k) => Shots'[i].body = Shots[i].body
  PROVE  Stored(h, k)' = Stored(h, k)
<1>1. Stored(h, k)' \subseteq Stored(h, k)
  BY DEF Stored, IsStored
<1>2. Stored(h, k) \subseteq Stored(h, k)'
  BY DEF Stored, IsStored
<1> QED
  BY <1>1, <1>2

\* A first shot under a key.
LEMMA FirstStored ==
  ASSUME IInv, NEW r \in Requests, NEW i \in Ids, NEW e \in Entry,
         Writes(r, "brew_log", i, e), Shots[i] = NULL
  PROVE  /\ e.home \in Households /\ e.body \in Bodies /\ e.key \in Keys \cup {NULL}
         /\ e.key \in Keys => Stored(e.home, e.key) = {}
                              /\ Stored(e.home, e.key)' = {<<i, e.body>>}
         /\ \A h \in Households, k \in Keys :
              h # e.home \/ k # e.key => Stored(h, k)' = Stored(h, k)
<1>1. e # NULL /\ e.home \in Households /\ e.body \in Bodies /\ e.key \in Keys \cup {NULL}
  BY DEF Entry
<1>2. \A j \in Ids : Shots'[j] = IF j = i THEN e ELSE Shots[j]
  BY PutRow DEF Writes, Shots, Tables
<1>3. ~KeyTaken(e)
  BY DEF Writes, Shots
<1>4. ASSUME e.key \in Keys
      PROVE  Stored(e.home, e.key) = {} /\ Stored(e.home, e.key)' = {<<i, e.body>>}
  <2>1. \A j \in Ids : ~IsStored(j, e.home, e.key)
    BY <1>3, <1>4 DEF KeyTaken, IsStored, Shots
  <2>2. \A j \in Ids : (Shots'[j] # NULL /\ Shots'[j].home = e.home /\ Shots'[j].key = e.key)
                         <=> j = i
    BY <1>1, <1>2, <2>1 DEF IsStored
  <2>3. Stored(e.home, e.key) = {}
    BY <2>1 DEF Stored, IsStored
  <2>4. Stored(e.home, e.key)'
          = {<<j, Shots'[j].body>> : j \in {l \in Ids : Shots'[l] # NULL /\ Shots'[l].home = e.home
                                                         /\ Shots'[l].key = e.key}}
    BY DEF Stored
  <2> QED
    BY <1>2, <2>2, <2>3, <2>4
<1>5. ASSUME NEW h \in Households, NEW k \in Keys, h # e.home \/ k # e.key
      PROVE  Stored(h, k)' = Stored(h, k)
  BY <1>1, <1>2, <1>5, SameStored DEF IsStored
<1> QED
  BY <1>1, <1>4, <1>5

\* A shot is removed with its key.
LEMMA RemovedStored ==
  ASSUME IInv, NEW r \in Requests, NEW i \in Ids, Removes(r, i)
  PROVE  /\ Shots[i].home \in Households
         /\ \A h \in Households, k \in Keys :
              Stored(h, k)' = IF h = Shots[i].home /\ k = Shots[i].key THEN {} ELSE Stored(h, k)
<1>1. Shots[i] # NULL /\ Shots[i] \in Entry
  BY StoredEntry DEF Removes, Shots, Tables
<1>2. \A j \in Ids : Shots'[j] = IF j = i THEN NULL ELSE Shots[j]
  BY PutRow DEF Removes, Shots, Tables
<1>3. ASSUME NEW h \in Households, NEW k \in Keys, h = Shots[i].home, k = Shots[i].key
      PROVE  Stored(h, k)' = {}
  <2>1. \A j \in Ids : IsStored(j, h, k) => j = i
    BY <1>1, <1>3 DEF IsStored, IInv, OneShotPerKey
  <2>2. \A j \in Ids : ~(Shots'[j] # NULL /\ Shots'[j].home = h /\ Shots'[j].key = k)
    BY <1>2, <2>1 DEF IsStored
  <2> QED
    BY <2>2 DEF Stored
<1>4. ASSUME NEW h \in Households, NEW k \in Keys, ~(h = Shots[i].home /\ k = Shots[i].key)
      PROVE  Stored(h, k)' = Stored(h, k)
  BY <1>2, <1>4, SameStored DEF IsStored
<1> QED
  BY <1>1, <1>3, <1>4 DEF Entry

\* All shots of a household are removed with it.
LEMMA CascadeStored ==
  ASSUME IInv, NEW g \in Households, DeleteHousehold(g), NEW h \in Households, NEW k \in Keys
  PROVE  Stored(h, k)' = IF h = g THEN {} ELSE Stored(h, k)
<1>1. \A j \in Ids : Shots'[j] = IF Shots[j] # NULL /\ Shots[j].home = g THEN NULL ELSE Shots[j]
  BY CascadeRow DEF Shots, Tables
<1>2. CASE h = g
  BY <1>1, <1>2 DEF Stored
<1>3. CASE h # g
  BY <1>1, <1>3, SameStored DEF IsStored
<1> QED
  BY <1>2, <1>3
\* A write of a shot that is there keeps its key and payload.
LEMMA RewrittenStored ==
  ASSUME IInv, NEW r \in Requests, NEW t \in Tables, NEW i \in Ids, NEW e \in Entry,
         Writes(r, t, i, e), t # "brew_log" \/ Shots[i] # NULL,
         NEW h \in Households, NEW k \in Keys
  PROVE  Stored(h, k)' = Stored(h, k)
<1>1. \A j \in Ids : Shots'[j] = IF t = "brew_log" /\ j = i THEN e ELSE Shots[j]
  BY PutRow DEF Writes, Shots, Tables
<1>2. t = "brew_log" => /\ e # NULL /\ Shots[i] # NULL /\ Shots[i].home = e.home
                        /\ Shots[i].key = e.key /\ Shots[i].body = e.body
  BY DEF Writes, Shots
<1> QED
  BY <1>1, <1>2, SameStored DEF IsStored

\* What KeyedShots sees of the shots and of the answers.
LEMMA KeyedStep ==
  ASSUME IInv, Next
  PROVE  Keyed!Next \/ UNCHANGED Keyed!vars
<1> DEFINE stored == [h \in Households |-> [k \in Keys |-> Stored(h, k)]]
           verdict == [r \in Requests |-> Verdict(req[r])]
<1>1. ASSUME \A h \in Households, k \in Keys : Stored(h, k)' = Stored(h, k)
      PROVE  stored' = stored
  BY <1>1
<1>2. ASSUME \A r \in Requests : Verdict(req'[r]) = Verdict(req[r])
      PROVE  verdict' = verdict
  BY <1>2
<1>3. ASSUME stored' = stored, verdict' = verdict
      PROVE  UNCHANGED Keyed!vars
  BY <1>3 DEF Keyed!vars
<1>4. CASE \E h \in Households : DeleteHousehold(h)
  <2>1. PICK g \in Households : DeleteHousehold(g)
    BY <1>4
  <2>2. verdict' = verdict
    BY <2>1, <1>2 DEF DeleteHousehold
  <2>3. \A h \in Households, k \in Keys :
          Stored(h, k)' = IF h = g THEN {} ELSE Stored(h, k)
    BY <2>1, CascadeStored
  <2>4. stored' = [stored EXCEPT ![g] = [k \in Keys |-> IF k \in Keys THEN {} ELSE @[k]]]
    BY <2>3
  <2>5. Keyed!Delete(g, Keys)
    BY <2>2, <2>4 DEF Keyed!Delete
  <2> QED
    BY <2>5 DEF Keyed!Next
<1>5. CASE \E r \in Requests : RowStep(r)
  <2>1. PICK r \in Requests : RowStep(r)
    BY <1>5
  <2>2. PICK q : Proceeds(r, q)
    BY <2>1 DEF RowStep
  <2>3. CASE q.answer \in {"replayed", "conflict"}
    <3>1. UNCHANGED row /\ q.home \in Households /\ q.new \in Entry /\ q.new.key \in Keys
      BY <2>2, <2>3 DEF Proceeds, Told
    <3>2. PICK i \in WithKey(q.home, q.new.key) :
                 (q.answer = "replayed") <=> SamePayload(i, q.new.body)
      BY <2>2, <2>3 DEF Proceeds, Told
    <3> DEFINE h == q.home
               k == q.new.key
               b == q.new.body
               v == [home |-> h, key |-> k, body |-> b, agrees |-> Shots[i].body = b]
    <3>3. b \in Bodies
      BY <3>1 DEF Entry
    <3>4. <<i, Shots[i].body>> \in stored[h][k]
      BY <3>1 DEF WithKey, VisibleTo, MayRead, Stored, Shots
    <3>5. Verdict(q) = v
      BY <2>3, <3>2 DEF Verdict, SamePayload
    <3>6. req' = [req EXCEPT ![r] = q] /\ req[r].answer = NULL
      BY <2>2 DEF Proceeds, IInv, AllLocal, Local, Committing
    <3>7. Verdict(req[r]) = NULL
      BY <3>6 DEF Verdict, Answers
    <3>8. verdict[r] = NULL /\ verdict' = [verdict EXCEPT ![r] = v]
      BY <3>5, <3>6, <3>7 DEF IInv, TypeOK
    <3>9. stored' = stored
      BY <3>1, <1>1 DEF Stored, Shots
    <3>10. Keyed!Tell(r, h, k, b)
      BY <3>4, <3>8, <3>9 DEF Keyed!Tell
    <3> QED
      BY <3>1, <3>3, <3>10 DEF Keyed!Next
  <2>4. CASE q.answer \notin {"replayed", "conflict"}
    <3>1. verdict' = verdict
      BY <1>2, <2>2, <2>4, VerdictStays
    <3>2. CASE UNCHANGED row
      BY <1>1, <1>3, <3>1, <3>2 DEF Stored, Shots
    <3>3. CASE \E t \in Tables, i \in Ids, e \in Entry : Writes(r, t, i, e)
      <4>1. PICK t \in Tables, i \in Ids, e \in Entry : Writes(r, t, i, e)
        BY <3>3
      <4>2. CASE t # "brew_log" \/ Shots[i] # NULL
        BY <1>1, <1>3, <3>1, <4>1, <4>2, RewrittenStored
      <4>3. CASE t = "brew_log" /\ Shots[i] = NULL
        <5>1. /\ e.home \in Households /\ e.body \in Bodies /\ e.key \in Keys \cup {NULL}
              /\ e.key \in Keys => Stored(e.home, e.key) = {}
                                   /\ Stored(e.home, e.key)' = {<<i, e.body>>}
              /\ \A h \in Households, k \in Keys :
                   h # e.home \/ k # e.key => Stored(h, k)' = Stored(h, k)
          BY <4>1, <4>3, FirstStored
        <5>2. CASE e.key = NULL
          BY <1>1, <1>3, <3>1, <5>1, <5>2
        <5>3. CASE e.key \in Keys
          <6>1. stored[e.home][e.key] = {}
            BY <5>1, <5>3
          <6>2. stored' = [stored EXCEPT ![e.home][e.key] = {<<i, e.body>>}]
            BY <5>1, <5>3
          <6>3. Keyed!Store(e.home, e.key, i, e.body)
            BY <3>1, <6>1, <6>2 DEF Keyed!Store
          <6> QED
            BY <5>1, <5>3, <6>3 DEF Keyed!Next
        <5> QED
          BY <5>1, <5>2, <5>3
      <4> QED
        BY <4>2, <4>3
    <3>4. CASE \E i \in Ids : Removes(r, i)
      <4>1. PICK i \in Ids : Removes(r, i)
        BY <3>4
      <4> DEFINE g == Shots[i].home
                 ks == {Shots[i].key} \cap Keys
      <4>2. g \in Households /\ \A h \in Households, k \in Keys :
              Stored(h, k)' = IF h = g /\ k \in ks THEN {} ELSE Stored(h, k)
        BY <4>1, RemovedStored
      <4> HIDE DEF g, ks
      <4>3. stored' = [stored EXCEPT ![g] = [k \in Keys |-> IF k \in ks THEN {} ELSE @[k]]]
        BY <4>2
      <4>4. Keyed!Delete(g, ks) /\ ks \in SUBSET Keys
        BY <3>1, <4>3 DEF Keyed!Delete, ks
      <4> QED
        BY <4>2, <4>4 DEF Keyed!Next
    <3> QED
      BY <2>1, <3>2, <3>3, <3>4 DEF RowStep
  <2> QED
    BY <2>3, <2>4
<1> QED
  BY <1>4, <1>5, NextRows

\* However first attempts, retries, deletions and failures overlap, the brew
\* log implements KeyedShots: uq_brew_log_household_idempotency_key, the look-ups
\* before and after a failed insertion, and the comparison of request hashes.
THEOREM KeysImplemented == Spec => ImplementsKeyedShots
<1>1. KitchenInit => Keyed!Init
  <2> SUFFICES ASSUME KitchenInit PROVE Keyed!Init
    OBVIOUS
  <2>1. \A i \in Ids : Shots[i] = NULL
    BY BeansStored DEF KitchenInit, Shots
  <2>2. \A h \in Households, k \in Keys : Stored(h, k) = {}
    BY <2>1 DEF Stored
  <2>3. Waiting.answer = NULL /\ NULL \notin {"replayed", "conflict"}
    BY DEF Waiting, Answers
  <2>4. \A r \in Requests : Verdict(req[r]) = NULL
    BY <2>3 DEF KitchenInit, Init, Verdict
  <2> QED
    BY <2>2, <2>4 DEF Keyed!Init
<1>2. IInv /\ [Next]_vars => [Keyed!Next]_(Keyed!vars)
  <2>1. CASE Next /\ IInv
    BY <2>1, KeyedStep
  <2>2. CASE UNCHANGED vars
    BY <2>2 DEF vars, Keyed!vars, Stored, Shots, Verdict
  <2> QED
    BY <2>1, <2>2
<1> QED
  BY <1>1, <1>2, Invariant, PTL DEF Spec, ImplementsKeyedShots, Keyed!Spec

-----------------------------------------------------------------------------
(* Separation of the households.                                           *)

\* A shelf of Shelves is what RowOf shows of the tables.
Shelf == [h \in Households |-> [t \in Tables |-> [i \in Ids |-> RowOf(h, t, i)]]]

\* A row that refers to one its household can see refers to its shelf.
LEMMA RefsOnShelf ==
  ASSUME NEW h \in Households, NEW t, NEW e, Refs(t, h, e)
  PROVE  /\ t = "inventory_bags" => e.ref \in Ids /\ Shelf[h]["catalog"][e.ref] # NULL
         /\ t = "maintenance_log" => e.ref \in Ids /\ Shelf[h]["hardware"][e.ref] # NULL
<1>1. ASSUME NEW u \in Tables, NEW i \in VisibleTo(h, u) PROVE i \in Ids /\ Shelf[h][u][i] # NULL
  BY <1>1 DEF VisibleTo, Shelf, RowOf, MayRead
<1> QED
  BY <1>1 DEF Refs, Tables

\* To change row i of table t from nothing or a row of g to e, nothing or a row
\* of g, is to change the shelf of g alone.
LEMMA OneShelf ==
  ASSUME IInv, NEW g \in Households, NEW t \in Tables, NEW i \in Ids, NEW e, Put(t, i, e),
         e # NULL => e.home = g, row[t][i] # NULL => row[t][i].home = g
  PROVE  Shelf' = [Shelf EXCEPT ![g][t][i] = e]
<1>1. \A u \in Tables, j \in Ids : row'[u][j] = IF u = t /\ j = i THEN e ELSE row[u][j]
  BY PutRow
<1>2. ASSUME NEW h \in Households, NEW u \in Tables, NEW j \in Ids
      PROVE  RowOf(h, u, j)' = IF h = g /\ u = t /\ j = i THEN e ELSE RowOf(h, u, j)
  BY <1>1 DEF RowOf, MayRead
<1>3. Shelf' = [h \in Households |-> [u \in Tables |-> [j \in Ids |->
                  IF h = g /\ u = t /\ j = i THEN e ELSE RowOf(h, u, j)]]]
  BY <1>2 DEF Shelf
<1>4. [Shelf EXCEPT ![g][t][i] = e]
        = [h \in Households |-> [u \in Tables |-> [j \in Ids |->
             IF h = g /\ u = t /\ j = i THEN e ELSE RowOf(h, u, j)]]]
  BY DEF Shelf
<1> QED
  BY <1>3, <1>4

\* The deletion of a household.
LEMMA DissolveStep ==
  ASSUME IInv, NEW g \in Households, DeleteHousehold(g)
  PROVE  Separate!Dissolve(g)
<1>1. ASSUME NEW h \in Households, NEW t \in Tables, NEW i \in Ids
      PROVE  RowOf(h, t, i)' = IF h = g THEN NULL ELSE RowOf(h, t, i)
  BY <1>1, CascadeRow DEF RowOf, MayRead
<1>2. Shelf' = [Shelf EXCEPT ![g] = [t \in Tables |-> [i \in Ids |-> NULL]]]
  BY <1>1 DEF Shelf
<1> QED
  BY <1>2 DEF Separate!Dissolve, Separate!Bare, Shelf, DeleteHousehold

\* A row that a request writes.
LEMMA KeepStep ==
  ASSUME IInv, NEW r \in Requests, NEW t \in Tables, NEW i \in Ids, NEW e \in Entry,
         Writes(r, t, i, e), UNCHANGED live
  PROVE  \E h \in Households : Separate!Keep(h, t, i, Shelf'[h][t][i])
<1> DEFINE g == e.home
<1>1. g \in Households /\ g \in live /\ e # NULL
  BY DEF Writes, Entry
<1>2. Shelf' = [Shelf EXCEPT ![g][t][i] = e]
  BY <1>1, OneShelf DEF Writes
<1>3. Shelf'[g][t][i] = e
  BY <1>1, <1>2 DEF Shelf
<1>4. /\ t = "inventory_bags" => e.ref \in Ids /\ Shelf[g]["catalog"][e.ref] # NULL
      /\ t = "maintenance_log" => e.ref \in Ids /\ Shelf[g]["hardware"][e.ref] # NULL
  BY <1>1, RefsOnShelf DEF Writes
<1>5. ASSUME t = "brew_log", Shelf[g][t][i] # NULL
      PROVE  e.key = Shelf[g][t][i].key /\ e.body = Shelf[g][t][i].body
  <2>1. row[t][i] # NULL /\ Shelf[g][t][i] = row[t][i]
    BY <1>1, <1>5 DEF Shelf, RowOf, MayRead
  <2> QED
    BY <1>5, <2>1 DEF Writes
<1>6. Separate!Keep(g, t, i, e)
  BY <1>1, <1>2, <1>4, <1>5
     DEF Separate!Keep, Separate!Has, Separate!Set, Shelf
<1> QED
  BY <1>1, <1>3, <1>6

\* A shot that is deleted.
LEMMA DiscardStep ==
  ASSUME IInv, NEW r \in Requests, NEW i \in Ids, Removes(r, i), UNCHANGED live
  PROVE  \E h \in Households : Separate!Discard(h, i)
<1> DEFINE g == Shots[i].home
<1>1. "brew_log" \in Tables /\ Shots[i] = row["brew_log"][i] /\ Shots[i] # NULL
  BY DEF Tables, Shots, Removes
<1>2. g \in Households /\ g \in live
  BY <1>1, StoredEntry DEF IInv, NoOrphans, Entry
<1>3. Shelf' = [Shelf EXCEPT ![g]["brew_log"][i] = NULL]
  BY <1>1, <1>2, OneShelf DEF Removes
<1>4. Shelf[g]["brew_log"][i] # NULL
  BY <1>1, <1>2 DEF Shelf, RowOf, MayRead
<1>5. Separate!Discard(g, i)
  BY <1>2, <1>3, <1>4 DEF Separate!Discard, Separate!Has, Separate!Set, Shelf
<1> QED
  BY <1>2, <1>5

\* Shared tables, ids that are unique over all households, stale reads and commits
\* inside a request leave each household a shelf of its own: row-level security,
\* the foreign keys, and what handlers check before they write implement Shelves.
THEOREM ShelvesImplemented == Spec => ImplementsShelves
<1>1. KitchenInit => Separate!Init
  <2> SUFFICES ASSUME KitchenInit, Init PROVE Separate!Init
    BY DEF KitchenInit
  <2>1. ASSUME NEW h \in Households, NEW t \in Tables, NEW i \in Ids
        PROVE  RowOf(h, t, i) \in Entry \cup {NULL}
    <3>1. row[t][i] \in Entry \cup {NULL}
      BY BeansStored
    <3> QED
      BY <3>1 DEF RowOf
  <2>2. ASSUME NEW h \in Households, NEW t \in Tables \ {"catalog"}, NEW i \in Ids
        PROVE  RowOf(h, t, i) = NULL
    <3>1. row[t][i] = NULL
      BY BeansStored DEF Tables
    <3> QED
      BY <3>1 DEF RowOf
  <2>3. live = Households
    BY DEF KitchenInit, Init
  <2>4. \A h \in Households, t \in Tables \ {"catalog"} :
          [i \in Ids |-> RowOf(h, t, i)] = [i \in Ids |-> NULL]
    BY <2>2
  <2> QED
    BY <2>1, <2>3, <2>4 DEF Separate!Init, Separate!Bare
<1>2. IInv /\ [Next]_vars => [Separate!Next]_(Separate!vars)
  <2>1. ASSUME IInv, Next PROVE Separate!Next \/ UNCHANGED Separate!vars
    <3>1. ASSUME NEW h \in Households, DeleteHousehold(h) PROVE Separate!Next
      BY <2>1, <3>1, DissolveStep DEF Separate!Next
    <3>2. ASSUME NEW r \in Requests, RowStep(r) PROVE Separate!Next \/ UNCHANGED Separate!vars
      <4>1. live' = live
        BY <3>2 DEF RowStep
      <4>2. CASE UNCHANGED row
        BY <4>1, <4>2 DEF Separate!vars, RowOf, MayRead
      <4>3. CASE \E t \in Tables, i \in Ids, e \in Entry : Writes(r, t, i, e)
        BY <2>1, <4>1, <4>3, KeepStep DEF Separate!Next, Shelf
      <4>4. CASE \E i \in Ids : Removes(r, i)
        BY <2>1, <4>1, <4>4, DiscardStep DEF Separate!Next
      <4> QED
        BY <3>2, <4>2, <4>3, <4>4 DEF RowStep
    <3> QED
      BY <2>1, <3>1, <3>2, NextRows
  <2>2. CASE UNCHANGED vars
    BY <2>2 DEF vars, Separate!vars, RowOf, MayRead
  <2> QED
    BY <2>1, <2>2
<1> QED
  BY <1>1, <1>2, Invariant, PTL DEF Spec, ImplementsShelves, Separate!Spec
-----------------------------------------------------------------------------
(* What has been committed is there, or has been replaced.                 *)

\* The row whose content request q is sure of: the one it has written, or the
\* one it has read and is about to change.
Claim(q) == IF q.wrote THEN q.new ELSE IF q.step = "writing" THEN q.seen ELSE NULL

Single(q) ==
  /\ q.step = "deleting" => q.new = NULL /\ q.op = "edit" /\ q.table = "brew_log"
  /\ q.op = "feedback" => q.new = NULL
  /\ Claim(q) # NULL => q.id \in Ids

Backed(r, q) ==
  Claim(q) # NULL /\ q.home \in live =>
    Stands(q, Claim(q)) \/ \E s \in Requests \ {r} : Replaced(req[s], q)

ClaimsInv == \A r \in Requests : Single(req[r]) /\ Backed(r, req[r])

\* What a step of request r, after which it is p, may do to row i of table t.
Spares(p, t, i) ==
  \/ row'[t][i] = row[t][i] \/ row[t][i] = NULL
  \/ row'[t][i] # NULL /\ Written(row'[t][i]) = Written(row[t][i])
  \/ Replaced(p, [home |-> row[t][i].home, table |-> t, id |-> i])

Tidy(r, p) ==
  /\ req' = [req EXCEPT ![r] = p] /\ UNCHANGED live
  /\ \A t \in Tables, i \in Ids : Spares(p, t, i)
  /\ \A q : Replaced(req[r], q) => Replaced(p, q)
  /\ Single(p)
  /\ Claim(p) # NULL /\ p.home \in live =>
       \/ row'[p.table][p.id] # NULL /\ Written(row'[p.table][p.id]) = Written(Claim(p))
       \/ \E s \in Requests \ {r} : Replaced(req[s], p)

\* What the claim of a request is about.
LEMMA ClaimHome ==
  ASSUME IInv, NEW r \in Requests, Claim(req[r]) # NULL
  PROVE  Claim(req[r]).home = req[r].home /\ req[r].table \in Tables
  BY DEF IInv, AllLocal, Local, AtHome, Claim, Request

\* One row that others rely on.
LEMMA OthersBacked ==
  ASSUME IInv, ClaimsInv, NEW r \in Requests, NEW p, Tidy(r, p), NEW s \in Requests \ {r}
  PROVE  Single(req'[s]) /\ Backed(s, req[s])'
<1> DEFINE q == req[s]
           c == Claim(q)
           t == q.table
           i == q.id
<1>1. req'[s] = q /\ req'[r] = p /\ live' = live
  BY DEF Tidy, IInv, TypeOK
<1>2. Single(q) /\ Backed(s, q)
  BY DEF ClaimsInv
<1>3. ASSUME c # NULL, q.home \in live
      PROVE  \/ row'[t][i] # NULL /\ Written(row'[t][i]) = Written(c)
             \/ \E u \in Requests \ {s} : Replaced(req'[u], q)
  <2>1. c.home = q.home /\ t \in Tables /\ i \in Ids
    BY <1>2, <1>3, ClaimHome DEF Single
  <2>2. CASE \E u \in Requests \ {s} : Replaced(req[u], q)
    <3>1. PICK u \in Requests \ {s} : Replaced(req[u], q)
      BY <2>2
    <3>2. CASE u = r
      BY <1>1, <3>1, <3>2 DEF Tidy
    <3>3. CASE u # r
      <4>1. req'[u] = req[u]
        BY <3>3 DEF Tidy, IInv, TypeOK
      <4> QED
        BY <3>1, <4>1
    <3> QED
      BY <3>2, <3>3
  <2>3. CASE Stands(q, c)
    <3>1. row[t][i] # NULL /\ Written(row[t][i]) = Written(c)
      BY <2>3 DEF Stands
    <3>2. row[t][i].home = q.home
      BY <2>1, <3>1 DEF Written
    <3>3. Spares(p, t, i)
      BY <2>1 DEF Tidy
    <3>4. CASE Replaced(p, [home |-> row[t][i].home, table |-> t, id |-> i])
      <4>1. Replaced(p, q)
        BY <3>2, <3>4 DEF Replaced
      <4> QED
        BY <1>1, <4>1
    <3> HIDE DEF c
    <3> QED
      BY <3>1, <3>3, <3>4 DEF Spares
  <2> QED
    BY <1>2, <1>3, <2>2, <2>3 DEF Backed
<1> QED
  BY <1>1, <1>2, <1>3 DEF Backed, Stands

LEMMA TidyKeeps ==
  ASSUME IInv, ClaimsInv, NEW r \in Requests, NEW p, Tidy(r, p)
  PROVE  ClaimsInv'
<1>1. \A s \in Requests \ {r} : Single(req'[s]) /\ Backed(s, req[s])'
  BY OthersBacked
<1>2. req'[r] = p /\ live' = live /\ \A s \in Requests \ {r} : req'[s] = req[s]
  BY DEF Tidy, IInv, TypeOK
<1>3. Single(req'[r]) /\ Backed(r, req[r])'
  BY <1>2 DEF Tidy, Backed, Stands
<1> QED
  BY <1>1, <1>3 DEF ClaimsInv

\* Steps of requests that have committed nothing, and have nothing to change.
LEMMA QuietTidy ==
  ASSUME IInv, NEW r \in Requests, ~req[r].wrote, NEW p, req' = [req EXCEPT ![r] = p],
         UNCHANGED <<live, row>>, ~p.wrote, p.step # "writing",
         p.step = "deleting" => p.new = NULL /\ p.op = "edit" /\ p.table = "brew_log",
         p.op = "feedback" => p.new = NULL
  PROVE  Tidy(r, p)
  BY DEF Tidy, Spares, Replaced, Single, Claim

\* Steps that keep what the request has written.
SameWrite(p, q) ==
  /\ p.wrote = q.wrote /\ p.op = q.op /\ p.home = q.home /\ p.table = q.table
  /\ p.id = q.id /\ p.new = q.new /\ p.seen = q.seen

LEMMA MovedTidy ==
  ASSUME IInv, ClaimsInv, NEW r \in Requests, NEW p, req' = [req EXCEPT ![r] = p],
         UNCHANGED live, SameWrite(p, req[r]), p.step \notin {"writing", "deleting"},
         \A t \in Tables, i \in Ids : 
           row'[t][i] = row[t][i] \/ (row[t][i] # NULL /\ row'[t][i] # NULL /\ Written(row'[t][i]) = Written(row[t][i]))
  PROVE  Tidy(r, p)
<1> DEFINE q == req[r]
<1>1. Single(q) /\ Backed(r, q)
  BY DEF ClaimsInv
<1>2. Claim(p) = IF p.wrote THEN p.new ELSE NULL
  BY DEF Claim
<1>3. Single(p)
  BY <1>1, <1>2 DEF Single, Claim, SameWrite
<1>4. \A x : Replaced(q, x) => Replaced(p, x)
  BY DEF Replaced, SameWrite
<1>5. ASSUME Claim(p) # NULL, p.home \in live
      PROVE  \/ row'[p.table][p.id] # NULL /\ Written(row'[p.table][p.id]) = Written(Claim(p))
             \/ \E s \in Requests \ {r} : Replaced(req[s], p)
  <2>1. Claim(p) = Claim(q) /\ Claim(q) # NULL /\ q.home \in live
    BY <1>2, <1>5 DEF Claim, SameWrite
  <2>2. q.table \in Tables /\ q.id \in Ids
    BY <1>1, <2>1, ClaimHome DEF Single
  <2>3. \A s : Replaced(s, q) => Replaced(s, p)
    BY DEF Replaced, SameWrite
  <2>4. Stands(q, Claim(q)) \/ \E s \in Requests \ {r} : Replaced(req[s], q)
    BY <1>1, <2>1 DEF Backed
  <2>5. ASSUME Stands(q, Claim(q))
        PROVE  row'[p.table][p.id] # NULL /\ Written(row'[p.table][p.id]) = Written(Claim(p))
    <3>1. row[q.table][q.id] # NULL /\ Written(row[q.table][q.id]) = Written(Claim(p))
      BY <2>1, <2>5 DEF Stands
    <3>2. p.table = q.table /\ p.id = q.id
      BY DEF SameWrite
    <3> QED
      BY <2>2, <3>1, <3>2
  <2> QED
    BY <2>3, <2>4, <2>5
<1>6. \A t \in Tables, i \in Ids : Spares(p, t, i)
  BY DEF Spares
<1> QED
  BY <1>3, <1>4, <1>5, <1>6 DEF Tidy

\* An answer.
LEMMA AnswerTidy ==
  ASSUME IInv, ClaimsInv, NEW r \in Requests, NEW a, Answer(r, a), UNCHANGED <<live, row>>
  PROVE  \E p : Tidy(r, p)
<1> DEFINE p == Answered(req[r], a)
<1>1. req[r] \in Request /\ req' = [req EXCEPT ![r] = p]
  BY DEF Answer, Become, IInv, TypeOK
<1>2. SameWrite(p, req[r]) /\ p.step = "answered"
  BY <1>1 DEF SameWrite, Answered, Request
<1> HIDE DEF p
<1>3. Tidy(r, p)
  BY <1>1, <1>2, MovedTidy
<1> QED
  BY <1>3

LEMMA GotoTidy ==
  ASSUME IInv, ClaimsInv, NEW r \in Requests, NEW s, s \notin {"writing", "deleting"},
         Goto(r, s), UNCHANGED <<live, row>>
  PROVE  \E p : Tidy(r, p)
<1> DEFINE p == [req[r] EXCEPT !.step = s]
<1>1. req[r] \in Request /\ req' = [req EXCEPT ![r] = p]
  BY DEF Goto, IInv, TypeOK
<1>2. SameWrite(p, req[r]) /\ p.step = s
  BY <1>1 DEF SameWrite, Request
<1> HIDE DEF p
<1>3. Tidy(r, p)
  BY <1>1, <1>2, MovedTidy
<1> QED
  BY <1>3

\* The first step of a request.
LEMMA NewQuiet ==
  ASSUME IInv, NEW r \in Requests, req[r].step = "new"
  PROVE  ~req[r].wrote
  BY DEF IInv, AllLocal, Local, Committing, Silent

LEMMA AdmittedTidy ==
  ASSUME IInv, NEW r \in Requests, req[r].step = "new", NEW op, NEW s, NEW h, NEW t, NEW i, NEW e,
         Become(r, Admitted(op, s, h, t, i, e)), UNCHANGED <<live, row>>,
         s \notin {"writing", "deleting"} \/ (s = "deleting" /\ e = NULL /\ op = "edit" /\ t = "brew_log"),
         op = "feedback" => e = NULL
  PROVE  \E p : Tidy(r, p)
<1> DEFINE p == Admitted(op, s, h, t, i, e)
<1>1. ~p.wrote /\ p.step = s /\ p.new = e /\ p.op = op /\ p.table = t
  BY DEF Admitted, Waiting
<1>2. req' = [req EXCEPT ![r] = p]
  BY DEF Become
<1> HIDE DEF p
<1>3. Tidy(r, p)
  BY <1>1, <1>2, NewQuiet, QuietTidy
<1> QED
  BY <1>3

LEMMA RefuseTidy ==
  ASSUME IInv, NEW r \in Requests, req[r].step = "new", NEW h, Refuse(r, h),
         UNCHANGED <<live, row>>
  PROVE  \E p : Tidy(r, p)
<1> DEFINE p == Answered([Waiting EXCEPT !.home = h], "refused")
<1>1. ~p.wrote /\ p.step = "answered" /\ p.op = "read"
  BY DEF Answered, Waiting
<1>2. req' = [req EXCEPT ![r] = p]
  BY DEF Refuse, Become
<1> HIDE DEF p
<1>3. Tidy(r, p)
  BY <1>1, <1>2, NewQuiet, QuietTidy
<1> QED
  BY <1>3

LEMMA ReadTidy ==
  ASSUME IInv, NEW r \in Requests, NEW h, NEW ts, Read(r, h, ts)
  PROVE  \E p : Tidy(r, p)
<1> DEFINE s == Displayed(h, ts)
           p == [Answered(Waiting, "ok") EXCEPT !.home = h, !.shown = s]
<1> HIDE DEF s
<1>1. ~p.wrote /\ p.step = "answered" /\ p.op = "read"
  BY DEF Answered, Waiting
<1>2. req' = [req EXCEPT ![r] = p] /\ req[r].step = "new" /\ UNCHANGED <<live, row>>
  BY DEF Read, Become, MayBegin, s
<1> HIDE DEF p
<1>3. Tidy(r, p)
  BY <1>1, <1>2, NewQuiet, QuietTidy
<1> QED
  BY <1>3

LEMMA ReadOneTidy ==
  ASSUME IInv, NEW r \in Requests, NEW h, NEW t, NEW i, NEW ts, ReadOne(r, h, t, i, ts)
  PROVE  \E p : Tidy(r, p)
  BY ReadTidy, RefuseTidy DEF ReadOne, MayBegin
-----------------------------------------------------------------------------
(* The same, action by action.                                             *)

LEMMA CreateShotTidy ==
  ASSUME IInv, NEW r \in Requests, NEW h \in Households, NEW k \in Keys \cup {NULL},
         NEW b \in Bodies, CreateShot(r, h, k, b)
  PROVE  \E p : Tidy(r, p)
<1> DEFINE e == NewEntry(h, b, k, NULL)
           q == Admitted("create", "numbering", h, "brew_log", NULL, e)
<1>1. req[r].step = "new" /\ UNCHANGED <<live, row>>
  BY DEF CreateShot, MayBegin
<1>2. CASE Become(r, q)
  BY <1>1, <1>2, AdmittedTidy
<1>3. ASSUME NEW i, Become(r, Replay(q, i))
      PROVE  \E p : Tidy(r, p)
  <2> DEFINE p == Replay(q, i)
  <2>3. ~p.wrote /\ p.step = "answered" /\ p.op = "create"
    BY DEF Replay, Answered, Admitted, Waiting
  <2>4. req' = [req EXCEPT ![r] = p]
    BY <1>3 DEF Become
  <2> HIDE DEF p
  <2>5. Tidy(r, p)
    BY <1>1, <2>3, <2>4, NewQuiet, QuietTidy
  <2> QED
    BY <2>5
<1> QED
  BY <1>2, <1>3 DEF CreateShot

LEMMA NumberShotTidy ==
  ASSUME IInv, NEW r \in Requests, NumberShot(r)
  PROVE  \E p : Tidy(r, p)
<1>1. PICK i \in Ids : req' = [req EXCEPT ![r].step = "inserting", ![r].id = i]
  BY DEF NumberShot
<1> DEFINE p == [req[r] EXCEPT !.step = "inserting", !.id = i]
<1>2. /\ req[r] \in Request /\ ~req[r].wrote /\ req[r].op = "create" /\ UNCHANGED <<live, row>>
  BY DEF NumberShot, IInv, AllLocal, Local, Committing, Silent
<1>3. ~p.wrote /\ p.step = "inserting" /\ p.op = "create"
  BY <1>2 DEF Request
<1>4. req' = [req EXCEPT ![r] = p]
  BY <1>1
<1> HIDE DEF p
<1>5. Tidy(r, p)
  BY <1>2, <1>3, <1>4, QuietTidy
<1> QED
  BY <1>5

\* An insertion: the row is as it is to be, and was not there before.
LEMMA InsertedTidy ==
  ASSUME IInv, NEW r \in Requests, ~req[r].wrote, NEW p, req' = [req EXCEPT ![r] = p],
         UNCHANGED live, p.wrote, p.new = req[r].new, p.id = req[r].id, p.table = req[r].table,
         p.step \notin {"writing", "deleting"}, p.op # "feedback", req[r].table \in Tables,
         req[r].id \in Ids, row[req[r].table][req[r].id] = NULL, req[r].new # NULL,
         Put(req[r].table, req[r].id, req[r].new)
  PROVE  Tidy(r, p)
<1> DEFINE t == req[r].table
           i == req[r].id
<1>1. \A u \in Tables, j \in Ids :
        row'[u][j] = IF u = t /\ j = i THEN req[r].new ELSE row[u][j]
  <2> DEFINE e == req[r].new
  <2>1. t \in Tables /\ i \in Ids /\ Put(t, i, e)
    OBVIOUS
  <2> HIDE DEF t, i, e
  <2>2. \A u \in Tables, j \in Ids : row'[u][j] = IF u = t /\ j = i THEN e ELSE row[u][j]
    BY <2>1 DEF IInv, TypeOK, Put
  <2> QED
    BY <2>2 DEF t, i, e
<1>2. row'[p.table][p.id] # NULL /\ row'[p.table][p.id] = Claim(p)
  <2>1. row'[t][i] = req[r].new
    BY <1>1
  <2>2. Claim(p) = req[r].new /\ p.table = t /\ p.id = i
    BY DEF Claim
  <2> QED
    BY <2>1, <2>2
<1>3. \A u \in Tables, j \in Ids : Spares(p, u, j)
  BY <1>1 DEF Spares
<1>4. Single(p)
  BY DEF Single
<1> QED
  BY <1>2, <1>3, <1>4 DEF Tidy, Replaced

LEMMA InsertShotTidy ==
  ASSUME IInv, ClaimsInv, NEW r \in Requests, InsertShot(r)
  PROVE  \E p : Tidy(r, p)
<1>1. /\ req[r] \in Request /\ req[r].step = "inserting" /\ ~req[r].wrote
      /\ req[r].table = "brew_log" /\ req[r].id \in Ids /\ req[r].new \in Entry
      /\ req[r].op = "create" /\ UNCHANGED live
  BY DEF InsertShot, IInv, AllLocal, Local, Ready, Committing, Silent
<1>2. CASE Allowed(r, "brew_log", req[r].id, req[r].new)
  <2> DEFINE p == [req[r] EXCEPT !.step = "feeding", !.wrote = TRUE]
  <2>1. Put("brew_log", req[r].id, req[r].new)
        /\ req' = [req EXCEPT ![r].step = "feeding", ![r].wrote = TRUE]
    BY <1>2 DEF InsertShot
  <2>2. req' = [req EXCEPT ![r] = p]
    BY <2>1
  <2>3. /\ p.wrote /\ p.new = req[r].new /\ p.id = req[r].id /\ p.table = req[r].table
        /\ p.step = "feeding" /\ p.op = "create"
    BY <1>1 DEF Request
  <2>4. row["brew_log"][req[r].id] = NULL
    BY <1>2 DEF Allowed
  <2> HIDE DEF p
  <2>5. Tidy(r, p)
    BY <1>1, <2>1, <2>2, <2>3, <2>4, InsertedTidy DEF Tables
  <2> QED
    BY <2>5
<1>3. CASE ~Allowed(r, "brew_log", req[r].id, req[r].new)
  <2>1. UNCHANGED row /\ (Answer(r, "failed") \/ Goto(r, "retried"))
    BY <1>3 DEF InsertShot, WriteError
  <2> QED
    BY <1>1, <2>1, AnswerTidy, GotoTidy
<1> QED
  BY <1>2, <1>3

LEMMA RetryShotTidy ==
  ASSUME IInv, ClaimsInv, NEW r \in Requests, RetryShot(r)
  PROVE  \E p : Tidy(r, p)
<1>1. /\ req[r] \in Request /\ ~req[r].wrote /\ req[r].op = "create" /\ UNCHANGED <<live, row>>
  BY DEF RetryShot, IInv, AllLocal, Local, Committing, Silent
<1>2. ASSUME NEW i, Become(r, Replay(req[r], i))
      PROVE  \E p : Tidy(r, p)
  <2> DEFINE p == Replay(req[r], i)
  <2>1. ~p.wrote /\ p.step = "answered" /\ p.op = "create"
    BY <1>1 DEF Replay, Answered, Request
  <2>2. req' = [req EXCEPT ![r] = p]
    BY <1>2 DEF Become
  <2> HIDE DEF p
  <2>3. Tidy(r, p)
    BY <1>1, <2>1, <2>2, QuietTidy
  <2> QED
    BY <2>3
<1>3. Answer(r, "failed") \/ \E i : Become(r, Replay(req[r], i))
  BY DEF RetryShot
<1> QED
  BY <1>1, <1>2, <1>3, AnswerTidy

LEMMA LookUpShotTidy ==
  ASSUME IInv, NEW r \in Requests, NEW h \in Households, NEW i \in Ids,
         GenerateFeedback(r, h, i) \/ CheckDelete(r, h, i)
  PROVE  \E p : Tidy(r, p)
<1>1. req[r].step = "new" /\ UNCHANGED <<live, row>>
  BY DEF GenerateFeedback, CheckDelete, MayBegin
<1>2. \/ Become(r, Admitted("feedback", "feeding", h, "brew_log", i, NULL))
      \/ Become(r, Admitted("edit", "deleting", h, "brew_log", i, NULL))
      \/ Refuse(r, h)
  BY DEF GenerateFeedback, CheckDelete
<1> QED
  BY <1>1, <1>2, AdmittedTidy, RefuseTidy

\* A shot of which something changes that Written does not name.
LEMMA TouchedShot ==
  ASSUME IInv, NEW i \in Ids, Shots[i] # NULL, NEW e, e \in Entry,
         Written(e) = Written(Shots[i]), Put("brew_log", i, e)
  PROVE  \A t \in Tables, j \in Ids :
           \/ row'[t][j] = row[t][j]
           \/ /\ row[t][j] # NULL /\ row'[t][j] # NULL
              /\ Written(row'[t][j]) = Written(row[t][j])
<1>1. \A t \in Tables, j \in Ids :
        row'[t][j] = IF t = "brew_log" /\ j = i THEN e ELSE row[t][j]
  BY PutRow DEF Tables
<1>2. e # NULL
  OBVIOUS
<1> QED
  BY <1>1, <1>2 DEF Shots

LEMMA StoreFeedbackTidy ==
  ASSUME IInv, ClaimsInv, NEW r \in Requests, StoreFeedback(r)
  PROVE  \E p : Tidy(r, p)
<1> DEFINE i == req[r].id
           e == [Shots[i] EXCEPT !.feedback = TRUE]
           there == i \in Visible(r, "brew_log")
           w == req[r].wrote \/ there
<1>1. req[r] \in Request /\ req[r].step = "asking" /\ AllLocal /\ UNCHANGED live
  BY DEF StoreFeedback, IInv, TypeOK
<1>2. i \in Ids /\ ((req[r].op = "create" /\ req[r].wrote) \/ (req[r].op = "feedback" /\ ~req[r].wrote))
  BY <1>1, FeedbackFacts
<1>3. \A t \in Tables, j \in Ids :
        \/ row'[t][j] = row[t][j]
        \/ /\ row[t][j] # NULL /\ row'[t][j] # NULL
           /\ Written(row'[t][j]) = Written(row[t][j])
  <2>1. CASE there
    <3>1. Shots[i] \in Entry /\ Shots[i] # NULL
      BY <1>2, <2>1, OwnRow DEF Shots, Tables
    <3>2. e \in Entry /\ Written(e) = Written(Shots[i])
      BY <3>1 DEF Entry, Written
    <3>3. Put("brew_log", i, e)
      BY <2>1 DEF StoreFeedback
    <3> HIDE DEF e
    <3> QED
      BY <1>2, <3>1, <3>2, <3>3, TouchedShot
  <2>2. CASE ~there
    BY <2>2 DEF StoreFeedback
  <2> QED
    BY <2>1, <2>2
<1>4. PICK a \in {"created", "ok", "timeout"} :
        req' = [req EXCEPT ![r] = [Answered(req[r], a) EXCEPT !.wrote = @ \/ there]]
  BY DEF StoreFeedback, Become
<1> DEFINE p == [Answered(req[r], a) EXCEPT !.wrote = @ \/ there]
<1>5. /\ p.wrote = w /\ p.op = req[r].op /\ p.home = req[r].home /\ p.table = req[r].table
      /\ p.id = i /\ p.new = req[r].new /\ p.seen = req[r].seen /\ p.step = "answered"
  BY <1>1 DEF Answered, Request
<1>6. there \in BOOLEAN /\ req[r].wrote \in BOOLEAN
  BY <1>1 DEF Request
<1> HIDE DEF there, p
<1>7. CASE req[r].op = "create"
  <2>1. p.wrote = req[r].wrote
    BY <1>2, <1>5, <1>6, <1>7
  <2>2. SameWrite(p, req[r])
    BY <1>5, <2>1 DEF SameWrite
  <2>3. Tidy(r, p)
    BY <1>1, <1>3, <1>4, <1>5, <2>2, MovedTidy DEF p
  <2> QED
    BY <2>3
<1>8. CASE req[r].op = "feedback"
  <2>1. p.new = NULL
    BY <1>5, <1>8 DEF ClaimsInv, Single
  <2>2. Claim(p) = NULL
    BY <1>5, <2>1 DEF Claim
  <2>3. Single(p)
    BY <1>5, <2>1, <2>2 DEF Single
  <2>4. \A t \in Tables, j \in Ids : Spares(p, t, j)
    BY <1>3 DEF Spares
  <2>5. \A q : ~Replaced(req[r], q)
    BY <1>2, <1>8 DEF Replaced
  <2>6. Tidy(r, p)
    BY <1>1, <1>4, <2>2, <2>3, <2>4, <2>5 DEF Tidy, p
  <2> QED
    BY <2>6
<1> QED
  BY <1>2, <1>7, <1>8

LEMMA FeedbackTidy ==
  ASSUME IInv, ClaimsInv, NEW r \in Requests, ReadForFeedback(r) \/ GiveUpFeedback(r)
  PROVE  \E p : Tidy(r, p)
<1>1. /\ UNCHANGED <<live, row>>
      /\ \/ Goto(r, "asking") \/ Answer(r, WithoutFeedback(r))
         \/ Answer(r, "created") \/ Answer(r, "timeout")
  BY DEF ReadForFeedback, GiveUpFeedback
<1> QED
  BY <1>1, GotoTidy, AnswerTidy

LEMMA PatchShotTidy ==
  ASSUME IInv, NEW r \in Requests, NEW h \in Households, NEW i \in Ids, PatchShot(r, h, i)
  PROVE  \E p : Tidy(r, p)
<1> DEFINE s == {h} \cup Displayed(NULL, Tables)
           p == [Answered(Waiting, "ok") EXCEPT !.home = h, !.wrote = TRUE, !.shown = s]
           e == [Shots[i] EXCEPT !.edited = TRUE]
<1>1. req[r].step = "new" /\ UNCHANGED live
  BY DEF PatchShot, MayBegin
<1>2. CASE i \in VisibleTo(h, "brew_log")
  <2>1. Put("brew_log", i, e) /\ req' = [req EXCEPT ![r] = p]
    BY <1>2 DEF PatchShot, Become
  <2>2. RowsOK
    BY DEF IInv, TypeOK, RowsOK
  <2>3. Shots[i] \in Entry /\ Shots[i] # NULL
    BY <1>2, <2>2, VisibleEntry DEF Shots, Tables
  <2>4. e \in Entry /\ Written(e) = Written(Shots[i])
    BY <2>3 DEF Entry, Written
  <2> HIDE DEF e
  <2>5. \A t \in Tables, j \in Ids : Spares(p, t, j)
    BY <2>1, <2>3, <2>4, TouchedShot DEF Spares
  <2> HIDE DEF s
  <2>6. p.new = NULL /\ p.wrote /\ p.step = "answered"
    BY DEF Answered, Waiting
  <2> HIDE DEF p
  <2>7. Claim(p) = NULL
    BY <2>6 DEF Claim
  <2>8. Single(p)
    BY <2>6, <2>7 DEF Single
  <2>9. Tidy(r, p)
    BY <1>1, <2>1, <2>5, <2>7, <2>8, NewQuiet DEF Tidy, Replaced
  <2> QED
    BY <2>9
<1>3. CASE i \notin VisibleTo(h, "brew_log")
  BY <1>1, <1>3, RefuseTidy DEF PatchShot
<1> QED
  BY <1>2, <1>3

LEMMA DeleteShotTidy ==
  ASSUME IInv, ClaimsInv, NEW r \in Requests, DeleteShot(r)
  PROVE  \E p : Tidy(r, p)
<1> DEFINE i == req[r].id
           there == i \in Visible(r, "brew_log")
           p == [Answered(req[r], "ok") EXCEPT !.wrote = there]
<1>1. /\ req[r] \in Request /\ req[r].step = "deleting" /\ ~req[r].wrote /\ i \in Ids
      /\ UNCHANGED live /\ req' = [req EXCEPT ![r] = p]
  BY DEF DeleteShot, IInv, AllLocal, Local, Committing, Ready, Silent, Become
<1>2. req[r].new = NULL /\ req[r].op = "edit" /\ req[r].table = "brew_log"
  BY <1>1 DEF ClaimsInv, Single
<1>3. /\ p.wrote = there /\ p.op = "edit" /\ p.home = req[r].home /\ p.table = "brew_log"
      /\ p.id = i /\ p.new = NULL /\ p.step = "answered"
  BY <1>1, <1>2 DEF Answered, Request
<1> HIDE DEF p
<1>4. Claim(p) = NULL
  BY <1>3 DEF Claim
<1>5. Single(p)
  BY <1>3, <1>4 DEF Single
<1>6. \A t \in Tables, j \in Ids : Spares(p, t, j)
  <2>1. CASE there
    <3>1. \A t \in Tables, j \in Ids :
            row'[t][j] = IF t = "brew_log" /\ j = i THEN NULL ELSE row[t][j]
      BY <1>1, <2>1, PutRow DEF DeleteShot, Tables
    <3>2. row["brew_log"][i].home = req[r].home
      BY <1>1, <2>1, OwnRow DEF Tables
    <3>3. Replaced(p, [home |-> req[r].home, table |-> "brew_log", id |-> i])
      BY <1>3, <2>1 DEF Replaced
    <3> QED
      BY <3>1, <3>2, <3>3 DEF Spares
  <2>2. CASE ~there
    BY <2>2 DEF DeleteShot, Spares
  <2> QED
    BY <2>1, <2>2
<1>7. Tidy(r, p)
  BY <1>1, <1>4, <1>5, <1>6 DEF Tidy, Replaced
<1> QED
  BY <1>7

LEMMA BrewLogTidy ==
  ASSUME IInv, ClaimsInv, BrewLogNext
  PROVE  \E r \in Requests : \E p : Tidy(r, p)
<1>1. PICK r \in Requests :
        \/ \E h \in Households : ListShots(r, h) \/ Dashboard(r, h)
        \/ \E h \in Households, b \in Bodies, k \in Keys \cup {NULL} : CreateShot(r, h, k, b)
        \/ \E h \in Households, i \in Ids :
             \/ GenerateFeedback(r, h, i) \/ PatchShot(r, h, i)
             \/ CheckDelete(r, h, i) \/ ShowShot(r, h, i) \/ ShowFeedback(r, h, i)
        \/ NumberShot(r) \/ InsertShot(r) \/ RetryShot(r)
        \/ ReadForFeedback(r) \/ StoreFeedback(r) \/ GiveUpFeedback(r) \/ DeleteShot(r)
  BY DEF BrewLogNext
<1> DEFINE Done == \E p : Tidy(r, p)
<1>2. \A h \in Households : ListShots(r, h) \/ Dashboard(r, h) => Done
  BY ReadTidy DEF ListShots, Dashboard
<1>3. \A h \in Households, b \in Bodies, k \in Keys \cup {NULL} : CreateShot(r, h, k, b) => Done
  BY CreateShotTidy
<1>4. \A h \in Households, i \in Ids :
        GenerateFeedback(r, h, i) \/ PatchShot(r, h, i) \/ CheckDelete(r, h, i) => Done
  BY LookUpShotTidy, PatchShotTidy
<1>5. \A h \in Households, i \in Ids : ShowShot(r, h, i) \/ ShowFeedback(r, h, i) => Done
  BY ReadOneTidy DEF ShowShot, ShowFeedback
<1>6. NumberShot(r) \/ InsertShot(r) \/ RetryShot(r) \/ DeleteShot(r) => Done
  BY NumberShotTidy, InsertShotTidy, RetryShotTidy, DeleteShotTidy
<1>7. ReadForFeedback(r) \/ StoreFeedback(r) \/ GiveUpFeedback(r) => Done
  BY FeedbackTidy, StoreFeedbackTidy
<1> HIDE DEF Done
<1>8. Done
  BY <1>1, <1>2, <1>3, <1>4, <1>5, <1>6, <1>7
<1> QED
  BY <1>8 DEF Done

LEMMA CreateTidy ==
  ASSUME IInv, NEW r \in Requests, NEW h \in Households, NEW c, NEW b, NEW f,
         \/ CreateHardware(r, h, c, b, f) \/ CreateBean(r, h, b, f)
         \/ AddBag(r, h, c, b) \/ AddEvent(r, h, c, b)
  PROVE  \E p : Tidy(r, p)
<1>1. req[r].step = "new" /\ UNCHANGED <<live, row>>
  BY DEF CreateHardware, CreateBean, AddBag, AddEvent, MayBegin
<1>2. \/ Refuse(r, h)
      \/ \E op \in {"create", "picture"}, s \in {"selecting", "appending"} : \E t, i, e :
           Become(r, Admitted(op, s, h, t, i, e))
  BY DEF CreateHardware, CreateBean, AddBag, AddEvent
<1> QED
  BY <1>1, <1>2, AdmittedTidy, RefuseTidy

LEMMA EditTidy ==
  ASSUME IInv, NEW r \in Requests, NEW h \in Households, NEW i \in Ids, NEW b, NEW f,
         \/ EditHardware(r, h, i, b) \/ EditBean(r, h, i, b)
         \/ PatchBag(r, h, i, f) \/ UploadImage(r, h, i)
  PROVE  \E p : Tidy(r, p)
<1>1. ASSUME NEW t, NEW e, NEW s \in {"selecting", "uploading"}, Edit(r, h, t, i, e, s)
      PROVE  \E p : Tidy(r, p)
  BY <1>1, AdmittedTidy, RefuseTidy DEF Edit, MayBegin
<1> QED
  BY <1>1 DEF EditHardware, EditBean, PatchBag, UploadImage

LEMMA RefetchBeanTidy ==
  ASSUME IInv, ClaimsInv, NEW r \in Requests, RefetchBean(r)
  PROVE  \E p : Tidy(r, p)
<1> DEFINE e == [row["catalog"][req[r].id] EXCEPT !.edited = TRUE]
           p == [req[r] EXCEPT !.step = "selecting", !.new = e]
<1>1. /\ req[r] \in Request /\ ~req[r].wrote /\ req[r].op = "edit" /\ UNCHANGED <<live, row>>
  BY DEF RefetchBean, IInv, AllLocal, Local, Committing, Silent
<1>2. CASE req' = [req EXCEPT ![r] = p]
  <2> HIDE DEF e
  <2>1. ~p.wrote /\ p.step = "selecting" /\ p.op = "edit"
    BY <1>1 DEF Request
  <2> HIDE DEF p
  <2>2. Tidy(r, p)
    BY <1>1, <1>2, <2>1, QuietTidy
  <2> QED
    BY <2>2
<1>3. CASE Answer(r, "ok")
  BY <1>1, <1>3, AnswerTidy
<1>4. req' = [req EXCEPT ![r] = p] \/ Answer(r, "ok")
  BY DEF RefetchBean
<1> QED
  BY <1>2, <1>3, <1>4

LEMMA SelectRowTidy ==
  ASSUME IInv, ClaimsInv, NEW r \in Requests, SelectRow(r)
  PROVE  \E p : Tidy(r, p)
<1> DEFINE t == req[r].table
           i == req[r].id
           e == IF i \in Visible(r, t) THEN row[t][i] ELSE NULL
           p == [req[r] EXCEPT !.step = "writing", !.seen = e]
<1>1. /\ req[r] \in Request /\ ~req[r].wrote /\ i \in Ids /\ UNCHANGED <<live, row>>
  BY DEF SelectRow, IInv, AllLocal, Local, Committing, Ready, Silent
<1>2. req' = [req EXCEPT ![r] = p]
  BY DEF SelectRow
<1>3. e # NULL => row[t][i] # NULL /\ e = row[t][i]
  OBVIOUS
<1> HIDE DEF e
<1>4. /\ ~p.wrote /\ p.step = "writing" /\ p.seen = e /\ p.table = t /\ p.id = i
      /\ p.op = req[r].op /\ p.new = req[r].new
  BY <1>1 DEF Request
<1> HIDE DEF p
<1>5. Claim(p) = e
  BY <1>4 DEF Claim
<1>6. Single(p)
  BY <1>1, <1>4 DEF Single, ClaimsInv
<1>7. Tidy(r, p)
  BY <1>1, <1>2, <1>3, <1>4, <1>5, <1>6 DEF Tidy, Spares, Replaced
<1> QED
  BY <1>7

\* The record of a request that has committed an upsert.
LEMMA CommittedRecord ==
  ASSUME IInv, NEW r \in Requests, req[r].step = "writing", Become(r, Committed(r)),
         NEW p, p = Committed(r)
  PROVE  /\ p.wrote /\ p.new = req[r].new /\ p.seen = req[r].seen /\ p.home = req[r].home
         /\ p.table = req[r].table /\ p.id = req[r].id /\ p.op = req[r].op
         /\ p.step \in {"picturing", "answered"} /\ req' = [req EXCEPT ![r] = p]
<1> DEFINE s == IF req[r].op = "picture" THEN "picturing" ELSE "answered"
           a == CASE req[r].op = "create" -> "created" [] req[r].op = "edit" -> "ok"
                  [] OTHER -> NULL
<1>1. req[r] \in Request /\ s \in {"picturing", "answered"}
  BY DEF IInv, TypeOK
<1>2. p = [req[r] EXCEPT !.wrote = TRUE, !.ctx = NULL, !.step = s, !.answer = a]
  BY DEF Committed
<1> HIDE DEF s, a
<1> QED
  BY <1>1, <1>2 DEF Request, Become

LEMMA WriteRowTidy ==
  ASSUME IInv, ClaimsInv, NEW r \in Requests, WriteRow(r)
  PROVE  \E p : Tidy(r, p)
<1> DEFINE q == req[r]
           t == q.table
           i == q.id
           now == row[t][i]
           m == Merged(q.seen, q.new, now)
           p == Committed(r)
<1>1. /\ q \in Request /\ q.step = "writing" /\ ~q.wrote /\ UNCHANGED live /\ t \in Tables
      /\ i \in Ids /\ q.new \in Entry /\ q.new # NULL /\ q.new.home = q.home
      /\ (q.seen # NULL => q.seen \in Entry /\ q.seen.home = q.home)
  BY DEF WriteRow, IInv, AllLocal, Local, Ready, AtHome, Request, Committing, Silent
<1>2. q.op # "feedback"
  BY <1>1 DEF ClaimsInv, Single
<1>3. ASSUME Become(r, Committed(r))
      PROVE  /\ p.wrote /\ p.new = q.new /\ p.seen = q.seen /\ p.home = q.home
             /\ p.table = t /\ p.id = i /\ p.op = q.op
             /\ p.step \in {"picturing", "answered"} /\ req' = [req EXCEPT ![r] = p]
             /\ Claim(p) = q.new /\ Single(p)
  <2>1. /\ p.wrote /\ p.new = q.new /\ p.seen = q.seen /\ p.home = q.home
        /\ p.table = t /\ p.id = i /\ p.op = q.op
        /\ p.step \in {"picturing", "answered"} /\ req' = [req EXCEPT ![r] = p]
    BY <1>1, <1>3, CommittedRecord
  <2> HIDE DEF p
  <2>2. Claim(p) = q.new
    BY <2>1 DEF Claim
  <2> QED
    BY <1>1, <1>2, <2>1, <2>2 DEF Single
<1>4. CASE Become(r, Committed(r)) /\ now = NULL /\ Put(t, i, q.new)
  <2> HIDE DEF p
  <2>1. Tidy(r, p)
    BY <1>1, <1>2, <1>3, <1>4, InsertedTidy
  <2> QED
    BY <2>1
\* What the request has read is there still, or has been replaced.
<1>5. ASSUME q.seen # NULL, q.home \in live
      PROVE  \/ now # NULL /\ Written(now) = Written(q.seen)
             \/ \E s \in Requests \ {r} : Replaced(req[s], q)
  <2>1. Claim(q) = q.seen
    BY <1>1 DEF Claim
  <2> QED
    BY <1>5, <2>1 DEF ClaimsInv, Backed, Stands
<1>6. ASSUME Become(r, Committed(r)), NEW s \in Requests, Replaced(req[s], q)
      PROVE  Replaced(req[s], p)
  <2> HIDE DEF p
  <2> QED
    BY <1>3, <1>6 DEF Replaced
<1>7. CASE q.seen # NULL /\ Same(q) /\ Become(r, Committed(r)) /\ UNCHANGED row
  <2> HIDE DEF p
  <2>1. Written(q.seen) = Written(q.new)
    BY <1>1, <1>7 DEF Same, Written
  <2>2. Tidy(r, p)
    BY <1>1, <1>3, <1>5, <1>6, <1>7, <2>1 DEF Tidy, Spares, Replaced
  <2> QED
    BY <2>2
<1>8. CASE q.seen # NULL /\ StillThere(q) /\ Put(t, i, m) /\ Become(r, Committed(r))
  <2> HIDE DEF p
  <2>1. now # NULL /\ now.home = q.home /\ now \in Entry
    BY <1>1, <1>8, StoredEntry DEF StillThere
  <2>a. m \in Entry /\ (Written(now) = Written(q.seen) => Written(m) = Written(q.new))
    <3> HIDE DEF now
    <3> QED
      BY <1>1, <1>8, <2>1, MergedFacts
  <2>2. m \in Entry /\ m # NULL
    <3> HIDE DEF m
    <3> QED
      BY <2>a
  <2>3. Written(now) = Written(q.seen) => Written(m) = Written(q.new)
    BY <2>a
  <2> HIDE DEF m
  <2>4. \A u \in Tables, j \in Ids : row'[u][j] = IF u = t /\ j = i THEN m ELSE row[u][j]
    <3>1. t \in Tables /\ i \in Ids /\ Put(t, i, m)
      BY <1>1, <1>8
    <3>2. \A u \in Tables, j \in Ids :
            row'[u][j] = IF u = t /\ j = i THEN m ELSE row[u][j]
      <4> HIDE DEF t, i
      <4> QED
        BY <3>1 DEF IInv, TypeOK, Put
    <3> QED
      BY <3>2
  <2>5. Replaced(p, [home |-> now.home, table |-> t, id |-> i])
    BY <1>3, <1>8, <2>1 DEF Replaced
  <2>6. \A u \in Tables, j \in Ids : Spares(p, u, j)
    BY <2>4, <2>5 DEF Spares
  <2>7. row'[p.table][p.id] = m
    BY <1>1, <1>3, <1>8, <2>4
  <2>8. \/ row'[p.table][p.id] # NULL /\ Written(row'[p.table][p.id]) = Written(Claim(p))
        \/ ~(p.home \in live)
        \/ \E s \in Requests \ {r} : Replaced(req[s], p)
    BY <1>3, <1>5, <1>6, <1>8, <2>2, <2>3, <2>7
  <2>9. Tidy(r, p)
    BY <1>1, <1>3, <1>8, <2>6, <2>8 DEF Tidy, Replaced
  <2> QED
    BY <2>9
<1>9. CASE Answer(r, WriteError(r)) /\ UNCHANGED row
  BY <1>1, <1>9, AnswerTidy
<1>10. Allowed(r, t, i, q.new) => now = NULL
  BY DEF Allowed
<1> QED
  BY <1>4, <1>7, <1>8, <1>9, <1>10 DEF WriteRow

LEMMA SavePictureTidy ==
  ASSUME IInv, ClaimsInv, NEW r \in Requests, SavePicture(r)
  PROVE  \E p : Tidy(r, p)
<1> DEFINE e == [req[r].new EXCEPT !.edited = TRUE]
<1>1. /\ req[r].ctx = NULL /\ req[r].new \in Entry /\ UNCHANGED live /\ Answer(r, "created")
  BY DEF SavePicture, IInv, AllLocal, Local, Committing, Ready
<1>2. e.home # NULL
  BY <1>1 DEF Entry
<1>3. ASSUME NEW i \in Visible(r, "hardware") PROVE FALSE
  <2>1. row["hardware"][i] \in Entry /\ row["hardware"][i].home = NULL
    BY <1>1, <1>3, StoredEntry DEF Visible, VisibleTo, MayRead, Tables
  <2> QED
    BY <2>1 DEF Entry
<1>4. ~Allowed(r, "hardware", req[r].id, e)
  BY <1>1, <1>2 DEF Allowed
<1>5. UNCHANGED row
  BY <1>3, <1>4 DEF SavePicture
<1> QED
  BY <1>1, <1>5, AnswerTidy

LEMMA AppendEventTidy ==
  ASSUME IInv, ClaimsInv, NEW r \in Requests, AppendEvent(r)
  PROVE  \E p : Tidy(r, p)
<1> DEFINE q == req[r]
           p == [q EXCEPT !.step = "refreshing", !.ctx = NULL, !.wrote = TRUE]
<1>1. /\ q \in Request /\ ~q.wrote /\ q.id \in Ids /\ q.new \in Entry /\ q.new # NULL
      /\ q.table \in Tables /\ UNCHANGED live
  BY DEF AppendEvent, IInv, AllLocal, Local, Committing, Ready, Silent, Request
<1>2. q.op # "feedback"
  BY <1>1 DEF ClaimsInv, Single
<1>3. CASE Allowed(r, q.table, q.id, q.new)
  <2>1. Put(q.table, q.id, q.new) /\ req' = [req EXCEPT ![r] = p]
    BY <1>3 DEF AppendEvent, Become
  <2>2. /\ p.wrote /\ p.new = q.new /\ p.id = q.id /\ p.table = q.table
        /\ p.step = "refreshing" /\ p.op = q.op
    BY <1>1 DEF Request
  <2>3. row[q.table][q.id] = NULL
    BY <1>3 DEF Allowed
  <2> HIDE DEF p
  <2>4. Tidy(r, p)
    BY <1>1, <1>2, <2>1, <2>2, <2>3, InsertedTidy
  <2> QED
    BY <2>4
<1>4. CASE ~Allowed(r, q.table, q.id, q.new)
  BY <1>1, <1>4, AnswerTidy DEF AppendEvent
<1> QED
  BY <1>3, <1>4

LEMMA EquipmentTidy ==
  ASSUME IInv, ClaimsInv, EquipmentNext
  PROVE  \E r \in Requests : \E p : Tidy(r, p)
<1>1. PICK r \in Requests :
        \/ \E h \in Households : ListHardware(r, h) \/ ListEvents(r, h) \/ ListBeans(r, h)
                                 \/ ListBags(r, h)
        \/ \E h \in Households, i \in Ids :
             ShowHardware(r, h, i) \/ ShowBean(r, h, i) \/ ShowBag(r, h, i)
        \/ \E h \in Households, i \in Ids, b \in Bodies, f \in BOOLEAN :
             \/ CreateHardware(r, h, i, b, f) \/ AddBag(r, h, i, b) \/ AddEvent(r, h, i, b)
             \/ EditHardware(r, h, i, b) \/ EditBean(r, h, i, b)
        \/ \E h \in Households, b \in Bodies, f \in BOOLEAN : CreateBean(r, h, b, f)
        \/ \E h \in Households, i \in Ids, f \in BOOLEAN : PatchBag(r, h, i, f)
        \/ \E h \in Households, i \in Ids : UploadImage(r, h, i)
        \/ RefetchBean(r) \/ SelectRow(r) \/ WriteRow(r) \/ SavePicture(r)
        \/ AppendEvent(r) \/ RefreshEvent(r)
  BY ZenonT(60) DEF EquipmentNext
<1> DEFINE Done == \E p : Tidy(r, p)
<1>2. \A h \in Households : ListHardware(r, h) \/ ListEvents(r, h) \/ ListBeans(r, h)
                            \/ ListBags(r, h) => Done
  BY ReadTidy DEF ListHardware, ListEvents, ListBeans, ListBags
<1>3. \A h \in Households, i \in Ids :
        ShowHardware(r, h, i) \/ ShowBean(r, h, i) \/ ShowBag(r, h, i) => Done
  BY ReadOneTidy DEF ShowHardware, ShowBean, ShowBag
<1>4. \A h \in Households : \A i, b, f :
        CreateHardware(r, h, i, b, f) \/ AddBag(r, h, i, b) \/ AddEvent(r, h, i, b)
          \/ CreateBean(r, h, b, f) => Done
  BY CreateTidy
<1>5. \A h \in Households, i \in Ids : \A b, f :
        EditHardware(r, h, i, b) \/ EditBean(r, h, i, b)
          \/ PatchBag(r, h, i, f) \/ UploadImage(r, h, i) => Done
  BY EditTidy
<1>6. RefetchBean(r) \/ SelectRow(r) \/ WriteRow(r) \/ SavePicture(r) \/ AppendEvent(r) => Done
  BY RefetchBeanTidy, SelectRowTidy, WriteRowTidy, SavePictureTidy, AppendEventTidy
<1>7. RefreshEvent(r) => Done
  <2>1. RefreshEvent(r) => UNCHANGED <<live, row>> /\ \E a : Answer(r, a)
    BY DEF RefreshEvent
  <2> QED
    BY <2>1, AnswerTidy
<1> HIDE DEF Done
<1>8. Done
  <2>1. CASE \E h \in Households : ListHardware(r, h) \/ ListEvents(r, h)
                                   \/ ListBeans(r, h) \/ ListBags(r, h)
    BY <1>2, <2>1
  <2>2. CASE \E h \in Households, i \in Ids :
               ShowHardware(r, h, i) \/ ShowBean(r, h, i) \/ ShowBag(r, h, i)
    BY <1>3, <2>2
  <2>3. CASE \E h \in Households, i \in Ids, b \in Bodies, f \in BOOLEAN :
               \/ CreateHardware(r, h, i, b, f) \/ AddBag(r, h, i, b) \/ AddEvent(r, h, i, b)
               \/ EditHardware(r, h, i, b) \/ EditBean(r, h, i, b)
    BY <1>4, <1>5, <2>3, Zenon
  <2>4. CASE \E h \in Households, b \in Bodies, f \in BOOLEAN : CreateBean(r, h, b, f)
    BY <1>4, <2>4, Zenon
  <2>5. CASE \E h \in Households, i \in Ids, f \in BOOLEAN : PatchBag(r, h, i, f)
    BY <1>5, <2>5, Zenon
  <2>6. CASE \E h \in Households, i \in Ids : UploadImage(r, h, i)
    BY <1>5, <2>6, Zenon
  <2> QED
    BY <1>1, <1>6, <1>7, <2>1, <2>2, <2>3, <2>4, <2>5, <2>6, Zenon
<1> QED
  BY <1>8 DEF Done

LEMMA LinksTidy ==
  ASSUME IInv, ClaimsInv, LinksNext
  PROVE  \E r \in Requests : \E p : Tidy(r, p)
<1>1. PICK r \in Requests :
        \/ \E h \in Households : GenerateLink(r, h) \/ RevokeLink(r, h)
        \/ \E l \in Links : OpenLink(r, l)
        \/ CommitLink(r) \/ CommitRevocation(r) \/ ViewAsGuest(r)
  BY DEF LinksNext
<1> DEFINE Done == \E p : Tidy(r, p)
<1>2. ASSUME NEW h \in Households, GenerateLink(r, h) \/ RevokeLink(r, h) PROVE Done
  <2>1. PICK s \in {"linking", "closing"} :
          Become(r, [Admitted("link", s, h, "brew_log", NULL, NULL) EXCEPT !.links = ActiveLinks(h)])
    BY <1>2 DEF GenerateLink, RevokeLink
  <2> DEFINE p == [Admitted("link", s, h, "brew_log", NULL, NULL) EXCEPT !.links = ActiveLinks(h)]
  <2>2. ~p.wrote /\ p.step = s /\ p.op = "link"
    BY DEF Admitted, Waiting
  <2>3. req' = [req EXCEPT ![r] = p] /\ req[r].step = "new" /\ UNCHANGED <<live, row>>
    BY <1>2, <2>1 DEF Become, GenerateLink, RevokeLink, MayBegin
  <2> HIDE DEF p
  <2>4. Tidy(r, p)
    BY <2>2, <2>3, NewQuiet, QuietTidy
  <2> QED
    BY <2>4
<1>3. ASSUME NEW l \in Links, OpenLink(r, l) PROVE Done
  <2>1. req[r].step = "new" /\ UNCHANGED <<live, row>>
    BY <1>3 DEF OpenLink
  <2>2. CASE Become(r, Admitted("read", "viewing", link[l].home, "brew_log", NULL, NULL))
    BY <2>1, <2>2, AdmittedTidy
  <2>3. CASE Become(r, Answered(Waiting, "refused"))
    <3> DEFINE p == Answered(Waiting, "refused")
    <3>1. ~p.wrote /\ p.step = "answered" /\ p.op = "read" /\ req' = [req EXCEPT ![r] = p]
      BY <2>3 DEF Answered, Waiting, Become
    <3> HIDE DEF p
    <3>2. Tidy(r, p)
      BY <2>1, <3>1, NewQuiet, QuietTidy
    <3> QED
      BY <3>2
  <2> QED
    BY <1>3, <2>2, <2>3 DEF OpenLink
<1>4. ASSUME CommitLink(r) \/ CommitRevocation(r) PROVE Done
  <2>1. UNCHANGED <<live, row>> /\ \E a : Answer(r, a)
    BY <1>4 DEF CommitLink, CommitRevocation
  <2> QED
    BY <2>1, AnswerTidy
<1>5. ASSUME ViewAsGuest(r) PROVE Done
  <2> DEFINE s == Displayed(req[r].home, Tables)
             p == [Answered(req[r], "ok") EXCEPT !.shown = s]
  <2>1. req[r] \in Request /\ UNCHANGED <<live, row>>
    BY <1>5 DEF IInv, TypeOK, ViewAsGuest
  <2>2. CASE Become(r, p)
    <3> HIDE DEF s
    <3>1. SameWrite(p, req[r]) /\ p.step = "answered"
      BY <2>1 DEF SameWrite, Answered, Request
    <3>2. req' = [req EXCEPT ![r] = p]
      BY <2>2 DEF Become
    <3> HIDE DEF p
    <3>3. Tidy(r, p)
      BY <2>1, <3>1, <3>2, MovedTidy
    <3> QED
      BY <3>3
  <2>3. CASE Answer(r, "refused")
    BY <2>1, <2>3, AnswerTidy
  <2> QED
    BY <1>5, <2>2, <2>3 DEF ViewAsGuest
<1> HIDE DEF Done
<1>6. Done
  BY <1>1, <1>2, <1>3, <1>4, <1>5
<1> QED
  BY <1>6 DEF Done

\* The deletion of a household changes rows that nobody relies on any more.
LEMMA DeletionBacked ==
  ASSUME IInv, ClaimsInv, NEW h \in Households, DeleteHousehold(h)
  PROVE  ClaimsInv'
<1>1. req' = req /\ live' = live \ {h}
  BY DEF DeleteHousehold
<1>2. ASSUME NEW r \in Requests PROVE Single(req'[r]) /\ Backed(r, req[r])'
  <2> DEFINE q == req[r]
  <2>1. Single(q) /\ Backed(r, q)
    BY DEF ClaimsInv
  <2>2. ASSUME Claim(q) # NULL, q.home \in live'
        PROVE  \/ row'[q.table][q.id] # NULL /\ Written(row'[q.table][q.id]) = Written(Claim(q))
               \/ \E s \in Requests \ {r} : Replaced(req[s], q)
    <3>1. Claim(q).home = q.home /\ q.table \in Tables /\ q.id \in Ids /\ q.home # h
          /\ q.home \in live
      BY <1>1, <2>1, <2>2, ClaimHome DEF Single
    <3>2. ASSUME Stands(q, Claim(q))
          PROVE  row'[q.table][q.id] = row[q.table][q.id]
      <4>1. row[q.table][q.id].home # h
        <5>1. Written(row[q.table][q.id]) = Written(Claim(q))
          BY <3>2 DEF Stands
        <5>2. row[q.table][q.id].home = Claim(q).home
          BY <5>1 DEF Written
        <5> QED
          BY <3>1, <5>2
      <4> QED
        <5> DEFINE t == q.table
                   i == q.id
        <5>1. t \in Tables /\ i \in Ids
          BY <3>1
        <5>2. row[t][i].home # h
          BY <4>1
        <5> HIDE DEF t, i
        <5>3. row'[t][i] = row[t][i]
          BY <5>1, <5>2, CascadeLeaves, Zenon
        <5> QED
          BY <5>3 DEF t, i
    <3> QED
      BY <2>1, <2>2, <3>1, <3>2 DEF Backed, Stands
  <2> QED
    BY <1>1, <2>1, <2>2 DEF Backed, Stands
<1> QED
  BY <1>2 DEF ClaimsInv

LEMMA ClaimsKept ==
  ASSUME IInv, ClaimsInv, [Next]_vars
  PROVE  ClaimsInv'
<1>1. CASE Next
  <2>1. ASSUME NEW r \in Requests, Abort(r) PROVE \E p : Tidy(r, p)
    BY <2>1, AnswerTidy DEF Abort
  <2>2. (\E r \in Requests : \E p : Tidy(r, p)) \/ (\E h \in Households : DeleteHousehold(h))
    BY <1>1, <2>1, BrewLogTidy, EquipmentTidy, LinksTidy DEF Next
  <2> QED
    BY <2>2, TidyKeeps, DeletionBacked
<1>2. CASE UNCHANGED vars
  BY <1>2 DEF vars, ClaimsInv, Backed, Stands
<1> QED
  BY <1>1, <1>2

\* What the handlers answer after a commit, a failed insertion or a rollback: of
\* what a request has created or changed, nothing is lost but to the deletion of
\* the household or the shot, or to an upsert that has read the row.
THEOREM AnswersAreTrue == Spec => []AnswersMatchCommits
<1>1. KitchenInit => ClaimsInv
  <2>1. Single(Waiting) /\ Claim(Waiting) = NULL
    BY DEF Single, Claim, Waiting
  <2> QED
    BY <2>1 DEF KitchenInit, Init, ClaimsInv, Backed
<1>2. IInv /\ ClaimsInv => AnswersMatchCommits
  <2> SUFFICES ASSUME IInv, ClaimsInv, NEW r \in Requests
               PROVE  /\ req[r].wrote /\ req[r].new # NULL /\ req[r].home \in live =>
                           \/ Stands(req[r], req[r].new)
                           \/ \E s \in Requests \ {r} : Replaced(req[s], req[r])
                      /\ Truthful(req[r])
    BY DEF AnswersMatchCommits, Truthful
  <2>1. req[r].wrote => Claim(req[r]) = req[r].new
    BY DEF Claim
  <2> QED
    BY <2>1 DEF IInv, AllLocal, Local, ClaimsInv, Backed
<1> QED
  BY <1>1, <1>2, ClaimsKept, Invariant, PTL DEF Spec
=============================================================================
