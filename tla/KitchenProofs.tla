--------------------------- MODULE KitchenProofs ----------------------------
(***************************************************************************)
(* Theorems about Kitchen, for every value of its constants.               *)
(*                                                                         *)
(* Local says what one request knows about itself at each of its steps;    *)
(* most actions change one request, so it is shown once that this keeps    *)
(* Local of all others.                                                    *)
(***************************************************************************)
EXTENDS Kitchen, TLAPS

USE TenancyAssumption, LinksAssumption

-----------------------------------------------------------------------------
(* What a request knows about itself.                                      *)

Silent == {"new", "numbering", "inserting", "retried", "deleting", "uploading",
           "selecting", "writing", "appending", "linking", "closing", "viewing"}

\* The household of its transaction, of what it has read, and of its answer.
AtHome(q) ==
  /\ q.ctx \in {q.home, NULL}
  /\ q.shown \subseteq {q.home}
  /\ q.new # NULL => q.new.home = q.home
  /\ q.seen # NULL => q.seen.home = q.home

\* What it has committed so far.
Committing(q) ==
  /\ q.step # "answered" => q.answer = NULL
  /\ q.step \in Silent => ~q.wrote
  /\ q.step \in {"feeding", "asking"} =>
       (q.op = "create" /\ q.wrote) \/ (q.op = "feedback" /\ ~q.wrote)
  /\ q.step = "picturing" => q.wrote /\ q.ctx = NULL
  /\ q.step = "refreshing" => q.wrote /\ q.table = "maintenance_log"
  /\ q.step = "linking" => q.op = "link"
  /\ q.step \in {"numbering", "inserting", "retried"} => q.op = "create"
  /\ q.step = "uploading" => q.op = "edit"
  /\ q.links # {} => q.step \in {"linking", "closing", "answered"}
  /\ q.step \in {"selecting", "writing"} =>
       q.op \in {"create", "edit"} \/ (q.op = "picture" /\ q.table = "hardware")

\* What it needs for its next step.
Ready(q) ==
  /\ q.step \in {"inserting", "feeding", "asking", "deleting", "uploading", "selecting",
                 "writing", "picturing", "appending", "refreshing"} => q.id \in Ids
  /\ q.step \in {"numbering", "inserting", "retried", "selecting", "writing", "picturing",
                 "appending"} => q.new \in Entry
  /\ q.step = "retried" => q.new.key \in Keys
  /\ q.step \in {"numbering", "inserting", "retried"} => q.table = "brew_log"
  /\ q.step \in {"selecting", "writing"} => q.table \in {"catalog", "inventory_bags", "hardware"}
  /\ q.step \in {"picturing"} => q.table = "hardware"
  /\ q.step \in {"uploading"} => q.table = "catalog"
  /\ q.step \in {"appending"} => q.table = "maintenance_log"
  /\ q.step \in {"linking", "closing", "viewing"} => q.home \in Households

\* What its answer says about it, as in AnswersMatchCommits.
Truthful(q) ==
  /\ q.answer = "created" => q.wrote \/ q.op = "link"
  /\ q.answer \in {"refused", "replayed", "conflict"} => ~q.wrote
  /\ q.answer = "failed" /\ q.wrote => q.table = "maintenance_log"
  /\ q.answer = "timeout" /\ q.wrote => q.op = "feedback"

Local(q) == q \in Request /\ AtHome(q) /\ Committing(q) /\ Ready(q) /\ Truthful(q)

AllLocal == req \in [Requests -> Request] /\ \A r \in Requests : Local(req[r])

RowsOK == row \in [Tables -> [Ids -> Entry \cup {NULL}]]

\* A request that has not begun knows nothing.
LEMMA NothingLocal == Local(Waiting)
<1>1. Waiting \in Request
  BY DEF Waiting, Request, Steps, Tables
<1>2. AtHome(Waiting) /\ Committing(Waiting)
  BY DEF AtHome, Committing, Waiting
<1>3. Ready(Waiting) /\ Truthful(Waiting)
  BY DEF Ready, Truthful, Waiting, Answers
<1> QED
  BY <1>1, <1>2, <1>3 DEF Local

\* One that is refused knows its household.
LEMMA WaitingLocal ==
  ASSUME NEW h \in Households \cup {NULL}
  PROVE  Local([Waiting EXCEPT !.home = h])
<1> DEFINE q == [Waiting EXCEPT !.home = h]
<1>1. q \in Request
  BY DEF Waiting, Request, Steps, Tables
<1>2. AtHome(q) /\ Committing(q)
  BY DEF AtHome, Committing, Waiting
<1>3. Ready(q) /\ Truthful(q)
  BY DEF Ready, Truthful, Waiting, Answers
<1> QED
  BY <1>1, <1>2, <1>3 DEF Local

\* A change of one request leaves what the others know alone.
LEMMA OthersLocal ==
  ASSUME AllLocal, NEW r \in Requests, NEW q, Local(q), req' = [req EXCEPT ![r] = q]
  PROVE  AllLocal'
  BY DEF AllLocal, Local

\* An answer that says what was committed ends a request well.
LEMMA AnsweredLocal ==
  ASSUME NEW q, Local(q), NEW a \in Answers,
         a = "created" => q.wrote \/ q.op = "link",
         a \in {"refused", "replayed", "conflict"} => ~q.wrote,
         a = "failed" /\ q.wrote => q.table = "maintenance_log",
         a = "timeout" /\ q.wrote => q.op = "feedback"
  PROVE  Local(Answered(q, a))
<1> DEFINE n == Answered(q, a)
<1>1. n \in Request
  BY ZenonT(60) DEF Local, Answered, Request, Steps, Answers
<1>2. AtHome(n)
  BY DEF Local, Answered, Request, AtHome
<1>3. Committing(n) /\ Ready(n) /\ Truthful(n)
  BY DEF Local, Answered, Request, Committing, Ready, Truthful, Silent
<1> QED
  BY <1>1, <1>2, <1>3 DEF Local

\* Answer, for a request under way.
LEMMA AnswerLocal ==
  ASSUME AllLocal, NEW r \in Requests, NEW a \in Answers, Answer(r, a),
         a = "created" => req[r].wrote \/ req[r].op = "link",
         a \in {"refused", "replayed", "conflict"} => ~req[r].wrote,
         a = "failed" /\ req[r].wrote => req[r].table = "maintenance_log",
         a = "timeout" /\ req[r].wrote => req[r].op = "feedback"
  PROVE  AllLocal'
<1>1. Local(req[r])
  BY DEF AllLocal
<1>2. Local(Answered(req[r], a))
  BY <1>1, AnsweredLocal
<1> QED
  BY <1>2, OthersLocal DEF Answer, Become

\* Refuse, for a caller of household h.
LEMMA RefuseLocal ==
  ASSUME AllLocal, NEW r \in Requests, NEW h \in Households, Refuse(r, h)
  PROVE  AllLocal'
<1> DEFINE w == [Waiting EXCEPT !.home = h]
<1>1. Local(w)
  BY WaitingLocal
<1>2. ~w.wrote
  BY DEF Waiting
<1>3. Local(Answered(w, "refused"))
  BY <1>1, <1>2, AnsweredLocal DEF Answers
<1> QED
  BY <1>3, OthersLocal DEF Refuse, Become

\* A transaction displays rows of its household, and none without one.
LEMMA DisplaysHome ==
  ASSUME RowsOK, NEW h \in Households \cup {NULL}, NEW ts \in SUBSET Tables
  PROVE  Displayed(h, ts) \subseteq {h} \cap Households
  BY DEF RowsOK, Displayed, VisibleTo, MayRead, Entry

\* Read, which answers with what it displays.
LEMMA ReadLocal ==
  ASSUME AllLocal, RowsOK, NEW r \in Requests, NEW h \in Households, NEW ts \in SUBSET Tables,
         Read(r, h, ts)
  PROVE  AllLocal'
<1> DEFINE s == Displayed(h, ts)
           q == [Answered(Waiting, "ok") EXCEPT !.home = h, !.shown = s]
<1>1. s \subseteq {h} /\ s \in SUBSET Households
  BY DisplaysHome
<1> HIDE DEF s
<1>2. Local(q)
  BY <1>1 DEF Local, AtHome, Committing, Ready, Truthful, Waiting, Answered, Request, Steps,
         Answers, Tables, Silent
<1> QED
  BY <1>2, OthersLocal DEF Read, Become, s

LEMMA ReadOneLocal ==
  ASSUME AllLocal, RowsOK, NEW r \in Requests, NEW h \in Households, NEW t, NEW i,
         NEW ts \in SUBSET Tables, ReadOne(r, h, t, i, ts)
  PROVE  AllLocal'
  BY ReadLocal, RefuseLocal DEF ReadOne
-----------------------------------------------------------------------------
(* The brew log.                                                           *)

\* A request admitted to h.
LEMMA AdmittedLocal ==
  ASSUME NEW h \in Households, NEW t \in Tables, NEW i \in Ids \cup {NULL},
         NEW e \in Entry \cup {NULL}, e # NULL => e.home = h,
         NEW op \in {"read", "create", "picture", "edit", "feedback", "link"}, NEW s \in Steps,
         Committing(Admitted(op, s, h, t, i, e)), Ready(Admitted(op, s, h, t, i, e))
  PROVE  Local(Admitted(op, s, h, t, i, e))
<1> DEFINE q == Admitted(op, s, h, t, i, e)
<1>1. q \in Request
  BY DEF Admitted, Waiting, Request
<1>2. AtHome(q)
  BY DEF AtHome, Admitted, Waiting
<1>3. Truthful(q)
  BY DEF Truthful, Admitted, Waiting, Answers
<1> QED
  BY <1>1, <1>2, <1>3 DEF Local

\* The shots found under a key are of the household of the transaction.
LEMMA WithKeyHome ==
  ASSUME RowsOK, NEW h \in Households \cup {NULL}, NEW k \in Keys, NEW i \in WithKey(h, k)
  PROVE  /\ i \in Ids /\ Shots[i] \in Entry /\ Shots[i].home = h /\ h \in Households
         /\ Shots[i].key = k
  BY DEF RowsOK, WithKey, VisibleTo, MayRead, Shots, Tables, Entry

\* An answer may show rows of its household.
LEMMA ShownLocal ==
  ASSUME NEW q, Local(q), NEW s \in SUBSET Households, s \subseteq {q.home}
  PROVE  Local([q EXCEPT !.shown = s])
<1> DEFINE n == [q EXCEPT !.shown = s]
<1>1. n \in Request
  BY DEF Local, Request
<1>2. AtHome(n)
  BY DEF Local, AtHome, Request
<1>3. Committing(n) /\ Ready(n) /\ Truthful(n)
  BY DEF Local, Request, Committing, Ready, Truthful
<1> QED
  BY <1>1, <1>2, <1>3 DEF Local

\* A replay is of the caller's household.
LEMMA ReplayLocal ==
  ASSUME RowsOK, NEW q, Local(q), ~q.wrote, NEW k \in Keys, NEW i \in WithKey(q.ctx, k)
  PROVE  Local(Replay(q, i))
<1> DEFINE a == IF SamePayload(i, q.new.body) THEN "replayed" ELSE "conflict"
           n == Answered(q, a)
           s == IF SamePayload(i, q.new.body) THEN {Shots[i].home} ELSE {}
<1>1. q.ctx \in Households \cup {NULL} /\ q.ctx \in {q.home, NULL}
  BY DEF Local, Request, AtHome
<1>2. s \subseteq {q.home} /\ s \in SUBSET Households
  BY <1>1, WithKeyHome
<1>3. a \in Answers /\ a \in {"replayed", "conflict"}
  BY DEF Answers
<1>4. Local(n)
  BY <1>3, AnsweredLocal
<1>5. Replay(q, i) = [n EXCEPT !.shown = s]
  BY DEF Replay
<1>7. n.home = q.home
  BY DEF Answered, Local, Request
<1> HIDE DEF n, s
<1>6. Local([n EXCEPT !.shown = s])
  BY <1>2, <1>4, <1>7, ShownLocal
<1> QED
  BY <1>5, <1>6

LEMMA CreateShotLocal ==
  ASSUME AllLocal, RowsOK, NEW r \in Requests, NEW h \in Households,
         NEW k \in Keys \cup {NULL}, NEW b \in Bodies, CreateShot(r, h, k, b)
  PROVE  AllLocal'
<1> DEFINE e == NewEntry(h, b, k, NULL)
           q == Admitted("create", "numbering", h, "brew_log", NULL, e)
<1>1. e \in Entry /\ e.home = h
  BY DEF NewEntry, Entry
<1>2. Ready(q) /\ Committing(q)
  BY <1>1 DEF Ready, Committing, Admitted, Waiting, Silent
<1>3. Local(q)
  BY <1>1, <1>2, AdmittedLocal DEF Tables, Steps
<1>4. ~q.wrote /\ q.ctx = h
  BY DEF Admitted, Waiting
<1>5. CASE k # NULL /\ WithKey(h, k) # {}
  <2>1. PICK i \in WithKey(h, k) : req' = [req EXCEPT ![r] = Replay(q, i)]
    BY <1>5 DEF CreateShot, Become
  <2>2. Local(Replay(q, i))
    BY <1>3, <1>4, <1>5, ReplayLocal
  <2> QED
    BY <2>1, <2>2, OthersLocal
<1>6. CASE ~(k # NULL /\ WithKey(h, k) # {})
  BY <1>3, <1>6, OthersLocal DEF CreateShot, Become
<1> QED
  BY <1>5, <1>6

LEMMA NumberShotLocal ==
  ASSUME AllLocal, NEW r \in Requests, NumberShot(r)
  PROVE  AllLocal'
<1>1. PICK i \in Ids : req' = [req EXCEPT ![r].step = "inserting", ![r].id = i]
  BY DEF NumberShot
<1> DEFINE q == [req[r] EXCEPT !.step = "inserting", !.id = i]
<1>2. Local(req[r]) /\ req[r].step = "numbering"
  BY DEF AllLocal, NumberShot
<1>3. Local(q)
  BY <1>2, ZenonT(60) DEF Local, Request, Steps, AtHome, Committing, Ready, Truthful, Silent
<1>4. req' = [req EXCEPT ![r] = q]
  BY <1>1
<1> QED
  BY <1>3, <1>4, OthersLocal

LEMMA InsertShotLocal ==
  ASSUME AllLocal, NEW r \in Requests, InsertShot(r)
  PROVE  AllLocal'
<1>1. Local(req[r]) /\ req[r].step = "inserting" /\ ~req[r].wrote
  BY DEF AllLocal, InsertShot, Local, Committing, Silent
<1>4. req[r].new.key \in Keys \cup {NULL}
  BY <1>1 DEF Local, Ready, Entry
<1>2. CASE Allowed(r, "brew_log", req[r].id, req[r].new)
  <2> DEFINE q == [req[r] EXCEPT !.step = "feeding", !.wrote = TRUE]
  <2>1. req' = [req EXCEPT ![r] = q]
    BY <1>2 DEF InsertShot
  <2>2. Local(q)
    BY <1>1, ZenonT(60) DEF Local, Request, Steps, Answers, AtHome, Committing, Ready, Truthful, Silent
  <2> QED
    BY <2>1, <2>2, OthersLocal
<1>3. CASE ~Allowed(r, "brew_log", req[r].id, req[r].new)
  <2> DEFINE q == [req[r] EXCEPT !.step = "retried"]
  <2>1. req[r].new.key # NULL => Local(q)
    BY <1>1, <1>4 DEF Local, Request, Steps, AtHome, Committing, Ready, Truthful, Silent
  <2>2. CASE Answer(r, WriteError(r))
    BY <1>1, <2>2, AnswerLocal DEF WriteError, Answers
  <2>3. CASE req[r].new.key # NULL /\ Goto(r, "retried")
    <3>1. req' = [req EXCEPT ![r] = q]
      BY <2>3 DEF Goto
    <3> QED
      BY <2>1, <2>3, <3>1, OthersLocal
  <2> QED
    BY <1>3, <2>2, <2>3 DEF InsertShot
<1> QED
  BY <1>2, <1>3

LEMMA RetryShotLocal ==
  ASSUME AllLocal, RowsOK, NEW r \in Requests, RetryShot(r)
  PROVE  AllLocal'
<1> DEFINE q == req[r]
<1>1. Local(q) /\ ~q.wrote /\ q.new.key \in Keys
  BY DEF AllLocal, RetryShot, Local, Committing, Ready, Silent
<1>2. CASE Answer(r, "failed")
  BY <1>1, <1>2, AnswerLocal DEF RetryShot, Answers
<1>3. CASE \E i \in WithKey(q.ctx, q.new.key) : Become(r, Replay(q, i))
  <2>1. PICK i \in WithKey(q.ctx, q.new.key) : req' = [req EXCEPT ![r] = Replay(q, i)]
    BY <1>3 DEF RetryShot, Become
  <2>2. Local(Replay(q, i))
    BY <1>1, ReplayLocal
  <2> QED
    BY <2>1, <2>2, OthersLocal
<1> QED
  BY <1>2, <1>3 DEF RetryShot
\* A request whose next step is not a commit.
LEMMA MovedLocal ==
  ASSUME AllLocal, NEW r \in Requests, NEW s \in Steps, NEW f \in Steps,
         req[r].step = f, f # "answered",
         <<f, s>> \in {<<"feeding", "asking">>}, Goto(r, s)
  PROVE  AllLocal'
<1> DEFINE q == [req[r] EXCEPT !.step = s]
<1>1. Local(req[r])
  BY DEF AllLocal
<1>2. Local(q)
  BY <1>1 DEF Local, Request, AtHome, Committing, Ready, Truthful, Silent
<1>3. req' = [req EXCEPT ![r] = q]
  BY DEF Goto
<1> QED
  BY <1>2, <1>3, OthersLocal

\* A creation or a generation that is waiting for its feedback.
LEMMA FeedbackFacts ==
  ASSUME AllLocal, NEW r \in Requests, req[r].step \in {"feeding", "asking"}
  PROVE  /\ (req[r].op = "create" /\ req[r].wrote) \/ (req[r].op = "feedback" /\ ~req[r].wrote)
         /\ req[r].id \in Ids
         /\ WithoutFeedback(r) \in Answers
         /\ WithoutFeedback(r) = "created" => req[r].wrote
         /\ WithoutFeedback(r) = "failed" => ~req[r].wrote
         /\ WithoutFeedback(r) \in {"created", "failed"}
  BY DEF AllLocal, Local, Committing, Ready, WithoutFeedback, Answers

\* A request that is answered and has committed something in its last step.
LEMMA WroteLocal ==
  ASSUME NEW q, Local(q), q.step = "answered", NEW w \in BOOLEAN, q.wrote => w,
         w => \/ q.answer \in {"ok", "created"}
              \/ q.answer = "timeout" /\ q.op = "feedback"
  PROVE  Local([q EXCEPT !.wrote = w])
<1> DEFINE n == [q EXCEPT !.wrote = w]
<1>1. /\ n \in Request /\ n.step = "answered" /\ n.wrote = w
      /\ n.ctx = q.ctx /\ n.shown = q.shown /\ n.new = q.new /\ n.seen = q.seen
      /\ n.home = q.home /\ n.answer = q.answer /\ n.op = q.op /\ n.links = q.links
  BY DEF Local, Request
<1> HIDE DEF n
<1>2. AtHome(n) /\ Committing(n) /\ Ready(n)
  BY <1>1 DEF Local, AtHome, Committing, Ready, Silent
<1>3. Truthful(n)
  BY <1>1 DEF Local, Truthful, Request
<1> QED
  BY <1>1, <1>2, <1>3 DEF Local, n

\* One that has stored its feedback, or found no shot to store it with.
LEMMA StoredLocal ==
  ASSUME AllLocal, NEW r \in Requests, StoreFeedback(r)
  PROVE  AllLocal'
<1> DEFINE there == req[r].id \in Visible(r, "brew_log")
           Done(a) == [Answered(req[r], a) EXCEPT !.wrote = @ \/ there]
<1>1. Local(req[r]) /\ req[r].wrote \in BOOLEAN /\ there \in BOOLEAN
  BY DEF AllLocal, Local, Request
<1>2. \/ req[r].op = "create" /\ req' = [req EXCEPT ![r] = Done("created")]
      \/ /\ req[r].op = "feedback"
         /\ \/ req' = [req EXCEPT ![r] = Done("ok")]
            \/ req' = [req EXCEPT ![r] = Done("timeout")]
  BY DEF StoreFeedback, Become
<1>3. req[r].op = "create" => req[r].wrote
  BY FeedbackFacts DEF StoreFeedback
<1> HIDE DEF there
<1>4. ASSUME NEW a \in {"created", "ok", "timeout"},
             a = "created" => req[r].op = "create", a = "timeout" => req[r].op = "feedback"
      PROVE  Local(Done(a))
  <2> DEFINE q == Answered(req[r], a)
             w == req[r].wrote \/ there
  <2>1. Local(q)
    BY <1>1, <1>3, <1>4, AnsweredLocal DEF Answers
  <2>2. q.step = "answered" /\ q.answer = a /\ q.op = req[r].op /\ q.wrote = req[r].wrote
    BY <1>1 DEF Answered, Local, Request
  <2> HIDE DEF q
  <2>3. Local([q EXCEPT !.wrote = w])
    BY <1>1, <1>4, <2>1, <2>2, WroteLocal
  <2>4. Done(a) = [q EXCEPT !.wrote = w]
    BY <2>2 DEF q
  <2> QED
    BY <2>3, <2>4
<1>5. \/ req[r].op = "create" /\ Local(Done("created"))
      \/ req[r].op = "feedback" /\ Local(Done("ok")) /\ Local(Done("timeout"))
  BY <1>2, <1>4
<1> HIDE DEF Done
<1> QED
  BY <1>2, <1>5, OthersLocal

LEMMA FeedbackLocal ==
  ASSUME AllLocal, NEW r \in Requests,
         ReadForFeedback(r) \/ StoreFeedback(r) \/ GiveUpFeedback(r)
  PROVE  AllLocal'
<1>1. req[r].step \in {"feeding", "asking"}
  BY DEF ReadForFeedback, StoreFeedback, GiveUpFeedback
<1>2. CASE Goto(r, "asking") /\ req[r].step = "feeding"
  BY <1>2, MovedLocal DEF Steps
<1>3. CASE Answer(r, WithoutFeedback(r))
  BY <1>1, <1>3, FeedbackFacts, AnswerLocal
<1>4. CASE req[r].op = "create" /\ Answer(r, "created")
  BY <1>1, <1>4, FeedbackFacts, AnswerLocal DEF Answers
<1>5. CASE req[r].op = "feedback" /\ Answer(r, "timeout")
  BY <1>5, AnswerLocal DEF Answers
<1>6. ReadForFeedback(r) => \/ Goto(r, "asking") /\ req[r].step = "feeding"
                            \/ Answer(r, WithoutFeedback(r))
                            \/ req[r].op = "create" /\ Answer(r, "created")
  BY DEF ReadForFeedback
<1>8. GiveUpFeedback(r) => \/ Answer(r, WithoutFeedback(r))
                           \/ req[r].op = "feedback" /\ Answer(r, "timeout")
  BY DEF GiveUpFeedback
<1> QED
  BY <1>2, <1>3, <1>4, <1>5, <1>6, <1>8, StoredLocal

\* A shot is looked up and handed to the next step.
LEMMA LookUpShotLocal ==
  ASSUME AllLocal, NEW r \in Requests, NEW h \in Households, NEW i \in Ids,
         GenerateFeedback(r, h, i) \/ CheckDelete(r, h, i)
  PROVE  AllLocal'
<1> DEFINE p == Admitted("feedback", "feeding", h, "brew_log", i, NULL)
           q == Admitted("edit", "deleting", h, "brew_log", i, NULL)
<1>1. Committing(p) /\ Ready(p) /\ Committing(q) /\ Ready(q)
  BY DEF Admitted, Waiting, Committing, Ready, Silent
<1>2. Local(p) /\ Local(q)
  BY <1>1, AdmittedLocal DEF Steps, Tables
<1> HIDE DEF p, q
<1> QED
  BY <1>2, OthersLocal, RefuseLocal DEF GenerateFeedback, CheckDelete, Become, p, q

LEMMA PatchShotLocal ==
  ASSUME AllLocal, RowsOK, NEW r \in Requests, NEW h \in Households, NEW i \in Ids,
         PatchShot(r, h, i)
  PROVE  AllLocal'
<1> DEFINE s == {h} \cup Displayed(NULL, Tables)
           q == [Answered(Waiting, "ok") EXCEPT !.home = h, !.wrote = TRUE, !.shown = s]
<1>1. s = {h}
  BY DisplaysHome
<1> HIDE DEF s
<1>2. Local(q)
  BY <1>1 DEF Local, AtHome, Committing, Ready, Truthful, Waiting, Answered, Request, Steps,
         Answers, Tables, Silent
<1> HIDE DEF q
<1> QED
  BY <1>2, OthersLocal, RefuseLocal DEF PatchShot, Become, s, q

\* Deletion and reading.
LEMMA DeleteShotLocal ==
  ASSUME AllLocal, NEW r \in Requests, DeleteShot(r)
  PROVE  AllLocal'
<1> DEFINE w == req[r].id \in Visible(r, "brew_log")
           q == Answered(req[r], "ok")
<1>1. Local(req[r]) /\ ~req[r].wrote
  BY DEF AllLocal, DeleteShot, Local, Committing, Silent
<1>2. Local(q)
  BY <1>1, AnsweredLocal DEF Answers
<1>3. q.step = "answered" /\ q.answer = "ok" /\ ~q.wrote
  BY <1>1 DEF Answered, Local, Request
<1>4. req' = [req EXCEPT ![r] = [q EXCEPT !.wrote = w]]
  BY DEF DeleteShot, Become
<1>5. w \in BOOLEAN
  OBVIOUS
<1> HIDE DEF q, w
<1>6. Local([q EXCEPT !.wrote = w])
  BY <1>2, <1>3, <1>5, WroteLocal
<1> QED
  BY <1>4, <1>6, OthersLocal

LEMMA ReadShotsLocal ==
  ASSUME AllLocal, RowsOK, NEW r \in Requests, NEW h \in Households, NEW i,
         ListShots(r, h) \/ Dashboard(r, h) \/ ShowShot(r, h, i) \/ ShowFeedback(r, h, i)
  PROVE  AllLocal'
  BY ReadLocal, ReadOneLocal DEF ListShots, Dashboard, ShowShot, ShowFeedback, Tables
-----------------------------------------------------------------------------
(* Equipment.                                                              *)

\* A row that household h can see is its own.
LEMMA VisibleEntry ==
  ASSUME RowsOK, NEW h \in Households \cup {NULL}, NEW t \in Tables, NEW i \in VisibleTo(h, t)
  PROVE  i \in Ids /\ row[t][i] \in Entry /\ row[t][i].home = h /\ h \in Households
         /\ row[t][i] # NULL
  BY DEF RowsOK, VisibleTo, MayRead, Entry

\* A new row, at the first step of its insertion.
LEMMA NewRowLocal ==
  ASSUME AllLocal, NEW r \in Requests, NEW h \in Households, NEW i \in Ids, NEW e \in Entry,
         e.home = h, NEW op \in {"create", "picture", "edit"},
         NEW t \in {"catalog", "inventory_bags", "hardware", "maintenance_log"},
         op = "picture" => t = "hardware",
         Become(r, Admitted(op, IF t = "maintenance_log" THEN "appending" ELSE "selecting",
                            h, t, i, e))
  PROVE  AllLocal'
<1> DEFINE s == IF t = "maintenance_log" THEN "appending" ELSE "selecting"
           q == Admitted(op, s, h, t, i, e)
<1>1. Committing(q) /\ Ready(q)
  BY DEF Admitted, Waiting, Committing, Ready, Silent
<1>2. Local(q)
  BY <1>1, AdmittedLocal DEF Steps, Tables
<1> QED
  BY <1>2, OthersLocal DEF Become

LEMMA CreateLocal ==
  ASSUME AllLocal, RowsOK, NEW r \in Requests, NEW h \in Households, NEW c, NEW b \in Bodies,
         NEW f,
         \/ c \in Ids /\ f \in BOOLEAN /\ CreateHardware(r, h, c, b, f)
         \/ f \in BOOLEAN /\ CreateBean(r, h, b, f)
         \/ c \in Ids /\ (AddBag(r, h, c, b) \/ AddEvent(r, h, c, b))
  PROVE  AllLocal'
<1>1. /\ NewEntry(h, b, NULL, NULL) \in Entry
      /\ c \in Ids => NewEntry(h, b, NULL, c) \in Entry
      /\ f \in BOOLEAN => [NewEntry(h, b, NULL, NULL) EXCEPT !.edited = f] \in Entry
  BY DEF NewEntry, Entry
<1>2. NewEntry(h, b, NULL, NULL).home = h /\ NewEntry(h, b, NULL, c).home = h
      /\ [NewEntry(h, b, NULL, NULL) EXCEPT !.edited = f].home = h
  BY DEF NewEntry
<1>3. CASE c \in Ids /\ f \in BOOLEAN /\ CreateHardware(r, h, c, b, f)
  BY <1>1, <1>2, <1>3, NewRowLocal DEF CreateHardware, SheetsNextId
<1>4. CASE f \in BOOLEAN /\ CreateBean(r, h, b, f)
  BY <1>1, <1>2, <1>4, NewRowLocal DEF CreateBean
<1>5. CASE c \in Ids /\ AddBag(r, h, c, b)
  BY <1>1, <1>2, <1>5, NewRowLocal, RefuseLocal DEF AddBag
<1>6. CASE c \in Ids /\ AddEvent(r, h, c, b)
  BY <1>1, <1>2, <1>6, NewRowLocal, RefuseLocal DEF AddEvent
<1> QED
  BY <1>3, <1>4, <1>5, <1>6

LEMMA EditLocal ==
  ASSUME AllLocal, RowsOK, NEW r \in Requests, NEW h \in Households, NEW i \in Ids,
         NEW b, NEW f,
         \/ b \in Bodies /\ (EditHardware(r, h, i, b) \/ EditBean(r, h, i, b))
         \/ f \in BOOLEAN /\ PatchBag(r, h, i, f)
  PROVE  AllLocal'
<1>1. ASSUME NEW t \in {"catalog", "inventory_bags", "hardware"}, i \in VisibleTo(h, t)
      PROVE  /\ b \in Bodies => [row[t][i] EXCEPT !.body = b] \in Entry
             /\ [row[t][i] EXCEPT !.body = b].home = h
             /\ f \in BOOLEAN => [row[t][i] EXCEPT !.edited = f] \in Entry
             /\ [row[t][i] EXCEPT !.edited = f].home = h
  <2>1. row[t][i] \in Entry /\ row[t][i].home = h
    BY <1>1, VisibleEntry DEF Tables
  <2> QED
    BY <2>1 DEF Entry
<1>2. CASE b \in Bodies /\ EditHardware(r, h, i, b)
  BY <1>1, <1>2, NewRowLocal, RefuseLocal DEF EditHardware, Edit
<1>3. CASE b \in Bodies /\ EditBean(r, h, i, b)
  BY <1>1, <1>3, NewRowLocal, RefuseLocal DEF EditBean, Edit
<1>4. CASE f \in BOOLEAN /\ PatchBag(r, h, i, f)
  BY <1>1, <1>4, NewRowLocal, RefuseLocal DEF PatchBag, Edit
<1> QED
  BY <1>2, <1>3, <1>4

LEMMA UploadImageLocal ==
  ASSUME AllLocal, NEW r \in Requests, NEW h \in Households, NEW i \in Ids, UploadImage(r, h, i)
  PROVE  AllLocal'
<1> DEFINE q == Admitted("edit", "uploading", h, "catalog", i, NULL)
<1>1. Committing(q) /\ Ready(q)
  BY DEF Admitted, Waiting, Committing, Ready, Silent
<1>2. Local(q)
  BY <1>1, AdmittedLocal DEF Steps, Tables
<1> HIDE DEF q
<1> QED
  BY <1>2, OthersLocal, RefuseLocal DEF UploadImage, Edit, Become, q

LEMMA RefetchBeanLocal ==
  ASSUME AllLocal, RowsOK, NEW r \in Requests, RefetchBean(r)
  PROVE  AllLocal'
<1>1. Local(req[r]) /\ req[r].step = "uploading" /\ req[r].id \in Ids
  BY DEF AllLocal, RefetchBean, Local, Ready
<1>2. CASE req[r].id \in Visible(r, "catalog")
  <2> DEFINE e == [row["catalog"][req[r].id] EXCEPT !.edited = TRUE]
             q == [req[r] EXCEPT !.step = "selecting", !.new = e]
  <2>1. req[r].ctx \in Households \cup {NULL} /\ req[r].ctx \in {req[r].home, NULL}
    BY <1>1 DEF Local, Request, AtHome
  <2>2. row["catalog"][req[r].id] \in Entry /\ row["catalog"][req[r].id].home = req[r].home
    BY <1>2, <2>1, VisibleEntry DEF Visible, Tables
  <2>3. e \in Entry /\ e.home = req[r].home
    BY <2>2 DEF Entry
  <2> HIDE DEF e
  <2>4. Local(q)
    BY <1>1, <2>3, ZenonT(60) DEF Local, Request, Steps, AtHome, Committing, Ready, Truthful, Silent
  <2>5. req' = [req EXCEPT ![r] = q]
    BY <1>2 DEF RefetchBean, e
  <2> QED
    BY <2>4, <2>5, OthersLocal
<1>3. CASE req[r].id \notin Visible(r, "catalog")
  BY <1>3, AnswerLocal DEF RefetchBean, Answers
<1> QED
  BY <1>2, <1>3

LEMMA SelectRowLocal ==
  ASSUME AllLocal, RowsOK, NEW r \in Requests, SelectRow(r)
  PROVE  AllLocal'
<1> DEFINE e == IF req[r].id \in Visible(r, req[r].table) THEN row[req[r].table][req[r].id]
                ELSE NULL
           q == [req[r] EXCEPT !.step = "writing", !.seen = e]
<1>1. Local(req[r]) /\ req[r].step = "selecting" /\ req[r].table \in Tables
  BY DEF AllLocal, SelectRow, Local, Request
<1>2. req[r].ctx \in Households \cup {NULL} /\ req[r].ctx \in {req[r].home, NULL}
  BY <1>1 DEF Local, Request, AtHome
<1>3. e \in Entry \cup {NULL} /\ (e # NULL => e.home = req[r].home)
  BY <1>1, <1>2, VisibleEntry DEF Visible
<1> HIDE DEF e
<1>4. q \in Request
  BY <1>1, <1>3 DEF Local, Request, Steps
<1>5. AtHome(q)
  BY <1>1, <1>3 DEF Local, Request, AtHome
<1>6. Committing(q) /\ Truthful(q)
  BY <1>1 DEF Local, Request, Committing, Truthful, Silent
<1>7. Ready(q)
  BY <1>1 DEF Local, Request, Ready
<1>8. req' = [req EXCEPT ![r] = q]
  BY DEF SelectRow, e
<1> QED
  BY <1>4, <1>5, <1>6, <1>7, <1>8, OthersLocal DEF Local

LEMMA CommittedLocal ==
  ASSUME AllLocal, NEW r \in Requests, req[r].step = "writing", Become(r, Committed(r))
  PROVE  AllLocal'
<1> DEFINE q == req[r]
           s == IF q.op = "picture" THEN "picturing" ELSE "answered"
           a == CASE q.op = "create" -> "created" [] q.op = "edit" -> "ok" [] OTHER -> NULL
           n == [q EXCEPT !.wrote = TRUE, !.ctx = NULL, !.step = s, !.answer = a]
<1>1. Local(q) /\ q.step = "writing" /\ ~q.wrote
  BY DEF AllLocal, Local, Committing, Silent
<1>2. q.op \in {"create", "edit"} \/ (q.op = "picture" /\ q.table = "hardware")
  BY <1>1 DEF Local, Committing
<1>3. /\ a \in Answers \cup {NULL} /\ a # "failed" /\ (s # "answered" => a = NULL)
      /\ a \notin {"refused", "replayed", "conflict", "timeout"}
  BY <1>2 DEF Answers
<1>4. s \in {"picturing", "answered"} /\ (s = "picturing" => q.table = "hardware")
  BY <1>2
<1> HIDE DEF s, a
<1>5. n \in Request
  BY <1>1, <1>3, <1>4 DEF Local, Request, Steps
<1>6. AtHome(n)
  BY <1>1 DEF Local, Request, AtHome
<1>7. Committing(n) /\ Truthful(n)
  BY <1>1, <1>3, <1>4 DEF Local, Request, Committing, Truthful, Silent
<1>8. Ready(n)
  BY <1>1, <1>4 DEF Local, Request, Ready
<1>9. req' = [req EXCEPT ![r] = n]
  BY DEF Become, Committed, s, a
<1> QED
  BY <1>5, <1>6, <1>7, <1>8, <1>9, OthersLocal DEF Local

LEMMA WriteRowLocal ==
  ASSUME AllLocal, NEW r \in Requests, WriteRow(r)
  PROVE  AllLocal'
<1>1. req[r].step = "writing" /\ ~req[r].wrote
  BY DEF AllLocal, WriteRow, Local, Committing, Silent
<1>2. CASE Become(r, Committed(r))
  BY <1>1, <1>2, CommittedLocal
<1>3. CASE Answer(r, WriteError(r))
  BY <1>1, <1>3, AnswerLocal DEF WriteError, Answers
<1> QED
  BY <1>2, <1>3 DEF WriteRow

LEMMA SavePictureLocal ==
  ASSUME AllLocal, NEW r \in Requests, SavePicture(r)
  PROVE  AllLocal'
<1>1. req[r].wrote
  BY DEF AllLocal, SavePicture, Local, Committing
<1> QED
  BY <1>1, AnswerLocal DEF SavePicture, Answers

LEMMA AppendEventLocal ==
  ASSUME AllLocal, NEW r \in Requests, AppendEvent(r)
  PROVE  AllLocal'
<1> DEFINE n == [req[r] EXCEPT !.step = "refreshing", !.ctx = NULL, !.wrote = TRUE]
<1>1. Local(req[r]) /\ req[r].step = "appending" /\ ~req[r].wrote
  BY DEF AllLocal, AppendEvent, Local, Committing, Silent
<1>2. Local(n)
  BY <1>1, ZenonT(60) DEF Local, Request, Steps, Answers, AtHome, Committing, Ready, Truthful, Silent
<1>3. Become(r, n) \/ Answer(r, WriteError(r))
  BY DEF AppendEvent
<1>4. CASE Become(r, n)
  BY <1>2, <1>4, OthersLocal DEF Become
<1>5. CASE Answer(r, WriteError(r))
  BY <1>1, <1>5, AnswerLocal DEF WriteError, Answers
<1> QED
  BY <1>3, <1>4, <1>5

LEMMA RefreshEventLocal ==
  ASSUME AllLocal, NEW r \in Requests, RefreshEvent(r)
  PROVE  AllLocal'
<1>1. req[r].wrote /\ req[r].table = "maintenance_log"
  BY DEF AllLocal, RefreshEvent, Local, Committing
<1>2. Answer(r, "created") \/ Answer(r, "failed")
  BY DEF RefreshEvent, WriteError
<1> QED
  BY <1>1, <1>2, AnswerLocal DEF Answers

LEMMA ReadEquipmentLocal ==
  ASSUME AllLocal, RowsOK, NEW r \in Requests, NEW h \in Households, NEW i,
         \/ ListHardware(r, h) \/ ShowHardware(r, h, i) \/ ListEvents(r, h)
         \/ ListBeans(r, h) \/ ShowBean(r, h, i) \/ ListBags(r, h) \/ ShowBag(r, h, i)
  PROVE  AllLocal'
  BY ReadLocal, ReadOneLocal
     DEF ListHardware, ShowHardware, ListEvents, ListBeans, ShowBean, ListBags, ShowBag, Tables

-----------------------------------------------------------------------------
(* Guest links, and the rest.                                              *)

\* A request about links.
LEMMA LinkRequestLocal ==
  ASSUME AllLocal, NEW r \in Requests, NEW h \in Households, NEW s \in {"linking", "closing"},
         NEW ls \in SUBSET Links,
         Become(r, [Admitted("link", s, h, "brew_log", NULL, NULL) EXCEPT !.links = ls])
  PROVE  AllLocal'
<1> DEFINE q == Admitted("link", s, h, "brew_log", NULL, NULL)
           n == [q EXCEPT !.links = ls]
<1>1. Committing(q) /\ Ready(q)
  BY DEF Admitted, Waiting, Committing, Ready, Silent
<1>2. Local(q)
  BY <1>1, AdmittedLocal DEF Steps, Tables
<1>4. q.step = s
  BY DEF Admitted, Waiting
<1> HIDE DEF q
<1>3. Local(n)
  BY <1>2, <1>4 DEF Local, Request, AtHome, Committing, Ready, Truthful
<1> QED
  BY <1>3, OthersLocal DEF Become, q

LEMMA OpenLinkLocal ==
  ASSUME AllLocal, NEW r \in Requests, NEW l \in Links, OpenLink(r, l),
         Active(l) => link[l].home \in Households
  PROVE  AllLocal'
<1> DEFINE h == link[l].home
           q == Admitted("read", "viewing", h, "brew_log", NULL, NULL)
<1>1. CASE Active(l)
  <2>1. Committing(q) /\ Ready(q)
    BY <1>1 DEF Admitted, Waiting, Committing, Ready, Silent
  <2>2. Local(q)
    BY <1>1, <2>1, AdmittedLocal DEF Steps, Tables
  <2> QED
    BY <1>1, <2>2, OthersLocal DEF OpenLink, Become
<1>2. CASE ~Active(l)
  <2>1. ~Waiting.wrote
    BY DEF Waiting
  <2>2. Local(Answered(Waiting, "refused"))
    BY <2>1, NothingLocal, AnsweredLocal DEF Answers
  <2> QED
    BY <1>2, <2>2, OthersLocal DEF OpenLink, Become
<1> QED
  BY <1>1, <1>2

LEMMA ViewAsGuestLocal ==
  ASSUME AllLocal, RowsOK, NEW r \in Requests, ViewAsGuest(r)
  PROVE  AllLocal'
<1> DEFINE h == req[r].home
           s == Displayed(h, Tables)
           n == Answered(req[r], "ok")
<1>1. Local(req[r]) /\ h \in Households /\ ~req[r].wrote
  BY DEF AllLocal, ViewAsGuest, Local, Ready, Committing, Silent
<1>2. s \subseteq {h} /\ s \in SUBSET Households
  BY <1>1, DisplaysHome
<1>3. Local(n)
  BY <1>1, AnsweredLocal DEF Answers
<1>7. n.home = h
  BY <1>1 DEF Answered, Local, Request
<1> HIDE DEF n, s
<1>4. Local([n EXCEPT !.shown = s])
  BY <1>2, <1>3, <1>7, ShownLocal
<1>5. CASE req' = [req EXCEPT ![r] = [n EXCEPT !.shown = s]]
  BY <1>4, <1>5, OthersLocal
<1>6. CASE Answer(r, "refused")
  BY <1>1, <1>6, AnswerLocal DEF Answers
<1> QED
  BY <1>5, <1>6 DEF ViewAsGuest, Become, n, s

LEMMA CommitLinkLocal ==
  ASSUME AllLocal, NEW r \in Requests, CommitLink(r) \/ CommitRevocation(r)
  PROVE  AllLocal'
<1>1. ~req[r].wrote /\ (req[r].step = "linking" => req[r].op = "link")
  BY DEF AllLocal, CommitLink, CommitRevocation, Local, Committing, Silent
<1>2. \/ req[r].step = "linking" /\ (Answer(r, "created") \/ Answer(r, "failed"))
      \/ Answer(r, "ok")
  BY DEF CommitLink, CommitRevocation
<1> QED
  BY <1>1, <1>2, AnswerLocal DEF Answers

LEMMA AbortLocal ==
  ASSUME AllLocal, NEW r \in Requests, Abort(r)
  PROVE  AllLocal'
  BY AnswerLocal DEF Abort, Answers
=============================================================================
