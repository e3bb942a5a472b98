------------------------------- MODULE BrewLog -------------------------------
(***************************************************************************)
(* The brew log: creation of shots with idempotency keys and ids numbered  *)
(* from the rows the household can see, AI feedback written after the      *)
(* commit in a second transaction, corrections and deletion.               *)
(*                                                                         *)
(* A body stands for all fields the request hash is computed from, so two  *)
(* requests have one hash iff they have one body.  Ids are the numbers of  *)
(* one day.  The in-process IdempotencyStore is written at the end of a    *)
(* creation and read only without Postgres, where every handler refuses    *)
(* its caller first: it is left out.                                       *)
(***************************************************************************)
EXTENDS Tenancy

Shots == row["brew_log"]

\* make_shot_id: one more than the highest number among the ids given.
Follows(i, ids) ==
  (\A j \in ids : j < i) /\ (i = 1 \/ i - 1 \in ids)

WithKey(ctx, k) == {i \in VisibleTo(ctx, "brew_log") : Shots[i].key = k}

SamePayload(i, b) == Shots[i].body = b

\* _existing_idempotent_response for the stored shot i.
Replay(q, i) ==
  [Answered(q, IF SamePayload(i, q.new.body) THEN "replayed" ELSE "conflict")
     EXCEPT !.shown = IF SamePayload(i, q.new.body) THEN {Shots[i].home} ELSE {}]

CreateShot(r, h, k, b) ==
  /\ MayBegin(r, h)
  /\ LET q == Admitted("create", "numbering", h, "brew_log", NULL, NewEntry(h, b, k, NULL))
     IN  IF k # NULL /\ WithKey(h, k) # {}
         THEN \E i \in WithKey(h, k) : Become(r, Replay(q, i))
         ELSE Become(r, q)
  /\ UNCHANGED <<live, row>>

\* list_existing_ids and make_shot_id.
NumberShot(r) ==
  /\ req[r].step = "numbering"
  /\ \E i \in Ids : /\ Follows(i, Visible(r, "brew_log"))
                    /\ req' = [req EXCEPT ![r].step = "inserting", ![r].id = i]
  /\ UNCHANGED <<live, row>>

\* INSERT and commit; set_household_context for the feedback.  An IntegrityError
\* is followed by a rollback and, with a key, a second look for its shot.
InsertShot(r) ==
  LET q == req[r] IN
  /\ q.step = "inserting"
  /\ \/ /\ Allowed(r, "brew_log", q.id, q.new)
        /\ Put("brew_log", q.id, q.new)
        /\ req' = [req EXCEPT ![r].step = "feeding", ![r].wrote = TRUE]
     \/ /\ ~Allowed(r, "brew_log", q.id, q.new)
        /\ IF q.new.key = NULL THEN Answer(r, WriteError(r)) ELSE Goto(r, "retried")
        /\ UNCHANGED row
  /\ UNCHANGED live

\* No shot with the key is there, or the household to look in cannot be read:
\* the rollback has expired the object of the membership.
RetryShot(r) ==
  LET q == req[r] IN
  /\ q.step = "retried"
  /\ \/ Answer(r, "failed")
     \/ \E i \in WithKey(q.ctx, q.new.key) : Become(r, Replay(q, i))
  /\ UNCHANGED <<live, row>>

-----------------------------------------------------------------------------
(* get_ai_feedback, for at most 35 seconds.                                *)

\* POST /brew-log/{shot_id}/feedback.
GenerateFeedback(r, h, i) ==
  /\ MayBegin(r, h)
  /\ IF i \in VisibleTo(h, "brew_log")
     THEN Become(r, Admitted("feedback", "feeding", h, "brew_log", i, NULL))
     ELSE Refuse(r, h)
  /\ UNCHANGED <<live, row>>

\* Without a result a creation goes on, a generation reports an error.
WithoutFeedback(r) == IF req[r].op = "create" THEN "created" ELSE "failed"

\* The shot is read again.  It may be gone by now; feedback that is there
\* already is not generated again for a creation.
ReadForFeedback(r) ==
  LET i == req[r].id IN
  /\ req[r].step = "feeding"
  /\ IF i \notin Visible(r, "brew_log") THEN Answer(r, WithoutFeedback(r))
     ELSE IF req[r].op = "create" /\ Shots[i].feedback THEN Answer(r, "created")
     ELSE Goto(r, "asking")
  /\ UNCHANGED <<live, row>>

\* The model has answered: update_feedback, an UPDATE by id and household, and
\* its commit, after which the time may be over as well.
StoreFeedback(r) ==
  LET i == req[r].id
      there == i \in Visible(r, "brew_log")
      Done(a) == Become(r, [Answered(req[r], a) EXCEPT !.wrote = @ \/ there])
  IN
  /\ req[r].step = "asking"
  /\ IF there THEN Put("brew_log", i, [Shots[i] EXCEPT !.feedback = TRUE])
     ELSE UNCHANGED row
  /\ \/ req[r].op = "create" /\ Done("created")
     \/ req[r].op = "feedback" /\ (Done("ok") \/ Done("timeout"))
  /\ UNCHANGED live

\* The model fails, or 35 seconds have passed.
GiveUpFeedback(r) ==
  /\ req[r].step \in {"feeding", "asking"}
  /\ \/ Answer(r, WithoutFeedback(r))
     \/ req[r].op = "feedback" /\ Answer(r, "timeout")
  /\ UNCHANGED <<live, row>>

-----------------------------------------------------------------------------
(* Corrections, deletion, reading.                                         *)

\* update_correction: UPDATE ... RETURNING, and commit.  The names of the
\* answer are then looked up without a household: there are none.
PatchShot(r, h, i) ==
  /\ MayBegin(r, h)
  /\ IF i \in VisibleTo(h, "brew_log")
     THEN /\ Put("brew_log", i, [Shots[i] EXCEPT !.edited = TRUE])
          /\ Become(r, [Answered(Waiting, "ok") EXCEPT !.home = h, !.wrote = TRUE,
                          !.shown = {h} \cup Displayed(NULL, Tables)])
     ELSE Refuse(r, h) /\ UNCHANGED row
  /\ UNCHANGED live

\* delete_by_shot_id, for an admin: the check, then the deletion by id.
CheckDelete(r, h, i) ==
  /\ MayBegin(r, h)
  /\ IF i \in VisibleTo(h, "brew_log")
     THEN Become(r, Admitted("edit", "deleting", h, "brew_log", i, NULL))
     ELSE Refuse(r, h)
  /\ UNCHANGED <<live, row>>

DeleteShot(r) ==
  LET i == req[r].id
      there == i \in Visible(r, "brew_log")
  IN
  /\ req[r].step = "deleting"
  /\ IF there THEN Put("brew_log", i, NULL) ELSE UNCHANGED row
  /\ Become(r, [Answered(req[r], "ok") EXCEPT !.wrote = there])
  /\ UNCHANGED live

ListShots(r, h) == Read(r, h, {"brew_log", "inventory_bags", "catalog", "hardware"})

ShowShot(r, h, i) ==
  ReadOne(r, h, "brew_log", i, {"brew_log", "inventory_bags", "catalog", "hardware"})

ShowFeedback(r, h, i) == ReadOne(r, h, "brew_log", i, {"brew_log"})

Dashboard(r, h) == Read(r, h, {"inventory_bags", "catalog", "brew_log"})

BrewLogNext ==
  \E r \in Requests :
    \/ /\ focus = "brew_log"
       /\ \E h \in Households :
            \/ ListShots(r, h) \/ Dashboard(r, h)
            \/ \E b \in Bodies, k \in Keys \cup {NULL} : CreateShot(r, h, k, b)
            \/ \E i \in Ids : \/ GenerateFeedback(r, h, i) \/ PatchShot(r, h, i)
                              \/ CheckDelete(r, h, i) \/ ShowShot(r, h, i)
                              \/ ShowFeedback(r, h, i)
    \/ /\ focus = "guest"   \* so that guests have something to read
       /\ \E h \in Households, b \in Bodies : CreateShot(r, h, NULL, b)
    \/ NumberShot(r) \/ InsertShot(r) \/ RetryShot(r)
    \/ ReadForFeedback(r) \/ StoreFeedback(r) \/ GiveUpFeedback(r)
    \/ DeleteShot(r)
=============================================================================
