------------------------------ MODULE Equipment ------------------------------
(***************************************************************************)
(* Hardware, maintenance events, the bean catalog and inventory bags.      *)
(*                                                                         *)
(* Except for maintenance events, rows are written by an upsert: a SELECT  *)
(* by id, which sees the household's rows only, then an INSERT, or an      *)
(* UPDATE of the columns in which the new row differs from the one just    *)
(* selected, and the commit.                                               *)
(*                                                                         *)
(* Bags of one roaster, roast date and roast level are modelled: all ids   *)
(* of a behaviour are one base and its collision suffixes.                 *)
(***************************************************************************)
EXTENDS Tenancy

\* make_inventory_id: the base if it is free, or the first free suffix.
FirstFree(i, ids) == i \notin ids /\ \A j \in Ids : j < i => j \in ids

\* _next_catalog_id and make_maintenance_id: one more than the highest.
OneMore(i, ids) == (\A j \in ids : j < i) /\ (i = 1 \/ i - 1 \in ids)

-----------------------------------------------------------------------------
(* Creation.                                                               *)

SheetsNextIdFaulty(c) == c - 1

\* next_id looks in the archived sheet, which nobody writes any more: for a
\* category c it is always the same number.
SheetsNextId(c) == c

CreateHardware(r, h, c, b, url) ==
  /\ MayBegin(r, h)
  /\ Become(r, Admitted(IF url THEN "picture" ELSE "create", "selecting", h, "hardware",
                        SheetsNextId(c), NewEntry(h, b, NULL, NULL)))
  /\ UNCHANGED <<live, row>>

\* The image is sourced and uploaded between the numbering and the upsert.
CreateBean(r, h, b, image) ==
  /\ MayBegin(r, h)
  /\ \E i \in Ids :
       /\ OneMore(i, VisibleTo(h, "catalog"))
       /\ Become(r, Admitted("create", "selecting", h, "catalog", i,
                             [NewEntry(h, b, NULL, NULL) EXCEPT !.edited = image]))
  /\ UNCHANGED <<live, row>>

AddBag(r, h, c, b) ==
  /\ MayBegin(r, h)
  /\ IF c \notin VisibleTo(h, "catalog") THEN Refuse(r, h)
     ELSE \E i \in Ids :
            /\ FirstFree(i, VisibleTo(h, "inventory_bags"))
            /\ Become(r, Admitted("create", "selecting", h, "inventory_bags", i,
                                  NewEntry(h, b, NULL, c)))
  /\ UNCHANGED <<live, row>>

AddEvent(r, h, c, b) ==
  /\ MayBegin(r, h)
  /\ IF c \notin VisibleTo(h, "hardware") THEN Refuse(r, h)
     ELSE \E i \in Ids :
            /\ OneMore(i, VisibleTo(h, "maintenance_log"))
            /\ Become(r, Admitted("create", "appending", h, "maintenance_log", i,
                                  NewEntry(h, b, NULL, c)))
  /\ UNCHANGED <<live, row>>

-----------------------------------------------------------------------------
(* Changes of a row read before.                                           *)

Edit(r, h, t, i, new, s) ==
  /\ MayBegin(r, h)
  /\ IF i \in VisibleTo(h, t) THEN Become(r, Admitted("edit", s, h, t, i, new))
     ELSE Refuse(r, h)
  /\ UNCHANGED <<live, row>>

EditHardware(r, h, i, b) ==
  Edit(r, h, "hardware", i, [row["hardware"][i] EXCEPT !.body = b], "selecting")

EditBean(r, h, i, b) ==
  Edit(r, h, "catalog", i, [row["catalog"][i] EXCEPT !.body = b], "selecting")

PatchBag(r, h, i, finished) ==
  Edit(r, h, "inventory_bags", i, [row["inventory_bags"][i] EXCEPT !.edited = finished],
       "selecting")

UploadImage(r, h, i) == Edit(r, h, "catalog", i, NULL, "uploading")

\* The image is stored; the entry is read again, and left alone if it is gone.
RefetchBean(r) ==
  LET i == req[r].id IN
  /\ req[r].step = "uploading"
  /\ IF i \in Visible(r, "catalog")
     THEN req' = [req EXCEPT ![r].step = "selecting",
                             ![r].new = [row["catalog"][i] EXCEPT !.edited = TRUE]]
     ELSE Answer(r, "ok")
  /\ UNCHANGED <<live, row>>

-----------------------------------------------------------------------------
(* The upsert.                                                             *)

SelectRow(r) ==
  LET q == req[r] IN
  /\ q.step = "selecting"
  /\ req' = [req EXCEPT ![r].step = "writing",
               ![r].seen = IF q.id \in Visible(r, q.table) THEN row[q.table][q.id] ELSE NULL]
  /\ UNCHANGED <<live, row>>

MergedFaulty(seen, new, now) == [now EXCEPT !.body = new.body, !.edited = new.edited]

\* The row as it is now, with the columns that the writer changed.
Merged(seen, new, now) ==
  [now EXCEPT !.body = IF new.body = seen.body THEN @ ELSE new.body,
              !.edited = IF new.edited = seen.edited THEN @ ELSE new.edited,
              !.ref = IF new.ref = seen.ref THEN @ ELSE new.ref]

StillThereFaulty(q) == row[q.table][q.id] # NULL

\* Rows of these tables go away only with their household.
StillThere(q) == row[q.table][q.id] # NULL /\ row[q.table][q.id].home = q.seen.home

\* Then there is nothing to send.
Same(q) ==
  /\ q.new.body = q.seen.body
  /\ q.new.edited = q.seen.edited
  /\ q.new.ref = q.seen.ref

Committed(r) ==
  [req[r] EXCEPT !.wrote = TRUE, !.ctx = NULL,
                 !.step = IF req[r].op = "picture" THEN "picturing" ELSE "answered",
                 !.answer = CASE req[r].op = "create" -> "created"
                              [] req[r].op = "edit" -> "ok"
                              [] OTHER -> NULL]

WriteRow(r) ==
  LET q == req[r] IN
  /\ q.step = "writing"
  /\ \/ /\ q.seen = NULL /\ Allowed(r, q.table, q.id, q.new)
        /\ Put(q.table, q.id, q.new)
        /\ Become(r, Committed(r))
     \/ /\ q.seen # NULL /\ Same(q)
        /\ Become(r, Committed(r))
        /\ UNCHANGED row
     \/ /\ q.seen # NULL /\ ~Same(q) /\ StillThere(q)
        /\ Put(q.table, q.id, Merged(q.seen, q.new, row[q.table][q.id]))
        /\ Become(r, Committed(r))
     \/ /\ IF q.seen = NULL THEN ~Allowed(r, q.table, q.id, q.new)
                            ELSE ~Same(q) /\ ~StillThere(q)
        /\ Answer(r, WriteError(r))
        /\ UNCHANGED row
  /\ UNCHANGED live

\* A second upsert is to store the image of the new item.  It runs after the
\* commit, without a household: it sees no row, its INSERT is rejected, and the
\* exception is logged as a failure of the image pipeline.
SavePicture(r) ==
  LET q == req[r]
      e == [q.new EXCEPT !.edited = TRUE]
  IN
  /\ q.step = "picturing"
  /\ row' = IF q.id \in Visible(r, "hardware") \/ Allowed(r, "hardware", q.id, e)
            THEN [row EXCEPT !["hardware"][q.id] = e]
            ELSE row
  /\ Answer(r, "created")
  /\ UNCHANGED live

\* A maintenance event is inserted and committed, then refreshed from a new
\* transaction, without a household: the row is not found, and the answer is an
\* error although the event is there.
AppendEvent(r) ==
  LET q == req[r] IN
  /\ q.step = "appending"
  /\ IF Allowed(r, q.table, q.id, q.new)
     THEN /\ Put(q.table, q.id, q.new)
          /\ Become(r, [q EXCEPT !.step = "refreshing", !.ctx = NULL, !.wrote = TRUE])
     ELSE Answer(r, WriteError(r)) /\ UNCHANGED row
  /\ UNCHANGED live

RefreshEvent(r) ==
  /\ req[r].step = "refreshing"
  /\ Answer(r, IF req[r].id \in Visible(r, "maintenance_log") THEN "created"
               ELSE WriteError(r))
  /\ UNCHANGED <<live, row>>

-----------------------------------------------------------------------------
(* Reading.                                                                *)

ListHardware(r, h) == Read(r, h, {"hardware"})
ShowHardware(r, h, i) == ReadOne(r, h, "hardware", i, {"hardware", "maintenance_log"})
ListEvents(r, h) == Read(r, h, {"maintenance_log", "hardware"})
ListBeans(r, h) == Read(r, h, {"catalog"})
ShowBean(r, h, i) ==
  ReadOne(r, h, "catalog", i, {"catalog", "inventory_bags", "brew_log", "hardware"})
ListBags(r, h) == Read(r, h, {"inventory_bags", "catalog"})
ShowBag(r, h, i) == ReadOne(r, h, "inventory_bags", i, {"inventory_bags", "catalog"})

EquipmentNext ==
  \E r \in Requests :
    \/ /\ focus = "hardware"
       /\ \E h \in Households :
            \/ ListHardware(r, h) \/ ListEvents(r, h)
            \/ \E i \in Ids : ShowHardware(r, h, i)
            \/ \E i \in Ids, b \in Bodies : \/ AddEvent(r, h, i, b) \/ EditHardware(r, h, i, b)
                                            \/ \E url \in BOOLEAN : CreateHardware(r, h, i, b, url)
    \/ /\ focus = "catalog"
       /\ \E h \in Households :
            \/ ListBeans(r, h)
            \/ \E b \in Bodies, image \in BOOLEAN : CreateBean(r, h, b, image)
            \/ \E i \in Ids : ShowBean(r, h, i) \/ UploadImage(r, h, i)
            \/ \E i \in Ids, b \in Bodies : EditBean(r, h, i, b)
    \/ /\ focus \in {"catalog", "bags"}
       /\ \E h \in Households :
            \/ ListBags(r, h)
            \/ \E i \in Ids : ShowBag(r, h, i)
            \/ \E i \in Ids, b \in Bodies : AddBag(r, h, i, b)
            \/ \E i \in Ids, finished \in BOOLEAN : PatchBag(r, h, i, finished)
    \/ RefetchBean(r) \/ SelectRow(r) \/ WriteRow(r) \/ SavePicture(r)
    \/ AppendEvent(r) \/ RefreshEvent(r)
=============================================================================
