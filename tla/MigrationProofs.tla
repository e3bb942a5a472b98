-------------------------- MODULE MigrationProofs --------------------------
(***************************************************************************)
(* Theorems about Migration, for every value of its constants.             *)
(*                                                                         *)
(* What a run reports at its end rests on what it has read on the way: the *)
(* lookups were read back before the tab that uses them, and every tab     *)
(* loaded so far still has its rows, as far as the application may not     *)
(* take them away.                                                         *)
(***************************************************************************)
EXTENDS Migration, TLAPS

USE MigrationAssumption

-----------------------------------------------------------------------------
(* The inductive invariant.                                                *)

RunFacts ==
  /\ run.step # "idle" => run.verdict = NULL
  /\ run.step \in {"household", "seeding"} => run.at = 1
  /\ run.step = "looking" => run.at \in {2, 4}
  /\ run.step \in {"loading", "looking"} => run.home \in Households /\ house[run.home] # "none"

\* A household is seeded only when there is none, and has no rows before.
SeedFacts ==
  /\ run.step = "seeding" => \A h \in Households : house[h] # "seeded"
  /\ \A t \in Tables, i \in Ids : row[t][i] # NULL => house[row[t][i].home] # "none"

\* Only bags and events name something, and refer to something.
NamesFacts ==
  \A t \in Tables, i \in Ids :
    /\ named[t][i] # NULL => Referred(t) # NULL
    /\ row[t][i] # NULL /\ row[t][i].ref # NULL => Referred(t) # NULL

\* The lookup that the next tab is given.
Lookup(t) == run.step = "loading" /\ run.at \in 1..5 /\ Referred(Order[run.at]) = t

Sound(t) ==
  ~bypass => \A k \in run.known \ run.lost : In(t, k, run.home)

Complete(t) ==
  run.entities = Tables /\ ~run.errors /\ house[run.home] # "deleted" =>
    \A k \in Ids : line[t][k] # "none" => k \in run.known

Exact(t) ==
  valid /\ bypass => \A k \in Ids : k \in run.known <=> line[t][k] = "good"

LookupRight == \A t \in Tables : Lookup(t) => Sound(t) /\ Complete(t) /\ Exact(t)

\* The lines of t are in household h, and refer to what they name.
Migrated(t, h) ==
  \A i \in Ids : line[t][i] # "none" =>
    /\ line[t][i] = "good"
    /\ Stays(t, h) =>
         /\ In(t, i, h)
         /\ house[h] = "seeded" => row[t][i].same
         /\ named[t][i] # NULL /\ line[Referred(t)][named[t][i]] # "none"
              => row[t][i].ref = named[t][i]

Progress ==
  run.step \in {"loading", "looking"} /\ run.entities = Tables /\ ~run.errors =>
    \A j \in 1..(run.at - 1) : Migrated(Order[j], run.home)

IInv ==
  /\ TypeOK /\ RunFacts /\ SeedFacts /\ NamesFacts /\ SeedsOnce /\ ReferencesStayInside
  /\ LookupRight /\ Progress /\ ValidMeansFaithful

-----------------------------------------------------------------------------
(* The tabs.                                                               *)

LEMMA OrderFacts ==
  /\ Order[1] = "Catalog" /\ Order[2] = "Inventory" /\ Order[3] = "Hardware"
  /\ Order[4] = "Maintenance" /\ Order[5] = "Brew_Log"
  BY DEF Order

LEMMA OrderOnce ==
  /\ \A j \in 1..5 : Order[j] \in Tables
  /\ \A j, k \in 1..5 : Order[j] = Order[k] => j = k
  /\ \A t \in Tables : \E j \in 1..5 : Order[j] = t
<1>1. \A j \in 1..5 : j \in {1, 2, 3, 4, 5}
  OBVIOUS
<1>2. {1, 2, 3, 4, 5} \subseteq 1..5
  OBVIOUS
<1>. QED  BY <1>1, <1>2, OrderFacts DEF Tables

\* A lookup is of the tab loaded just before, after which a run looks.
LEMMA ReferredBefore ==
  /\ \A t \in Tables : Referred(t) # NULL => Referred(t) \in Tables /\ Referred(t) # t
  /\ \A j \in 1..5 : Referred(Order[j]) # NULL =>
       j \in {2, 4} /\ Referred(Order[j]) = Order[j - 1]
  /\ \A j \in 1..5 : After(Order[j]) = "looking" => j + 1 \in {2, 4}
  /\ \A j \in 1..5 : After(Order[j]) = "loading" => j + 1 \notin {2, 4}
  /\ \A t \in Tables : After(t) \in {"loading", "looking"}
<1>1. \A t \in Tables : Referred(t) # NULL => Referred(t) \in Tables /\ Referred(t) # t
  BY DEF Referred, Tables
<1>2. ASSUME NEW j \in 1..5
      PROVE  /\ Referred(Order[j]) # NULL => j \in {2, 4} /\ Referred(Order[j]) = Order[j - 1]
             /\ After(Order[j]) = "looking" => j + 1 \in {2, 4}
             /\ After(Order[j]) = "loading" => j + 1 \notin {2, 4}
  <2>1. CASE j = 1  BY <2>1, OrderFacts DEF Referred, After
  <2>2. CASE j = 2  BY <2>2, OrderFacts DEF Referred, After
  <2>3. CASE j = 3  BY <2>3, OrderFacts DEF Referred, After
  <2>4. CASE j = 4  BY <2>4, OrderFacts DEF Referred, After
  <2>5. CASE j = 5  BY <2>5, OrderFacts DEF Referred, After
  <2>. QED  BY <2>1, <2>2, <2>3, <2>4, <2>5
<1>3. \A t \in Tables : After(t) \in {"loading", "looking"}
  BY DEF After
<1>. QED  BY <1>1, <1>2, <1>3

LEMMA ResolvedIsKnown ==
  ASSUME NEW t, NEW i, NEW known
  PROVE  /\ Resolved(t, i, known) \in known \cup {NULL}
         /\ Resolved(t, i, known) # NULL => Resolved(t, i, known) = named[t][i]
         /\ named[t][i] \in known => Resolved(t, i, known) = named[t][i]
  BY DEF Resolved

LEMMA UpsertedRows ==
  ASSUME NEW t, NEW h \in Households, NEW known \in SUBSET Ids, TypeOK, t \in Tables
  PROVE  /\ Upserted(t, h, known) \in [Ids -> Row \cup {NULL}]
         /\ \A i \in Mapped(t) :
              /\ Upserted(t, h, known)[i] \in Row
              /\ Upserted(t, h, known)[i] # NULL
              /\ Upserted(t, h, known)[i].home = h
              /\ Upserted(t, h, known)[i].ref = Resolved(t, i, known)
              /\ Upserted(t, h, known)[i].same
         /\ \A i \in Ids \ Mapped(t) : Upserted(t, h, known)[i] = row[t][i]
<1>1. \A i \in Ids : Resolved(t, i, known) \in Ids \cup {NULL}
  BY ResolvedIsKnown
<1>2. \A i \in Ids : [home |-> h, ref |-> Resolved(t, i, known), same |-> TRUE] \in Row
  BY <1>1 DEF Row
<1>3. row[t] \in [Ids -> Row \cup {NULL}]
  BY DEF TypeOK
<1>4. Mapped(t) \subseteq Ids
  BY DEF Mapped
<1>. QED  BY <1>2, <1>3, <1>4 DEF Upserted

-----------------------------------------------------------------------------
(* Steps.                                                                  *)

LEMMA InitIInv == Init => IInv
<1>. SUFFICES ASSUME Init PROVE IInv
  OBVIOUS
<1>1. TypeOK
  <2>1. line \in [Tables -> [Ids -> {"none", "good", "bad", "twice"}]]
    <3>1. PICK f \in [focus -> [Ids -> {"none", "good", "bad", "twice"}]] :
            line = [t \in Tables |-> [i \in Ids |-> IF t \in focus THEN f[t][i] ELSE "none"]]
      BY DEF Init
    <3>. QED  BY <3>1
  <2>2. named \in [Tables -> [Ids -> Ids \cup {NULL}]]
    <3>1. PICK f \in [{t \in focus : Referred(t) # NULL} -> [Ids -> Ids \cup {NULL}]] :
            named = [t \in Tables |-> [i \in Ids |->
                       IF line[t][i] \in {"good", "twice"} /\ Referred(t) # NULL
                       THEN f[t][i] ELSE NULL]]
      BY DEF Init
    <3>2. \A t \in Tables, i \in Ids : line[t][i] \in {"good", "twice"} => t \in focus
      <4>1. PICK g \in [focus -> [Ids -> {"none", "good", "bad", "twice"}]] :
              line = [t \in Tables |-> [i \in Ids |-> IF t \in focus THEN g[t][i] ELSE "none"]]
        BY DEF Init
      <4>. QED  BY <4>1
    <3>. QED  BY <3>1, <3>2
  <2>3. run \in Run
    BY DEF Init, Idle, Run
  <2>4. row \in [Tables -> [Ids -> Row \cup {NULL}]]
    BY DEF Init
  <2>5. begun \in 0..MaxRuns /\ focus \in Focuses
    BY DEF Init
  <2>6. house \in [Households -> House]
    BY DEF Init, House
  <2>7. valid \in BOOLEAN /\ bypass \in BOOLEAN
    BY DEF Init
  <2>. QED  BY <2>1, <2>2, <2>3, <2>4, <2>5, <2>6, <2>7, Zenon DEF TypeOK
<1>2. NamesFacts /\ SeedFacts
  BY DEF Init, NamesFacts, SeedFacts, Idle
<1>3. RunFacts /\ LookupRight /\ Progress /\ ValidMeansFaithful
  BY DEF Init, RunFacts, LookupRight, Lookup, Progress, ValidMeansFaithful, Idle
<1>4. SeedsOnce /\ ReferencesStayInside
  BY DEF Init, SeedsOnce, ReferencesStayInside
<1>. QED  BY <1>1, <1>2, <1>3, <1>4 DEF IInv

LEMMA RunFields ==
  ASSUME TypeOK
  PROVE  /\ run.step \in {"idle", "household", "seeding", "loading", "looking"}
         /\ run.at \in 1..6
         /\ run.entities \subseteq Tables /\ run.home \in Households \cup {NULL}
         /\ run.known \in SUBSET Ids /\ run.lost \in SUBSET Ids /\ run.errors \in BOOLEAN
         /\ run.verdict \in {NULL, "complete", "failed", "stopped"}
  BY DEF TypeOK, Run

LEMMA RunUpdated ==
  ASSUME NEW r \in Run, NEW s \in {"idle", "household", "seeding", "loading", "looking"},
         NEW n \in 1..6, NEW e \in BOOLEAN
  PROVE  [r EXCEPT !.step = s, !.at = n, !.errors = e] \in Run
  BY DEF Run

LEMMA RunEnded ==
  ASSUME NEW r \in Run, NEW v \in {"complete", "failed"}
  PROVE  [r EXCEPT !.step = "idle", !.verdict = v] \in Run
  BY DEF Run

LEMMA RunLost ==
  ASSUME NEW r \in Run, NEW L \in SUBSET Ids
  PROVE  [r EXCEPT !.lost = @ \cup L] \in Run
<1>1. r.lost \cup L \in SUBSET Ids
  BY DEF Run
<1>. QED  BY <1>1 DEF Run

\* A tab that is being loaded: what is true of the run, and what is written.
LEMMA LoadFacts ==
  ASSUME TypeOK, RunFacts, NEW t \in Tables, Load(t)
  PROVE  /\ run.step = "loading" /\ run.at \in 1..5 /\ Order[run.at] = t
         /\ run.home \in Households /\ run.known \in SUBSET Ids
         /\ run'.at = run.at + 1 /\ run'.step = After(t)
         /\ run'.home = run.home /\ run'.entities = run.entities
         /\ run'.verdict = run.verdict /\ run' \in Run
         /\ run.errors => run'.errors
         /\ \/ /\ t \in run.entities /\ MayUpsert(t, run.home)
               /\ row' = [row EXCEPT ![t] = Upserted(t, run.home, run.known)]
               /\ ~run'.errors => \A i \in Ids : line[t][i] # "bad"
            \/ row' = row /\ (t \notin run.entities \/ run'.errors)
         /\ row' \in [Tables -> [Ids -> Row \cup {NULL}]]
<1>1. run.step = "loading" /\ run.at \in 1..5 /\ Order[run.at] = t
  BY DEF Load
<1>2. run.home \in Households /\ run.known \in SUBSET Ids
  BY <1>1, RunFields DEF RunFacts
<1>3. run \in Run
  BY DEF TypeOK
<1>4. PICK e \in BOOLEAN : run' = [run EXCEPT !.step = After(t), !.at = @ + 1, !.errors = e]
  <2>1. CASE run' = [run EXCEPT !.step = After(t), !.at = @ + 1,
                                !.errors = @ \/ \E i \in Ids : line[t][i] = "bad"]
    <3>1. (run.errors \/ \E i \in Ids : line[t][i] = "bad") \in BOOLEAN
      BY Zenon
    <3>. QED  BY <2>1, <3>1, Zenon
  <2>2. CASE run' = [run EXCEPT !.step = After(t), !.at = @ + 1, !.errors = TRUE]
    BY <2>2, Zenon
  <2>3. CASE run' = [run EXCEPT !.step = After(t), !.at = @ + 1]
    <3>1. run' = [run EXCEPT !.step = After(t), !.at = @ + 1, !.errors = run.errors]
      BY <1>3, <2>3 DEF Run
    <3>2. run.errors \in BOOLEAN
      BY <1>3 DEF Run
    <3>. QED  BY <3>1, <3>2, Zenon
  <2>. QED  BY <2>1, <2>2, <2>3 DEF Load
<1>5. run'.at = run.at + 1 /\ run'.step = After(t) /\ run'.home = run.home
      /\ run'.entities = run.entities /\ run'.verdict = run.verdict /\ run'.errors = e
  BY <1>3, <1>4 DEF Run
<1>6. run' \in Run
  <2>1. run.at + 1 \in 1..6
        /\ After(t) \in {"idle", "household", "seeding", "loading", "looking"}
    BY <1>1, ReferredBefore
  <2>. QED  BY <1>3, <1>4, <2>1, RunUpdated
<1>7. \/ /\ t \in run.entities /\ MayUpsert(t, run.home)
         /\ row' = [row EXCEPT ![t] = Upserted(t, run.home, run.known)]
         /\ ~run'.errors => \A i \in Ids : line[t][i] # "bad"
      \/ row' = row /\ (t \notin run.entities \/ run'.errors)
  BY <1>3 DEF Load, Run
<1>8. run.errors => run'.errors
  BY <1>3 DEF Load, Run
<1>9. row' \in [Tables -> [Ids -> Row \cup {NULL}]]
  <2>1. row \in [Tables -> [Ids -> Row \cup {NULL}]]
    BY DEF TypeOK
  <2>2. Upserted(t, run.home, run.known) \in [Ids -> Row \cup {NULL}]
    BY <1>2, UpsertedRows
  <2>. QED  BY <1>7, <2>1, <2>2
<1>. QED  BY <1>1, <1>2, <1>5, <1>6, <1>7, <1>8, <1>9

\* What a tab that is loaded does to the rows.
Written(t, i) ==
  /\ i \in Mapped(t) /\ line[t][i] = "good"
  /\ row'[t][i] # NULL /\ row'[t][i].same /\ row'[t][i].home = run.home
  /\ row'[t][i].ref = Resolved(t, i, run.known) /\ row'[t][i].ref \notin run.lost
  /\ ~bypass /\ row[t][i] # NULL => row[t][i].home = run.home

LEMMA LoadRows ==
  ASSUME TypeOK, RunFacts, NEW t \in Tables, Load(t)
  PROVE  /\ \A u \in Tables \ {t} : row'[u] = row[u]
         /\ \A i \in Ids : row'[t][i] = row[t][i] \/ Written(t, i)
         /\ \A u \in Tables, k \in Ids : row[u][k] # NULL =>
              row'[u][k] # NULL /\ (~bypass => row'[u][k].home = row[u][k].home)
         /\ UNCHANGED <<focus, line, named, bypass, house, begun, valid>>
<1>1. row \in [Tables -> [Ids -> Row \cup {NULL}]]
  BY DEF TypeOK
<1>2. \A u \in Tables \ {t} : row'[u] = row[u]
  BY <1>1, LoadFacts
<1>3. ASSUME NEW i \in Ids
      PROVE  row'[t][i] = row[t][i] \/ Written(t, i)
  <2>1. CASE row' = row
    BY <2>1
  <2>2. CASE /\ MayUpsert(t, run.home)
             /\ row' = [row EXCEPT ![t] = Upserted(t, run.home, run.known)]
    <3>1. row'[t] = Upserted(t, run.home, run.known)
      BY <1>1, <2>2
    <3>2. run.home \in Households /\ run.known \in SUBSET Ids
      BY LoadFacts
    <3>3. CASE i \in Mapped(t)
      <4>1. /\ ~bypass /\ row[t][i] # NULL => row[t][i].home = run.home
            /\ line[t][i] = "good" /\ Resolved(t, i, run.known) \notin run.lost
        BY <2>2, <3>3 DEF MayUpsert, Mapped
      <4>2. /\ row'[t][i] # NULL /\ row'[t][i].same /\ row'[t][i].home = run.home
            /\ row'[t][i].ref = Resolved(t, i, run.known)
        BY <3>1, <3>2, <3>3, UpsertedRows
      <4>. QED  BY <3>3, <4>1, <4>2 DEF Written
    <3>4. CASE i \notin Mapped(t)
      BY <1>1, <3>1, <3>2, <3>4, UpsertedRows
    <3>. QED  BY <3>3, <3>4
  <2>. QED  BY <2>1, <2>2, LoadFacts
<1>4. ASSUME NEW u \in Tables, NEW k \in Ids, row[u][k] # NULL
      PROVE  row'[u][k] # NULL /\ (~bypass => row'[u][k].home = row[u][k].home)
  <2>1. CASE u # t  BY <1>2, <1>4, <2>1
  <2>2. CASE u = t  BY <1>3, <1>4, <2>2 DEF Written
  <2>. QED  BY <2>1, <2>2
<1>5. UNCHANGED <<focus, line, named, bypass, house, begun, valid>>
  BY DEF Load
<1>. QED  BY <1>2, <1>3, <1>4, <1>5

-----------------------------------------------------------------------------
(* The application.                                                        *)

Application ==
  \/ \E h \in Households, name \in {"default", "other"} : NameHousehold(h, name)
  \/ \E h \in Households : DeleteHousehold(h)
  \/ \E t \in Tables, i \in Ids, same \in BOOLEAN :
       Edit(t, i, same) \/ \E h \in Households : Create(t, i, h, same)
  \/ \E i \in Ids : DeleteShot(i)

\* What it may do to a row, other than leave it.
Edited(t, i) ==
  /\ row[t][i] # NULL /\ row'[t][i] # NULL /\ row[t][i].home \in Peopled
  /\ row'[t][i].home = row[t][i].home /\ row'[t][i].ref = row[t][i].ref

Created(t, i) ==
  /\ row[t][i] = NULL /\ row'[t][i] # NULL
  /\ row'[t][i].home \in Peopled /\ row'[t][i].ref = NULL

Deleted(t, i) ==
  /\ row[t][i] # NULL /\ row'[t][i] = NULL /\ row[t][i].home \in Peopled
  /\ t = "Brew_Log" \/ house'[row[t][i].home] = "deleted"

\* What every step of it does.
AppStep ==
  /\ UNCHANGED <<focus, line, named, bypass, begun>>
  /\ row' \in [Tables -> [Ids -> Row \cup {NULL}]]
  /\ house' \in [Households -> House] /\ run' \in Run
  /\ run'.step = run.step /\ run'.at = run.at /\ run'.entities = run.entities
  /\ run'.home = run.home /\ run'.known = run.known /\ run'.errors = run.errors
  /\ run'.verdict = run.verdict
  /\ \A h \in Households :
       \/ house'[h] = house[h]
       \/ /\ house[h] \in {"none", "default", "other"}
          /\ house'[h] \in {"default", "other"}
       \/ h \in Peopled /\ house'[h] = "deleted"
  /\ \A t \in Tables, i \in Ids :
       row'[t][i] = row[t][i] \/ Edited(t, i) \/ Created(t, i) \/ Deleted(t, i)
  /\ \A t \in Tables : Lookup(t) =>
       \A k \in run.known \ run'.lost :
         k \notin run.lost /\ (row[t][k] # NULL => ~Deleted(t, k))
  /\ \A t \in Tables, i \in Ids :
       row'[t][i] # NULL /\ row[t][i] # NULL /\ row[t][i].ref # NULL =>
         ~Deleted(Referred(t), row[t][i].ref)
  /\ ~valid' \/ (valid' = valid /\ row' = row)

LEMMA AppNames ==
  ASSUME TypeOK, NEW h \in Households, NEW name \in {"default", "other"},
         NameHousehold(h, name)
  PROVE  AppStep
<1>1. house \in [Households -> House] /\ house' = [house EXCEPT ![h] = name]
      /\ (h \in Peopled \/ house[h] = "none")
  BY DEF TypeOK, NameHousehold
<1>2. house' \in [Households -> House]
  BY <1>1 DEF House
<1>3. \A g \in Households :
        \/ house'[g] = house[g]
        \/ house[g] \in {"none", "default", "other"} /\ house'[g] \in {"default", "other"}
  BY <1>1 DEF Peopled
<1>4. UNCHANGED <<focus, line, named, bypass, row, run, begun, valid>>
  BY DEF NameHousehold
<1>. QED  BY <1>2, <1>3, <1>4, Zenon DEF AppStep, TypeOK, Deleted

\* Changes of single rows.
LEMMA AppTouches ==
  ASSUME TypeOK, NamesFacts, UNCHANGED <<focus, line, named, bypass, house, run, begun>>,
         ~valid', NEW t \in Tables, NEW i \in Ids, NEW r \in Row \cup {NULL},
         row' = [row EXCEPT ![t][i] = r],
         Edited(t, i) \/ Created(t, i) \/ (Deleted(t, i) /\ t = "Brew_Log")
  PROVE  AppStep
<1>1. row \in [Tables -> [Ids -> Row \cup {NULL}]]
  BY DEF TypeOK
<1>2. row' \in [Tables -> [Ids -> Row \cup {NULL}]]
  BY <1>1
<1>3. \A u \in Tables, k \in Ids : u # t \/ k # i => row'[u][k] = row[u][k]
  BY <1>1
<1>4. \A u \in Tables, k \in Ids :
        row'[u][k] = row[u][k] \/ Edited(u, k) \/ Created(u, k) \/ Deleted(u, k)
  BY <1>3
<1>5. \A u \in Tables, k \in Ids : Deleted(u, k) => u = "Brew_Log"
  BY <1>3 DEF Edited, Created, Deleted
<1>6. \A u \in Tables : Referred(u) # "Brew_Log"
  BY DEF Referred, Tables, MigrationAssumption
<1>7. \A u \in Tables : Lookup(u) => u # "Brew_Log"
  BY OrderOnce, <1>6 DEF Lookup
<1>8. \A u \in Tables, k \in Ids : row[u][k] # NULL /\ row[u][k].ref # NULL =>
        Referred(u) \in Tables /\ row[u][k].ref \in Ids
  BY <1>1, ReferredBefore DEF NamesFacts, Row
<1>9. run \in Run /\ run.known \subseteq Ids
  BY RunFields DEF TypeOK
<1>10. run' = run /\ house' = house /\ house \in [Households -> House]
  BY DEF TypeOK
<1>11. \A u \in Tables : Lookup(u) =>
         \A k \in run.known \ run'.lost :
           k \notin run.lost /\ (row[u][k] # NULL => ~Deleted(u, k))
  BY <1>5, <1>7, <1>9, <1>10
<1>12. \A u \in Tables, k \in Ids :
         row'[u][k] # NULL /\ row[u][k] # NULL /\ row[u][k].ref # NULL =>
           ~Deleted(Referred(u), row[u][k].ref)
  BY <1>5, <1>6, <1>8
<1>. QED  BY <1>2, <1>4, <1>9, <1>10, <1>11, <1>12 DEF AppStep

LEMMA AppDeletes ==
  ASSUME TypeOK, NamesFacts, NEW h \in Households, DeleteHousehold(h)
  PROVE  AppStep
<1>1. row \in [Tables -> [Ids -> Row \cup {NULL}]] /\ house \in [Households -> House]
      /\ run \in Run /\ run.known \subseteq Ids
  BY RunFields DEF TypeOK
<1>2. house' = [house EXCEPT ![h] = "deleted"] /\ h \in Peopled
  BY DEF DeleteHousehold
<1>3. row' = [t \in Tables |-> [i \in Ids |-> IF In(t, i, h) THEN NULL ELSE row[t][i]]]
  BY DEF DeleteHousehold
<1>4. row' \in [Tables -> [Ids -> Row \cup {NULL}]]
  BY <1>1, <1>3
<1>5. house' \in [Households -> House] /\ house'[h] = "deleted"
      /\ \A g \in Households \ {h} : house'[g] = house[g]
  BY <1>1, <1>2 DEF House
<1>6. \A t \in Tables, i \in Ids : row'[t][i] = IF In(t, i, h) THEN NULL ELSE row[t][i]
  BY <1>3
<1>7. \A t \in Tables, i \in Ids :
        /\ In(t, i, h) => Deleted(t, i)
        /\ ~In(t, i, h) => row'[t][i] = row[t][i] /\ ~Deleted(t, i)
  BY <1>2, <1>5, <1>6 DEF In, Deleted
<1>. DEFINE L == {k \in run.known : run.at \in {2, 4} /\ In(Order[run.at - 1], k, h)}
<1>8. run' = [run EXCEPT !.lost = @ \cup L] /\ L \in SUBSET Ids
  BY <1>1 DEF DeleteHousehold
<1>9. \A t \in Tables : Lookup(t) => \A k \in run.known : In(t, k, h) => k \in L
  BY ReferredBefore DEF Lookup
<1>. HIDE DEF L
<1>10. /\ run' \in Run /\ run'.lost = run.lost \cup L
       /\ run'.step = run.step /\ run'.at = run.at /\ run'.entities = run.entities
       /\ run'.home = run.home /\ run'.known = run.known /\ run'.errors = run.errors
       /\ run'.verdict = run.verdict
  <2>1. run' \in Run
    BY <1>1, <1>8, RunLost
  <2>. QED  BY <1>1, <1>8, <2>1 DEF Run
<1>11. \A t \in Tables : Lookup(t) =>
         \A k \in run.known \ run'.lost :
           k \notin run.lost /\ (row[t][k] # NULL => ~Deleted(t, k))
  BY <1>1, <1>7, <1>9, <1>10
<1>12. ASSUME NEW t \in Tables, NEW i \in Ids,
              row'[t][i] # NULL, row[t][i] # NULL, row[t][i].ref # NULL
       PROVE  ~Deleted(Referred(t), row[t][i].ref)
  <2>1. Referred(t) \in Tables /\ row[t][i].ref \in Ids
    BY <1>1, <1>12, ReferredBefore DEF NamesFacts, Row
  <2>2. ~In(t, i, h)
    BY <1>6, <1>12
  <2>3. ~In(Referred(t), row[t][i].ref, h)
    BY <1>12, <2>2 DEF DeleteHousehold, In
  <2>. QED  BY <1>7, <2>1, <2>3
<1>13. UNCHANGED <<focus, line, named, bypass, begun>> /\ ~valid'
  BY DEF DeleteHousehold
<1>14. \A g \in Households :
         house'[g] = house[g] \/ (g \in Peopled /\ house'[g] = "deleted")
  BY <1>2, <1>5
<1>15. \A t \in Tables, i \in Ids : row'[t][i] = row[t][i] \/ Deleted(t, i)
  BY <1>7
<1>. QED
  BY <1>4, <1>5, <1>10, <1>11, <1>12, <1>13, <1>14, <1>15 DEF AppStep

LEMMA AppFacts == TypeOK /\ NamesFacts /\ Application => AppStep
<1>. SUFFICES ASSUME TypeOK, NamesFacts, Application PROVE AppStep
  OBVIOUS
<1>0. row \in [Tables -> [Ids -> Row \cup {NULL}]]
  BY DEF TypeOK
<1>1. ASSUME NEW t \in Tables, NEW i \in Ids, NEW same \in BOOLEAN, Edit(t, i, same)
      PROVE  AppStep
  <2>. DEFINE r == [row[t][i] EXCEPT !.same = same]
  <2>1. row[t][i] \in Row
    BY <1>0, <1>1 DEF Edit
  <2>2. r \in Row /\ r.home = row[t][i].home /\ r.ref = row[t][i].ref
    BY <2>1 DEF Row
  <2>. HIDE DEF r
  <2>3. row' = [row EXCEPT ![t][i] = r]
    BY <1>1 DEF Edit, r
  <2>4. row'[t][i] = r
    BY <1>0, <2>3
  <2>5. row[t][i] # NULL /\ r # NULL /\ row[t][i].home \in Peopled
    BY <1>1, <2>2 DEF Edit, MigrationAssumption
  <2>6. Edited(t, i)
    BY <2>2, <2>4, <2>5 DEF Edited
  <2>7. UNCHANGED <<focus, line, named, bypass, house, run, begun>> /\ ~valid'
    BY <1>1 DEF Edit
  <2>. QED  BY <2>2, <2>3, <2>6, <2>7, AppTouches
<1>2. ASSUME NEW t \in Tables, NEW i \in Ids, NEW same \in BOOLEAN, NEW h \in Households,
             Create(t, i, h, same)
      PROVE  AppStep
  <2>. DEFINE r == [home |-> h, ref |-> NULL, same |-> same]
  <2>1. r \in Row /\ r.home = h /\ r.ref = NULL
    BY DEF Row
  <2>. HIDE DEF r
  <2>2. row' = [row EXCEPT ![t][i] = r] /\ row[t][i] = NULL /\ h \in Peopled
    BY <1>2 DEF Create, r
  <2>3. row'[t][i] = r
    BY <1>0, <2>2
  <2>4. Created(t, i)
    BY <2>1, <2>2, <2>3 DEF Created, MigrationAssumption
  <2>5. UNCHANGED <<focus, line, named, bypass, house, run, begun>> /\ ~valid'
    BY <1>2 DEF Create
  <2>. QED  BY <2>1, <2>2, <2>4, <2>5, AppTouches
<1>3. ASSUME NEW i \in Ids, DeleteShot(i) PROVE AppStep
  <2>1. row' = [row EXCEPT !["Brew_Log"][i] = NULL] /\ "Brew_Log" \in Tables
    BY <1>3 DEF DeleteShot, Tables
  <2>2. row'["Brew_Log"][i] = NULL
    BY <1>0, <2>1
  <2>3. Deleted("Brew_Log", i)
    BY <1>3, <2>2 DEF DeleteShot, Deleted
  <2>4. UNCHANGED <<focus, line, named, bypass, house, run, begun>> /\ ~valid'
    BY <1>3 DEF DeleteShot
  <2>5. NULL \in Row \cup {NULL}
    OBVIOUS
  <2>. QED  BY <2>1, <2>3, <2>4, <2>5, AppTouches
<1>4. ASSUME NEW h \in Households, NEW name \in {"default", "other"}, NameHousehold(h, name)
      PROVE  AppStep
  BY <1>4, AppNames
<1>5. ASSUME NEW h \in Households, DeleteHousehold(h) PROVE AppStep
  BY <1>5, AppDeletes
<1>. QED  BY <1>1, <1>2, <1>3, <1>4, <1>5 DEF Application

-----------------------------------------------------------------------------
(* The steps of the script.                                                *)

Cases ==
  \/ \E E \in SUBSET Tables : Begin(E)
  \/ FindHousehold \/ LookUp \/ Summarise \/ Stop \/ Validate
  \/ \E h \in Households : SeedHousehold(h)
  \/ \E t \in Tables : Load(t)
  \/ Application \/ UNCHANGED vars

LEMMA StepCases == TypeOK /\ [Next]_vars => Cases
<1>. SUFFICES ASSUME TypeOK, [Next]_vars PROVE Cases
  OBVIOUS
<1>1. focus \subseteq Tables
  BY DEF TypeOK
<1>2. ASSUME NEW E \in SUBSET focus, Begin(E \cup (Tables \ focus)) PROVE Cases
  <2>1. E \cup (Tables \ focus) \in SUBSET Tables
    BY <1>1
  <2>. QED  BY <1>2, <2>1, Zenon DEF Cases
<1>3. ASSUME NEW t \in focus, NEW i \in Ids, NEW same \in BOOLEAN,
             Edit(t, i, same) \/ \E h \in Households : Create(t, i, h, same)
      PROVE  Cases
  <2>1. t \in Tables
    BY <1>1
  <2>2. \E u \in Tables, j \in Ids, s \in BOOLEAN :
          Edit(u, j, s) \/ \E h \in Households : Create(u, j, h, s)
    BY <1>3, <2>1
  <2>3. Application
    BY <2>2 DEF Application
  <2>. QED  BY <2>3 DEF Cases
<1>4. ASSUME NEW h \in Households,
             \/ SeedHousehold(h) \/ DeleteHousehold(h)
             \/ \E name \in {"default", "other"} : NameHousehold(h, name)
      PROVE  Cases
  <2>1. CASE SeedHousehold(h)
    BY <2>1 DEF Cases
  <2>2. CASE DeleteHousehold(h)
    BY <2>2 DEF Application, Cases
  <2>3. ASSUME NEW name \in {"default", "other"}, NameHousehold(h, name) PROVE Cases
    <3>1. Application
      BY <2>3 DEF Application
    <3>. QED  BY <3>1 DEF Cases
  <2>. QED  BY <1>4, <2>1, <2>2, <2>3
<1>5. ASSUME NEW i \in Ids, DeleteShot(i) PROVE Cases
  BY <1>5, Zenon DEF Application, Cases
<1>6. ASSUME \/ FindHousehold \/ LookUp \/ Summarise \/ Stop \/ Validate
             \/ (\E t \in Tables : Load(t)) \/ UNCHANGED vars
      PROVE  Cases
  BY <1>6 DEF Cases
<1>7. CASE \E E \in SUBSET focus : Begin(E \cup (Tables \ focus))
  BY <1>2, <1>7, Zenon
<1>8. CASE \E t \in focus, i \in Ids, same \in BOOLEAN :
             Edit(t, i, same) \/ \E h \in Households : Create(t, i, h, same)
  <2>1. PICK t \in focus, i \in Ids, same \in BOOLEAN :
          Edit(t, i, same) \/ \E h \in Households : Create(t, i, h, same)
    BY <1>8
  <2>. QED  BY <1>3, <2>1
<1>9. CASE \E h \in Households :
             SeedHousehold(h) \/ DeleteHousehold(h)
               \/ \E name \in {"default", "other"} : NameHousehold(h, name)
  BY <1>4, <1>9, Zenon
<1>10. CASE \E i \in Ids : DeleteShot(i)
  BY <1>5, <1>10, Zenon
<1>. QED  BY <1>6, <1>7, <1>8, <1>9, <1>10, Zenon DEF Next

\* What the steps leave alone.
LEMMA Quiet ==
  /\ \A E : Begin(E) => UNCHANGED <<focus, line, named, bypass, house, row, valid>>
  /\ FindHousehold \/ LookUp \/ Summarise \/ Stop =>
       UNCHANGED <<focus, line, named, bypass, house, row, begun, valid>>
  /\ \A h : SeedHousehold(h) => UNCHANGED <<focus, line, named, bypass, row, begun, valid>>
  /\ Validate => run.step = "idle"
                 /\ UNCHANGED <<focus, line, named, bypass, house, row, run, begun>>
  /\ UNCHANGED vars =>
       UNCHANGED <<focus, line, named, bypass, house, row, run, begun, valid>>
<1>1. \A E : Begin(E) => UNCHANGED <<focus, line, named, bypass, house, row, valid>>
  BY DEF Begin
<1>2. FindHousehold \/ LookUp \/ Summarise \/ Stop =>
        UNCHANGED <<focus, line, named, bypass, house, row, begun, valid>>
  BY DEF FindHousehold, LookUp, Summarise, Stop
<1>3. \A h : SeedHousehold(h) => UNCHANGED <<focus, line, named, bypass, row, begun, valid>>
  BY DEF SeedHousehold
<1>4. Validate => run.step = "idle"
                  /\ UNCHANGED <<focus, line, named, bypass, house, row, run, begun>>
  BY DEF Validate
<1>5. UNCHANGED vars =>
        UNCHANGED <<focus, line, named, bypass, house, row, run, begun, valid>>
  BY DEF vars
<1>. QED  BY <1>1, <1>2, <1>3, <1>4, <1>5, Zenon

LEMMA BeginFacts ==
  ASSUME NEW E \in SUBSET Tables, Begin(E)
  PROVE  run' \in Run /\ run'.step = "household" /\ run'.at = 1 /\ run'.verdict = NULL
<1>1. run' = [step |-> "household", at |-> 1, entities |-> E, home |-> NULL, known |-> {},
              lost |-> {}, errors |-> FALSE, verdict |-> NULL]
  BY DEF Begin, Idle
<1>. QED  BY <1>1 DEF Run

LEMMA FindFacts ==
  ASSUME TypeOK, RunFacts, FindHousehold
  PROVE  /\ run' \in Run /\ run'.at = 1 /\ run'.verdict = NULL
         /\ \/ /\ run'.step = "loading" /\ run'.home \in Households
               /\ house[run'.home] # "none"
            \/ run'.step = "seeding" /\ \A h \in Households : house[h] # "seeded"
<1>1. run \in Run /\ run.step = "household" /\ run.at = 1 /\ run.verdict = NULL
  BY DEF TypeOK, RunFacts, FindHousehold
<1>2. ASSUME NEW h \in Choices, run' = [run EXCEPT !.step = "loading", !.home = h]
      PROVE  /\ run' \in Run /\ run'.at = 1 /\ run'.verdict = NULL /\ run'.step = "loading"
             /\ run'.home \in Households /\ house[run'.home] # "none"
  <2>1. h \in Households /\ house[h] # "none"
    BY DEF Choices
  <2>. QED  BY <1>1, <1>2, <2>1 DEF Run
<1>3. ASSUME Choices = {}, run' = [run EXCEPT !.step = "seeding"]
      PROVE  /\ run' \in Run /\ run'.at = 1 /\ run'.verdict = NULL /\ run'.step = "seeding"
             /\ \A h \in Households : house[h] # "seeded"
  <2>1. \A h \in Households : house[h] # "seeded"
    BY <1>3 DEF Choices
  <2>. QED  BY <1>1, <1>3, <2>1 DEF Run
<1>. QED  BY <1>2, <1>3 DEF FindHousehold

LEMMA SeedFactsOf ==
  ASSUME TypeOK, RunFacts, NEW h \in Households, SeedHousehold(h)
  PROVE  /\ run' \in Run /\ run'.at = 1 /\ run'.verdict = NULL
         /\ run'.step = "loading" /\ run'.home = h
         /\ run.step = "seeding" /\ house[h] = "none" /\ house'[h] = "seeded"
         /\ \A g \in Households \ {h} : house'[g] = house[g]
         /\ house' \in [Households -> House]
<1>1. run \in Run /\ run.step = "seeding" /\ run.at = 1 /\ run.verdict = NULL
  BY DEF TypeOK, RunFacts, SeedHousehold
<1>2. run' = [run EXCEPT !.step = "loading", !.home = h]
  BY DEF SeedHousehold
<1>3. run' \in Run /\ run'.at = 1 /\ run'.verdict = NULL
      /\ run'.step = "loading" /\ run'.home = h
  BY <1>1, <1>2 DEF Run
<1>4. /\ house[h] = "none" /\ house'[h] = "seeded"
      /\ \A g \in Households \ {h} : house'[g] = house[g]
      /\ house' \in [Households -> House]
  BY DEF SeedHousehold, TypeOK, House
<1>. QED  BY <1>1, <1>3, <1>4

LEMMA LookUpFacts ==
  ASSUME TypeOK, RunFacts, LookUp
  PROVE  /\ run' \in Run /\ run.step = "looking" /\ run.at \in {2, 4}
         /\ run'.step = "loading" /\ run'.at = run.at /\ run'.entities = run.entities
         /\ run'.home = run.home /\ run'.errors = run.errors /\ run'.verdict = run.verdict
         /\ run'.known = Known(Order[run.at - 1], run.home) /\ run'.lost = {}
<1>1. run \in Run /\ run.step = "looking" /\ run.at \in {2, 4}
  BY DEF TypeOK, RunFacts, LookUp
<1>. DEFINE K == Known(Order[run.at - 1], run.home)
<1>2. K \in SUBSET Ids
  BY DEF Known
<1>. HIDE DEF K
<1>3. run' = [run EXCEPT !.step = "loading", !.lost = {}, !.known = K]
  BY DEF LookUp, K
<1>4. /\ run' \in Run
      /\ run'.step = "loading" /\ run'.at = run.at /\ run'.entities = run.entities
      /\ run'.home = run.home /\ run'.errors = run.errors /\ run'.verdict = run.verdict
      /\ run'.known = K /\ run'.lost = {}
  BY <1>1, <1>2, <1>3 DEF Run
<1>. QED  BY <1>1, <1>4 DEF K

LEMMA EndFacts ==
  ASSUME TypeOK, Summarise \/ Stop
  PROVE  run' \in Run /\ run'.step = "idle"
<1>1. run \in Run
  BY DEF TypeOK
<1>2. ASSUME Stop PROVE run' \in Run /\ run'.step = "idle"
  <2>1. run' = [step |-> "idle", at |-> 1, entities |-> {}, home |-> NULL, known |-> {},
                lost |-> {}, errors |-> FALSE, verdict |-> "stopped"]
    BY <1>2 DEF Stop, Idle
  <2>. QED  BY <2>1 DEF Run
<1>3. ASSUME NEW v \in {"complete", "failed"},
             run' = [run EXCEPT !.step = "idle", !.verdict = v]
      PROVE  run' \in Run /\ run'.step = "idle"
  BY <1>1, <1>3, RunEnded DEF Run
<1>. QED  BY <1>2, <1>3 DEF Summarise

\* What the application leaves of the households.
LEMMA Households2 ==
  ASSUME TypeOK, AppStep, NEW h \in Households
  PROVE  /\ house[h] # "none" => house'[h] # "none"
         /\ house[h] = "deleted" => house'[h] = "deleted"
         /\ house'[h] = "seeded" <=> house[h] = "seeded"
         /\ h \in Peopled => house[h] \in {"default", "other"}
                             /\ house'[h] \notin {"none", "seeded"}
  BY DEF AppStep, Peopled

-----------------------------------------------------------------------------
(* The invariant is kept.                                                  *)

LEMMA TypeStep == IInv /\ [Next]_vars => TypeOK'
<1>. SUFFICES ASSUME IInv, [Next]_vars PROVE TypeOK'
  OBVIOUS
<1>0. TypeOK /\ RunFacts /\ NamesFacts
  BY DEF IInv
<1>1. ASSUME NEW E \in SUBSET Tables, Begin(E) PROVE TypeOK'
  <2>1. run' \in Run
    BY <1>1, BeginFacts
  <2>2. begun' \in 0..MaxRuns
    BY <1>0, <1>1 DEF Begin, TypeOK
  <2>. QED  BY <1>0, <1>1, <2>1, <2>2 DEF Begin, TypeOK
<1>2. ASSUME FindHousehold PROVE TypeOK'
  BY <1>0, <1>2, FindFacts DEF FindHousehold, TypeOK
<1>3. ASSUME LookUp PROVE TypeOK'
  BY <1>0, <1>3, LookUpFacts DEF LookUp, TypeOK
<1>4. ASSUME Summarise \/ Stop PROVE TypeOK'
  BY <1>0, <1>4, EndFacts DEF Summarise, Stop, TypeOK
<1>5. ASSUME Validate PROVE TypeOK'
  <2>1. valid' \in BOOLEAN
    BY <1>5, Zenon DEF Validate
  <2>. QED  BY <1>0, <1>5, <2>1 DEF Validate, TypeOK
<1>6. ASSUME NEW h \in Households, SeedHousehold(h) PROVE TypeOK'
  BY <1>0, <1>6, SeedFactsOf DEF SeedHousehold, TypeOK
<1>7. ASSUME NEW t \in Tables, Load(t) PROVE TypeOK'
  <2>1. run' \in Run /\ row' \in [Tables -> [Ids -> Row \cup {NULL}]]
    BY <1>0, <1>7, LoadFacts
  <2>. QED  BY <1>0, <1>7, <2>1 DEF Load, TypeOK
<1>8. ASSUME Application PROVE TypeOK'
  <2>1. AppStep
    BY <1>0, <1>8, AppFacts
  <2>2. valid' \in BOOLEAN
    <3>1. valid' = FALSE \/ valid' = valid
      BY <1>8 DEF Application, NameHousehold, DeleteHousehold, Edit, Create, DeleteShot
    <3>. QED  BY <1>0, <3>1 DEF TypeOK
  <2>. QED  BY <1>0, <2>1, <2>2 DEF AppStep, TypeOK
<1>9. CASE UNCHANGED vars
  BY <1>0, <1>9 DEF vars, TypeOK
<1>. QED
  BY <1>0, <1>1, <1>2, <1>3, <1>4, <1>5, <1>6, <1>7, <1>8, <1>9, StepCases, Zenon DEF Cases

LEMMA RunStep == IInv /\ [Next]_vars => RunFacts'
<1>. SUFFICES ASSUME IInv, [Next]_vars PROVE RunFacts'
  OBVIOUS
<1>0. TypeOK /\ RunFacts /\ NamesFacts
  BY DEF IInv
<1>1. ASSUME NEW E \in SUBSET Tables, Begin(E) PROVE RunFacts'
  BY <1>1, BeginFacts DEF RunFacts
<1>2. ASSUME FindHousehold PROVE RunFacts'
  BY <1>0, <1>2, FindFacts, Quiet DEF RunFacts
<1>3. ASSUME LookUp PROVE RunFacts'
  BY <1>0, <1>3, LookUpFacts, Quiet DEF RunFacts
<1>4. ASSUME Summarise \/ Stop PROVE RunFacts'
  BY <1>0, <1>4, EndFacts DEF RunFacts
<1>5. ASSUME UNCHANGED <<run, house>> PROVE RunFacts'
  BY <1>0, <1>5 DEF RunFacts
<1>6. ASSUME NEW h \in Households, SeedHousehold(h) PROVE RunFacts'
  BY <1>0, <1>6, SeedFactsOf DEF RunFacts
<1>7. ASSUME NEW t \in Tables, Load(t) PROVE RunFacts'
  <2>1. run'.at = run.at + 1 /\ run'.step = After(t) /\ run'.home = run.home
        /\ run'.verdict = run.verdict /\ run.step = "loading" /\ run.at \in 1..5
        /\ Order[run.at] = t
    BY <1>0, <1>7, LoadFacts
  <2>2. run'.step \in {"loading", "looking"} /\ (run'.step = "looking" => run'.at \in {2, 4})
    BY <2>1, ReferredBefore
  <2>3. house' = house
    BY <1>0, <1>7, LoadRows
  <2>. QED  BY <1>0, <2>1, <2>2, <2>3 DEF RunFacts
<1>8. ASSUME Application PROVE RunFacts'
  <2>1. AppStep
    BY <1>0, <1>8, AppFacts
  <2>2. run'.step = run.step /\ run'.at = run.at /\ run'.home = run.home
        /\ run'.verdict = run.verdict
    BY <2>1 DEF AppStep
  <2>3. run.home \in Households /\ house[run.home] # "none" => house'[run.home] # "none"
    BY <1>0, <2>1, Households2
  <2>. QED  BY <1>0, <2>2, <2>3 DEF RunFacts
<1>. QED
  BY <1>0, <1>1, <1>2, <1>3, <1>4, <1>5, <1>6, <1>7, <1>8, StepCases, Quiet, Zenon DEF Cases

LEMMA SeedStep == IInv /\ [Next]_vars => SeedFacts' /\ SeedsOnce'
<1>. SUFFICES ASSUME IInv, [Next]_vars PROVE SeedFacts' /\ SeedsOnce'
  OBVIOUS
<1>0. TypeOK /\ RunFacts /\ NamesFacts /\ SeedFacts /\ SeedsOnce
  BY DEF IInv
<1>a. \A t \in Tables, i \in Ids : row[t][i] # NULL => row[t][i].home \in Households
  BY <1>0 DEF TypeOK, Row
<1>1. ASSUME UNCHANGED <<line, house, row>>, run'.step # "seeding" \/ run' = run
      PROVE  SeedFacts' /\ SeedsOnce'
  BY <1>0, <1>1 DEF SeedFacts, SeedsOnce
<1>2. ASSUME FindHousehold PROVE SeedFacts' /\ SeedsOnce'
  <2>1. UNCHANGED <<line, house, row>>
    BY <1>2, Quiet
  <2>2. run'.step = "seeding" => \A h \in Households : house[h] # "seeded"
    BY <1>0, <1>2, FindFacts
  <2>. QED  BY <1>0, <2>1, <2>2 DEF SeedFacts, SeedsOnce
<1>3. ASSUME NEW h \in Households, SeedHousehold(h) PROVE SeedFacts' /\ SeedsOnce'
  <2>1. /\ house[h] = "none" /\ house'[h] = "seeded" /\ run'.step = "loading"
        /\ \A g \in Households \ {h} : house'[g] = house[g] /\ house[g] # "seeded"
    BY <1>0, <1>3, SeedFactsOf DEF SeedFacts
  <2>2. UNCHANGED <<line, row>>
    BY <1>3, Quiet
  <2>3. \A t \in Tables, i \in Ids : row[t][i] # NULL =>
          row[t][i].home \in Households \ {h} /\ house[row[t][i].home] # "none"
    BY <1>0, <1>a, <2>1 DEF SeedFacts
  <2>4. SeedFacts'
    BY <2>1, <2>2, <2>3 DEF SeedFacts
  <2>5. SeedsOnce'
    BY <2>1, <2>2, <2>3 DEF SeedsOnce
  <2>. QED  BY <2>4, <2>5
<1>4. ASSUME NEW t \in Tables, Load(t) PROVE SeedFacts' /\ SeedsOnce'
  <2>1. UNCHANGED <<line, house>> /\ run'.step # "seeding" /\ house[run.home] # "none"
    BY <1>0, <1>4, LoadFacts, LoadRows, ReferredBefore DEF RunFacts
  <2>2. ASSUME NEW u \in Tables, NEW k \in Ids, row'[u][k] # NULL
        PROVE  /\ house[row'[u][k].home] # "none"
               /\ house[row'[u][k].home] = "seeded" =>
                    line[u][k] = "good" /\ row'[u][k].same
    <3>1. row'[u][k] = row[u][k]
          \/ /\ row'[u][k].home = run.home /\ line[u][k] = "good" /\ row'[u][k].same
      <4>1. CASE u = t  BY <1>0, <1>4, <4>1, LoadRows DEF Written
      <4>2. CASE u # t  BY <1>0, <1>4, <4>2, LoadRows
      <4>. QED  BY <4>1, <4>2
    <3>. QED  BY <1>0, <2>1, <2>2, <3>1 DEF SeedFacts, SeedsOnce
  <2>3. SeedFacts'
    BY <2>1, <2>2 DEF SeedFacts
  <2>4. SeedsOnce'
    BY <1>0, <2>1, <2>2 DEF SeedsOnce
  <2>. QED  BY <2>3, <2>4
<1>5. ASSUME Application PROVE SeedFacts' /\ SeedsOnce'
  <2>1. AppStep
    BY <1>0, <1>5, AppFacts
  <2>2. run'.step = run.step /\ line' = line
    BY <2>1 DEF AppStep
  <2>3. \A h \in Households : /\ house[h] # "none" => house'[h] # "none"
                              /\ house'[h] = "seeded" => house[h] = "seeded"
    BY <1>0, <2>1, Households2
  <2>4. ASSUME NEW t \in Tables, NEW i \in Ids, row'[t][i] # NULL
        PROVE  /\ house'[row'[t][i].home] # "none"
               /\ house'[row'[t][i].home] = "seeded" =>
                    line[t][i] = "good" /\ row'[t][i].same
    <3>1. row'[t][i].home \in Households
      BY <2>1, <2>4 DEF AppStep, Row
    <3>2. row'[t][i] = row[t][i] \/ row'[t][i].home \in Peopled
      BY <2>1, <2>4 DEF AppStep, Edited, Created, Deleted
    <3>3. CASE row'[t][i] = row[t][i]
      BY <1>0, <2>3, <2>4, <3>1, <3>3 DEF SeedFacts, SeedsOnce
    <3>4. CASE row'[t][i].home \in Peopled
      BY <1>0, <2>1, <3>1, <3>4, Households2
    <3>. QED  BY <3>2, <3>3, <3>4
  <2>5. SeedFacts'
    BY <1>0, <2>2, <2>3, <2>4 DEF SeedFacts
  <2>6. SeedsOnce'
    BY <1>0, <2>2, <2>3, <2>4 DEF SeedsOnce
  <2>. QED  BY <2>5, <2>6
<1>6. ASSUME NEW E \in SUBSET Tables, Begin(E) PROVE run'.step # "seeding"
  BY <1>6, BeginFacts
<1>7. ASSUME LookUp PROVE run'.step # "seeding"
  BY <1>0, <1>7, LookUpFacts
<1>8. ASSUME Summarise \/ Stop PROVE run'.step # "seeding"
  BY <1>0, <1>8, EndFacts
<1>. QED
  BY <1>0, <1>1, <1>2, <1>3, <1>4, <1>5, <1>6, <1>7, <1>8, StepCases, Quiet, Zenon DEF Cases

LEMMA NamesStep == IInv /\ [Next]_vars => NamesFacts'
<1>. SUFFICES ASSUME IInv, [Next]_vars PROVE NamesFacts'
  OBVIOUS
<1>0. TypeOK /\ RunFacts /\ NamesFacts
  BY DEF IInv
<1>1. ASSUME UNCHANGED <<named, row>> PROVE NamesFacts'
  BY <1>0, <1>1 DEF NamesFacts
<1>2. ASSUME named' = named,
             \A t \in Tables, i \in Ids : row'[t][i] # NULL =>
               \/ row[t][i] # NULL /\ row'[t][i].ref = row[t][i].ref
               \/ row'[t][i].ref \in {NULL, named[t][i]}
      PROVE  NamesFacts'
  BY <1>0, <1>2 DEF NamesFacts
<1>3. ASSUME NEW t \in Tables, Load(t) PROVE NamesFacts'
  <2>1. named' = named
    BY <1>0, <1>3, LoadRows
  <2>2. ASSUME NEW u \in Tables, NEW k \in Ids, row'[u][k] # NULL
        PROVE  \/ row[u][k] # NULL /\ row'[u][k].ref = row[u][k].ref
               \/ row'[u][k].ref \in {NULL, named[u][k]}
    <3>1. CASE row'[u][k] = row[u][k]
      BY <2>2, <3>1
    <3>2. CASE row'[u][k].ref = Resolved(u, k, run.known)
      BY <3>2, ResolvedIsKnown
    <3>3. u # t => row'[u][k] = row[u][k]
      BY <1>0, <1>3, LoadRows
    <3>4. u = t => row'[u][k] = row[u][k] \/ row'[u][k].ref = Resolved(u, k, run.known)
      BY <1>0, <1>3, LoadRows DEF Written
    <3>. QED  BY <3>1, <3>2, <3>3, <3>4
  <2>. QED  BY <1>2, <2>1, <2>2
<1>4. ASSUME Application PROVE NamesFacts'
  <2>1. AppStep
    BY <1>0, <1>4, AppFacts
  <2>2. \A t \in Tables, i \in Ids : row'[t][i] # NULL =>
          \/ row[t][i] # NULL /\ row'[t][i].ref = row[t][i].ref
          \/ row'[t][i].ref \in {NULL, named[t][i]}
    BY <2>1 DEF AppStep, Edited, Created, Deleted
  <2>. QED  BY <1>2, <2>1, <2>2 DEF AppStep
<1>5. ASSUME NEW h \in Households, SeedHousehold(h) PROVE NamesFacts'
  BY <1>1, <1>5, Quiet
<1>6. ASSUME NEW E \in SUBSET Tables, Begin(E) PROVE NamesFacts'
  BY <1>1, <1>6, Quiet
<1>7. ASSUME FindHousehold \/ LookUp \/ Summarise \/ Stop \/ Validate \/ UNCHANGED vars
      PROVE  NamesFacts'
  BY <1>1, <1>7, Quiet
<1>. QED
  BY <1>0, <1>3, <1>4, <1>5, <1>6, <1>7, StepCases, Zenon DEF Cases

LEMMA ReferencesStep == IInv /\ [Next]_vars => ReferencesStayInside'
<1>. SUFFICES ASSUME IInv, [Next]_vars PROVE ReferencesStayInside'
  OBVIOUS
<1>0. TypeOK /\ RunFacts /\ NamesFacts /\ ReferencesStayInside /\ LookupRight
  BY DEF IInv
<1>1. ASSUME UNCHANGED <<bypass, row>> PROVE ReferencesStayInside'
  BY <1>0, <1>1 DEF ReferencesStayInside
<1>2. ASSUME NEW t \in Tables, Load(t) PROVE ReferencesStayInside'
  <2>. SUFFICES ASSUME ~bypass, NEW u \in Tables, NEW k \in Ids,
                       row'[u][k] # NULL, row'[u][k].ref # NULL
       PROVE  /\ row'[Referred(u)][row'[u][k].ref] # NULL
              /\ row'[Referred(u)][row'[u][k].ref].home = row'[u][k].home
    BY <1>0, <1>2, LoadRows DEF ReferencesStayInside
  <2>1. \A v \in Tables, j \in Ids : row[v][j] # NULL =>
          row'[v][j] # NULL /\ row'[v][j].home = row[v][j].home
    BY <1>0, <1>2, LoadRows
  <2>2. CASE row'[u][k] = row[u][k]
    <3>1. Referred(u) \in Tables /\ row[u][k].ref \in Ids
      BY <1>0, <2>2, ReferredBefore DEF NamesFacts, TypeOK, Row
    <3>2. /\ row[Referred(u)][row[u][k].ref] # NULL
          /\ row[Referred(u)][row[u][k].ref].home = row[u][k].home
      BY <1>0, <2>2 DEF ReferencesStayInside
    <3>. QED  BY <2>1, <2>2, <3>1, <3>2
  <2>3. CASE u = t /\ Written(t, k)
    <3>1. row'[u][k].ref = named[t][k] /\ named[t][k] \in run.known \ run.lost
          /\ named[t][k] # NULL /\ row'[u][k].home = run.home
      BY <2>3, ResolvedIsKnown DEF Written
    <3>2. Referred(t) \in Tables /\ Referred(t) # t
      BY <1>0, <3>1, ReferredBefore DEF NamesFacts
    <3>3. Lookup(Referred(t))
      BY <1>0, <1>2, LoadFacts DEF Lookup
    <3>4. In(Referred(t), named[t][k], run.home)
      BY <1>0, <3>1, <3>2, <3>3 DEF LookupRight, Sound
    <3>5. row'[Referred(t)] = row[Referred(t)]
      BY <1>0, <1>2, <3>2, LoadRows
    <3>. QED  BY <2>3, <3>1, <3>4, <3>5 DEF In
  <2>4. row'[u][k] = row[u][k] \/ (u = t /\ Written(t, k))
    <3>1. u # t => row'[u] = row[u]
      BY <1>0, <1>2, LoadRows, Zenon
    <3>2. row'[t][k] = row[t][k] \/ Written(t, k)
      BY <1>0, <1>2, LoadRows, Zenon
    <3>. QED  BY <3>1, <3>2
  <2>. QED  BY <2>2, <2>3, <2>4
<1>3. ASSUME Application PROVE ReferencesStayInside'
  <2>1. AppStep
    BY <1>0, <1>3, AppFacts
  <2>. SUFFICES ASSUME ~bypass, NEW u \in Tables, NEW k \in Ids,
                       row'[u][k] # NULL, row'[u][k].ref # NULL
       PROVE  /\ row'[Referred(u)][row'[u][k].ref] # NULL
              /\ row'[Referred(u)][row'[u][k].ref].home = row'[u][k].home
    BY <2>1 DEF AppStep, ReferencesStayInside
  <2>2. row[u][k] # NULL /\ row'[u][k].ref = row[u][k].ref /\ row'[u][k].home = row[u][k].home
    BY <2>1 DEF AppStep, Edited, Created, Deleted
  <2>. DEFINE v == Referred(u)
             j == row[u][k].ref
  <2>3. v \in Tables /\ j \in Ids
    BY <1>0, <2>2, ReferredBefore DEF NamesFacts, TypeOK, Row
  <2>4. row[v][j] # NULL /\ row[v][j].home = row[u][k].home
    BY <1>0, <2>2 DEF ReferencesStayInside
  <2>5. ~Deleted(v, j)
    BY <2>1, <2>2 DEF AppStep
  <2>. HIDE DEF v, j
  <2>6. row'[v][j] = row[v][j] \/ Edited(v, j) \/ Created(v, j) \/ Deleted(v, j)
    BY <2>1, <2>3, Zenon DEF AppStep
  <2>7. row'[v][j] # NULL /\ row'[v][j].home = row[v][j].home
    BY <2>4, <2>5, <2>6 DEF Edited, Created
  <2>. QED  BY <2>2, <2>4, <2>7 DEF v, j
<1>4. ASSUME NEW h \in Households, SeedHousehold(h) PROVE ReferencesStayInside'
  BY <1>1, <1>4, Quiet
<1>5. ASSUME NEW E \in SUBSET Tables, Begin(E) PROVE ReferencesStayInside'
  BY <1>1, <1>5, Quiet
<1>6. ASSUME FindHousehold \/ LookUp \/ Summarise \/ Stop \/ Validate \/ UNCHANGED vars
      PROVE  ReferencesStayInside'
  BY <1>1, <1>6, Quiet
<1>. QED
  BY <1>0, <1>2, <1>3, <1>4, <1>5, <1>6, StepCases, Zenon DEF Cases

LEMMA LookupStep == IInv /\ [Next]_vars => LookupRight'
<1>. SUFFICES ASSUME IInv, [Next]_vars PROVE LookupRight'
  OBVIOUS
<1>0. TypeOK /\ RunFacts /\ NamesFacts /\ LookupRight /\ Progress /\ ValidMeansFaithful
      /\ run \in Run
  BY DEF IInv, TypeOK
<1>1. ASSUME run'.step # "loading" PROVE LookupRight'
  BY <1>1 DEF LookupRight, Lookup
<1>2. ASSUME UNCHANGED <<line, bypass, house, row, run, valid>> PROVE LookupRight'
  BY <1>0, <1>2 DEF LookupRight, Lookup, Sound, Complete, Exact, In
<1>3. ASSUME run'.at = 1 PROVE LookupRight'
  <2>1. Referred(Order[1]) \notin Tables
    BY OrderFacts DEF Referred
  <2>. QED  BY <1>3, <2>1 DEF LookupRight, Lookup
<1>4. ASSUME LookUp PROVE LookupRight'
  <2>1. /\ run'.known = Known(Order[run.at - 1], run.home) /\ run'.at = run.at
        /\ run'.home = run.home /\ run'.entities = run.entities /\ run'.errors = run.errors
        /\ run.step = "looking" /\ run.at \in {2, 4} /\ run'.lost = {}
    BY <1>0, <1>4, LookUpFacts
  <2>2. UNCHANGED <<line, named, bypass, house, row, valid>>
    BY <1>4, Quiet
  <2>. SUFFICES ASSUME NEW t \in Tables, Lookup(t)'
       PROVE  Sound(t)' /\ Complete(t)' /\ Exact(t)'
    BY DEF LookupRight
  <2>3. t = Order[run.at - 1] /\ t # "Brew_Log"
    BY <2>1, ReferredBefore, OrderFacts DEF Lookup
  <2>4. run'.known = Known(t, run.home)
    BY <2>1, <2>3
  <2>5. Sound(t)'
    BY <2>1, <2>2, <2>4 DEF Sound, Known, In
  <2>6. Complete(t)'
    <3>. SUFFICES ASSUME run.entities = Tables, ~run.errors, house[run.home] # "deleted",
                         NEW k \in Ids, line[t][k] # "none"
         PROVE  k \in Known(t, run.home)
      BY <2>1, <2>2, <2>4 DEF Complete
    <3>1. Migrated(t, run.home)
      BY <1>0, <2>1, <2>3 DEF Progress
    <3>2. Stays(t, run.home)
      BY <2>3 DEF Stays
    <3>. QED  BY <3>1, <3>2 DEF Migrated, Known, In
  <2>7. Exact(t)'
    <3>. SUFFICES ASSUME valid, bypass, NEW k \in Ids
         PROVE  k \in Known(t, run.home) <=> line[t][k] = "good"
      BY <2>2, <2>4 DEF Exact
    <3>. QED  BY <1>0 DEF ValidMeansFaithful, Known
  <2>. QED  BY <2>5, <2>6, <2>7
<1>5. ASSUME NEW t \in Tables, Load(t) PROVE LookupRight'
  <2>1. run'.at = run.at + 1 /\ run'.step = After(Order[run.at]) /\ run.at \in 1..5
    BY <1>0, <1>5, LoadFacts
  <2>2. \A u \in Tables : ~Lookup(u)'
    <3>. SUFFICES ASSUME NEW u \in Tables, Lookup(u)' PROVE FALSE
      OBVIOUS
    <3>1. run'.step = "loading" /\ run'.at \in 1..5 /\ Referred(Order[run'.at]) = u
      BY DEF Lookup
    <3>2. u # NULL
      OBVIOUS
    <3>. QED  BY <2>1, <3>1, <3>2, ReferredBefore
  <2>. QED  BY <2>2 DEF LookupRight
<1>6. ASSUME Application PROVE LookupRight'
  <2>1. AppStep
    BY <1>0, <1>6, AppFacts
  <2>2. /\ run'.step = run.step /\ run'.at = run.at /\ run'.entities = run.entities
        /\ run'.home = run.home /\ run'.known = run.known /\ run'.errors = run.errors
        /\ UNCHANGED <<line, bypass>> /\ run.known \subseteq Ids
    BY <1>0, <2>1 DEF AppStep, Run
  <2>. SUFFICES ASSUME NEW t \in Tables, Lookup(t)
       PROVE  Sound(t)' /\ Complete(t)' /\ Exact(t)'
    BY <2>2 DEF LookupRight, Lookup
  <2>3. Sound(t) /\ Complete(t) /\ Exact(t)
    BY <1>0 DEF LookupRight
  <2>4. Sound(t)'
    <3>. SUFFICES ASSUME ~bypass, NEW k \in run.known \ run'.lost
         PROVE  In(t, k, run.home)'
      BY <2>2 DEF Sound
    <3>1. k \in Ids /\ k \notin run.lost /\ (row[t][k] # NULL => ~Deleted(t, k))
      BY <2>1, <2>2 DEF AppStep
    <3>2. In(t, k, run.home)
      BY <2>3, <3>1 DEF Sound
    <3>3. row'[t][k] = row[t][k] \/ Edited(t, k) \/ Created(t, k)
      BY <2>1, <3>1, <3>2 DEF AppStep, In
    <3>. QED  BY <2>2, <3>2, <3>3 DEF In, Edited, Created
  <2>5. Complete(t)'
    <3>1. run.home \in Households
      BY <1>0 DEF RunFacts, Lookup
    <3>2. house[run.home] = "deleted" => house'[run.home] = "deleted"
      BY <1>0, <2>1, <3>1, Households2
    <3>. QED  BY <2>2, <2>3, <3>2 DEF Complete
  <2>6. Exact(t)'
    <3>1. ~valid' \/ valid' = valid
      BY <2>1 DEF AppStep
    <3>. QED  BY <2>2, <2>3, <3>1 DEF Exact
  <2>. QED  BY <2>4, <2>5, <2>6
<1>7. ASSUME Summarise \/ Stop PROVE LookupRight'
  BY <1>0, <1>1, <1>7, EndFacts
<1>8. ASSUME NEW E \in SUBSET Tables, Begin(E) PROVE LookupRight'
  BY <1>1, <1>8, BeginFacts
<1>9. ASSUME Validate PROVE LookupRight'
  BY <1>1, <1>9, Quiet
<1>10. ASSUME FindHousehold PROVE LookupRight'
  BY <1>0, <1>3, <1>10, FindFacts
<1>11. ASSUME NEW h \in Households, SeedHousehold(h) PROVE LookupRight'
  BY <1>0, <1>3, <1>11, SeedFactsOf
<1>12. CASE UNCHANGED vars
  BY <1>2, <1>12, Quiet
<1>. QED
  BY <1>0, <1>4, <1>5, <1>6, <1>7, <1>8, <1>9, <1>10, <1>11, <1>12, StepCases, Zenon DEF Cases

\* The application leaves what has been migrated, as far as it may not take it away.
LEMMA MigratedStays ==
  ASSUME TypeOK, AppStep, NEW t \in Tables, NEW h \in Households, Migrated(t, h)
  PROVE  Migrated(t, h)'
<1>1. UNCHANGED <<line, named>>
  BY DEF AppStep
<1>. SUFFICES ASSUME NEW i \in Ids, line[t][i] # "none", Stays(t, h)'
     PROVE  /\ In(t, i, h)'
            /\ house'[h] = "seeded" => row'[t][i].same
            /\ named[t][i] # NULL /\ line[Referred(t)][named[t][i]] # "none"
                 => row'[t][i].ref = named[t][i]
  BY <1>1 DEF Migrated
<1>2. /\ house[h] = "deleted" => house'[h] = "deleted"
      /\ house'[h] = "seeded" <=> house[h] = "seeded"
      /\ h \in Peopled => house'[h] # "seeded"
  BY Households2
<1>3. Stays(t, h)
  BY <1>2 DEF Stays
<1>4. /\ In(t, i, h)
      /\ house[h] = "seeded" => row[t][i].same
      /\ named[t][i] # NULL /\ line[Referred(t)][named[t][i]] # "none"
           => row[t][i].ref = named[t][i]
  BY <1>3 DEF Migrated
<1>5. ~Created(t, i) /\ ~Deleted(t, i)
  BY <1>2, <1>4 DEF In, Created, Deleted, Stays
<1>6. row'[t][i] = row[t][i] \/ Edited(t, i)
  BY <1>5 DEF AppStep
<1>7. CASE row'[t][i] = row[t][i]
  BY <1>2, <1>4, <1>7 DEF In
<1>8. CASE Edited(t, i)
  BY <1>2, <1>4, <1>8 DEF In, Edited
<1>. QED  BY <1>6, <1>7, <1>8

LEMMA ProgressStep == IInv /\ [Next]_vars => Progress'
<1>. SUFFICES ASSUME IInv, [Next]_vars PROVE Progress'
  OBVIOUS
<1>0. TypeOK /\ RunFacts /\ NamesFacts /\ LookupRight /\ Progress /\ run \in Run
  BY DEF IInv, TypeOK
<1>1. ASSUME run'.step \notin {"loading", "looking"} PROVE Progress'
  BY <1>1 DEF Progress
<1>2. ASSUME UNCHANGED <<line, named, house, row>>, run'.at = run.at, run'.home = run.home,
             run'.entities = run.entities, run'.errors = run.errors,
             run'.step \in {"loading", "looking"} => run.step \in {"loading", "looking"}
      PROVE  Progress'
  BY <1>0, <1>2 DEF Progress, Migrated, Stays, In
<1>3. ASSUME run'.at = 1 PROVE Progress'
  BY <1>3 DEF Progress
<1>4. ASSUME LookUp PROVE Progress'
  BY <1>0, <1>2, <1>4, LookUpFacts, Quiet
<1>5. ASSUME NEW t \in Tables, Load(t) PROVE Progress'
  <2>. SUFFICES ASSUME run'.entities = Tables, ~run'.errors
       PROVE  \A j \in 1..(run'.at - 1) : Migrated(Order[j], run.home)'
    <3>1. run'.home = run.home
      BY <1>0, <1>5, LoadFacts
    <3>. QED  BY <3>1 DEF Progress
  <2>1. /\ run.step = "loading" /\ run.at \in 1..5 /\ Order[run.at] = t
        /\ run'.at = run.at + 1 /\ run'.home = run.home /\ run.entities = Tables
        /\ ~run.errors /\ run.home \in Households /\ run.known \in SUBSET Ids
    BY <1>0, <1>5, LoadFacts
  <2>2. /\ MayUpsert(t, run.home) /\ row' = [row EXCEPT ![t] = Upserted(t, run.home, run.known)]
        /\ \A i \in Ids : line[t][i] # "bad"
    BY <1>0, <1>5, <2>1, LoadFacts
  <2>3. UNCHANGED <<line, named, house>>
    BY <1>0, <1>5, LoadRows
  <2>4. ASSUME NEW j \in 1..(run.at - 1) PROVE Migrated(Order[j], run.home)'
    <3>1. Migrated(Order[j], run.home)
      BY <1>0, <2>1 DEF Progress
    <3>2. j \in 1..5 /\ Order[j] \in Tables \ {t}
      BY <2>1, OrderOnce
    <3>3. row'[Order[j]] = row[Order[j]]
      BY <1>0, <1>5, <3>2, LoadRows
    <3>. QED  BY <2>1, <2>3, <3>1, <3>3 DEF Migrated, Stays, In
  <2>5. Migrated(t, run.home)'
    <3>. SUFFICES ASSUME NEW i \in Ids, line[t][i] # "none"
         PROVE  /\ line[t][i] = "good"
                /\ Stays(t, run.home) =>
                     /\ row'[t][i] # NULL /\ row'[t][i].home = run.home
                     /\ row'[t][i].same
                     /\ named[t][i] # NULL /\ line[Referred(t)][named[t][i]] # "none"
                          => row'[t][i].ref = named[t][i]
      BY <2>1, <2>3 DEF Migrated, Stays, In
    <3>1. line[t][i] = "good" /\ i \in Mapped(t)
      BY <1>0, <2>2 DEF TypeOK, MayUpsert, Mapped
    <3>2. row'[t] = Upserted(t, run.home, run.known)
      BY <1>0, <2>2 DEF TypeOK
    <3>3. /\ row'[t][i] # NULL /\ row'[t][i].home = run.home /\ row'[t][i].same
          /\ row'[t][i].ref = Resolved(t, i, run.known)
      BY <1>0, <2>1, <3>1, <3>2, UpsertedRows
    <3>4. ASSUME Stays(t, run.home),
                 named[t][i] # NULL, line[Referred(t)][named[t][i]] # "none"
          PROVE  row'[t][i].ref = named[t][i]
      <4>1. Referred(t) \in Tables /\ named[t][i] \in Ids
        BY <1>0, <3>4, ReferredBefore DEF NamesFacts, TypeOK
      <4>2. Lookup(Referred(t)) /\ house[run.home] # "deleted"
        BY <2>1, <3>4 DEF Lookup, Stays
      <4>3. named[t][i] \in run.known
        BY <1>0, <2>1, <3>4, <4>1, <4>2 DEF LookupRight, Complete
      <4>. QED  BY <3>3, <4>3, ResolvedIsKnown
    <3>. QED  BY <3>1, <3>3, <3>4
  <2>6. \A j \in 1..(run'.at - 1) : j \in 1..(run.at - 1) \/ Order[j] = t
    BY <2>1
  <2>. QED  BY <2>4, <2>5, <2>6, Zenon
<1>6. ASSUME Application PROVE Progress'
  <2>1. AppStep
    BY <1>0, <1>6, AppFacts
  <2>2. run'.step = run.step /\ run'.at = run.at /\ run'.home = run.home
        /\ run'.entities = run.entities /\ run'.errors = run.errors
    BY <2>1 DEF AppStep
  <2>. SUFFICES ASSUME run.step \in {"loading", "looking"}, run.entities = Tables, ~run.errors,
                       NEW j \in 1..(run.at - 1)
       PROVE  Migrated(Order[j], run.home)'
    BY <2>2 DEF Progress
  <2>3. run.home \in Households /\ Order[j] \in Tables
    BY <1>0, OrderOnce DEF RunFacts, Run
  <2>4. Migrated(Order[j], run.home)
    BY <1>0 DEF Progress
  <2>5. \A t \in Tables, h \in Households : Migrated(t, h) => Migrated(t, h)'
    BY <1>0, <2>1, MigratedStays
  <2>. DEFINE t == Order[j]
             h == run.home
  <2>6. t \in Tables /\ h \in Households /\ Migrated(t, h)
    BY <2>3, <2>4
  <2>7. h' = h
    BY <2>2
  <2>. QED  BY <2>2, <2>5, <2>6, <2>7 DEF Migrated, Stays, In
<1>7. ASSUME Summarise \/ Stop PROVE Progress'
  BY <1>0, <1>1, <1>7, EndFacts
<1>8. ASSUME NEW E \in SUBSET Tables, Begin(E) PROVE Progress'
  BY <1>1, <1>8, BeginFacts
<1>9. ASSUME Validate \/ UNCHANGED vars PROVE Progress'
  BY <1>2, <1>9, Quiet
<1>10. ASSUME FindHousehold PROVE Progress'
  BY <1>0, <1>3, <1>10, FindFacts
<1>11. ASSUME NEW h \in Households, SeedHousehold(h) PROVE Progress'
  BY <1>0, <1>3, <1>11, SeedFactsOf
<1>. QED
  BY <1>0, <1>4, <1>5, <1>6, <1>7, <1>8, <1>9, <1>10, <1>11, StepCases, Zenon DEF Cases

LEMMA FaithfulStep == IInv /\ [Next]_vars => ValidMeansFaithful'
<1>. SUFFICES ASSUME IInv, [Next]_vars PROVE ValidMeansFaithful'
  OBVIOUS
<1>0. TypeOK /\ RunFacts /\ NamesFacts /\ LookupRight /\ ValidMeansFaithful
  BY DEF IInv
<1>1. ASSUME ~valid' \/ UNCHANGED <<line, named, bypass, row, valid>>
      PROVE  ValidMeansFaithful'
  <2>1. CASE ~valid'
    BY <2>1 DEF ValidMeansFaithful
  <2>2. CASE UNCHANGED <<line, named, bypass, row, valid>>
    <3>1. line' = line /\ named' = named /\ bypass' = bypass /\ row' = row /\ valid' = valid
      BY <2>2
    <3>. QED  BY <1>0, <3>1, Zenon DEF ValidMeansFaithful
  <2>. QED  BY <1>1, <2>1, <2>2
<1>2. ASSUME Validate PROVE ValidMeansFaithful'
  <2>1. UNCHANGED <<line, named, bypass, row>>
    BY <1>2, Quiet
  <2>. SUFFICES ASSUME valid', NEW t \in Tables, NEW i \in Ids
       PROVE  /\ line[t][i] \in {"none", "good"}
              /\ bypass \/ line[t][i] = "none"
              /\ bypass /\ line[t][i] = "none" => row[t][i] = NULL
              /\ line[t][i] = "good" =>
                   /\ row[t][i] # NULL /\ row[t][i].same
                   /\ row[t][i].ref =
                        IF named[t][i] # NULL /\ line[Referred(t)][named[t][i]] = "good"
                        THEN named[t][i] ELSE NULL
    BY <2>1 DEF ValidMeansFaithful
  <2>2. \A u \in Tables :
          /\ \A k \in Ids : line[u][k] \in {"none", "good"}
          /\ Seen(u) = Mapped(u)
          /\ \A k \in Mapped(u) : Agrees(u, k)
    BY <1>2 DEF Validate
  <2>3. \A u \in Tables, k \in Ids : line[u][k] = "good" <=> bypass /\ row[u][k] # NULL
    BY <2>2 DEF Seen, Mapped
  <2>4. ASSUME line[t][i] = "good"
        PROVE  /\ row[t][i].same
               /\ row[t][i].ref = Resolved(t, i, IF Referred(t) = NULL THEN {}
                                                 ELSE Seen(Referred(t)))
    BY <2>2, <2>4 DEF Mapped, Agrees
  <2>5. named[t][i] # NULL => Referred(t) \in Tables /\ named[t][i] \in Ids
    BY <1>0, ReferredBefore DEF NamesFacts, TypeOK
  <2>6. Resolved(t, i, IF Referred(t) = NULL THEN {} ELSE Seen(Referred(t)))
          = IF named[t][i] # NULL /\ line[Referred(t)][named[t][i]] = "good"
            THEN named[t][i] ELSE NULL
    <3>1. CASE named[t][i] = NULL
      BY <3>1 DEF Resolved
    <3>2. CASE named[t][i] # NULL
      <4>1. named[t][i] \in Seen(Referred(t)) <=> line[Referred(t)][named[t][i]] = "good"
        BY <2>3, <2>5, <3>2 DEF Seen
      <4>2. Referred(t) # NULL
        BY <2>5, <3>2
      <4>. QED  BY <3>2, <4>1, <4>2 DEF Resolved
    <3>. QED  BY <3>1, <3>2
  <2>. QED  BY <2>2, <2>3, <2>4, <2>6
<1>3. ASSUME NEW t \in Tables, Load(t) PROVE ValidMeansFaithful'
  <2>1. UNCHANGED <<line, named, bypass, valid>>
    BY <1>0, <1>3, LoadRows
  <2>. SUFFICES ASSUME valid, NEW u \in Tables, NEW i \in Ids
       PROVE  /\ line[u][i] \in {"none", "good"}
              /\ bypass \/ line[u][i] = "none"
              /\ bypass /\ line[u][i] = "none" => row'[u][i] = NULL
              /\ line[u][i] = "good" =>
                   /\ row'[u][i] # NULL /\ row'[u][i].same
                   /\ row'[u][i].ref =
                        IF named[u][i] # NULL /\ line[Referred(u)][named[u][i]] = "good"
                        THEN named[u][i] ELSE NULL
    BY <2>1 DEF ValidMeansFaithful
  <2>2. /\ line[u][i] \in {"none", "good"}
        /\ bypass \/ line[u][i] = "none"
        /\ bypass /\ line[u][i] = "none" => row[u][i] = NULL
        /\ line[u][i] = "good" =>
             /\ row[u][i] # NULL /\ row[u][i].same
             /\ row[u][i].ref = IF named[u][i] # NULL /\ line[Referred(u)][named[u][i]] = "good"
                                THEN named[u][i] ELSE NULL
    BY <1>0 DEF ValidMeansFaithful
  <2>3. row'[u][i] = row[u][i] \/ (u = t /\ Written(t, i))
    <3>1. u # t => row'[u] = row[u]
      BY <1>0, <1>3, LoadRows, Zenon
    <3>2. row'[t][i] = row[t][i] \/ Written(t, i)
      BY <1>0, <1>3, LoadRows, Zenon
    <3>. QED  BY <3>1, <3>2
  <2>4. CASE row'[u][i] = row[u][i]
    BY <2>2, <2>4
  <2>5. CASE u = t /\ Written(t, i)
    <3>1. /\ line[t][i] = "good" /\ bypass /\ row'[t][i] # NULL /\ row'[t][i].same
          /\ row'[t][i].ref = Resolved(t, i, run.known)
      BY <2>2, <2>5 DEF Written
    <3>2. Resolved(t, i, run.known) =
            IF named[t][i] # NULL /\ line[Referred(t)][named[t][i]] = "good"
            THEN named[t][i] ELSE NULL
      <4>1. CASE named[t][i] = NULL
        BY <4>1 DEF Resolved
      <4>2. CASE named[t][i] # NULL
        <5>1. Referred(t) \in Tables /\ named[t][i] \in Ids
          BY <1>0, <4>2, ReferredBefore DEF NamesFacts, TypeOK
        <5>2. Lookup(Referred(t))
          BY <1>0, <1>3, LoadFacts DEF Lookup
        <5>3. named[t][i] \in run.known <=> line[Referred(t)][named[t][i]] = "good"
          BY <1>0, <3>1, <5>1, <5>2 DEF LookupRight, Exact
        <5>. QED  BY <4>2, <5>3 DEF Resolved
      <4>. QED  BY <4>1, <4>2
    <3>. QED  BY <2>5, <3>1, <3>2
  <2>. QED  BY <2>3, <2>4, <2>5
<1>4. ASSUME Application PROVE ValidMeansFaithful'
  <2>1. AppStep
    BY <1>0, <1>4, AppFacts
  <2>. QED  BY <1>1, <2>1 DEF AppStep
<1>5. ASSUME NEW h \in Households, SeedHousehold(h) PROVE ValidMeansFaithful'
  BY <1>1, <1>5, Quiet
<1>6. ASSUME NEW E \in SUBSET Tables, Begin(E) PROVE ValidMeansFaithful'
  BY <1>1, <1>6, Quiet
<1>7. ASSUME FindHousehold \/ LookUp \/ Summarise \/ Stop \/ UNCHANGED vars
      PROVE  ValidMeansFaithful'
  BY <1>1, <1>7, Quiet
<1>. QED
  BY <1>0, <1>2, <1>3, <1>4, <1>5, <1>6, <1>7, StepCases, Zenon DEF Cases

LEMMA IndInv == Spec => []IInv
<1>1. IInv /\ [Next]_vars => IInv'
  BY TypeStep, RunStep, SeedStep, NamesStep, ReferencesStep, LookupStep, ProgressStep,
     FaithfulStep, Zenon DEF IInv
<1>. QED  BY <1>1, InitIInv, PTL DEF Spec

-----------------------------------------------------------------------------
(* Theorems.                                                               *)

\* The variables of the migration stay within their types.
THEOREM TypeCorrect == Spec => []TypeOK
<1>1. IInv => TypeOK
  BY DEF IInv
<1>. QED  BY <1>1, IndInv, PTL

\* ensure_default_household, repeated by every run that is stopped or begun
\* again, seeds at most one household, whichever households the application
\* calls "default" meanwhile; and nothing is put there but lines of the sheet.
THEOREM SeedsOnceCorrect == Spec => []SeedsOnce
<1>1. IInv => SeedsOnce
  BY DEF IInv
<1>. QED  BY <1>1, IndInv, PTL

\* With row-level security in force, no reference that a mapper resolves leaves
\* the household, whatever the application creates and deletes meanwhile.
THEOREM ReferencesStayInsideCorrect == Spec => []ReferencesStayInside
<1>1. IInv => ReferencesStayInside
  BY DEF IInv
<1>. QED  BY <1>1, IndInv, PTL

\* What validate_migration has compared and found equal stays equal through any
\* further runs, until the application changes a row.
THEOREM ValidMeansFaithfulCorrect == Spec => []ValidMeansFaithful
<1>1. IInv => ValidMeansFaithful
  BY DEF IInv
<1>. QED  BY <1>1, IndInv, PTL

\* A run of all entities that reports MIGRATION COMPLETE has left every line of
\* the sheet in its household, and resolved each name that the sheet has, but for
\* what the members of that household have deleted or edited since.
THEOREM CompleteMeansMigratedCorrect == Spec => CompleteMeansMigrated
<1>. DEFINE A ==
       run.step # "idle" /\ run'.verdict = "complete" /\ run.entities = Tables =>
         \A t \in Tables, i \in Ids : line[t][i] # "none" =>
           /\ line[t][i] = "good"
           /\ Stays(t, run.home) =>
                /\ In(t, i, run.home)
                /\ house[run.home] = "seeded" => row[t][i].same
                /\ named[t][i] # NULL /\ line[Referred(t)][named[t][i]] # "none"
                     => row[t][i].ref = named[t][i]
<1>1. IInv /\ [Next]_vars => [A]_vars
  <2>. SUFFICES ASSUME IInv, [Next]_vars, run.step # "idle", run'.verdict = "complete",
                       run.entities = Tables, NEW t \in Tables
       PROVE  Migrated(t, run.home)
    BY DEF Migrated
  <2>0. TypeOK /\ RunFacts /\ NamesFacts
    BY DEF IInv
  <2>1. run.verdict = NULL /\ run.verdict # "complete" /\ run \in Run
    BY <2>0 DEF RunFacts, TypeOK
  <2>2. Summarise
    <3>1. ~Validate /\ ~UNCHANGED vars
      BY <2>1, Quiet
    <3>2. ~FindHousehold /\ ~LookUp
      BY <2>0, <2>1, FindFacts, LookUpFacts
    <3>3. ~Stop
      BY <2>1 DEF Stop, Idle
    <3>4. \A u \in Tables : ~Load(u)
      BY <2>0, <2>1, LoadFacts
    <3>5. \A h \in Households : ~SeedHousehold(h)
      BY <2>0, <2>1, SeedFactsOf
    <3>6. \A E \in SUBSET Tables : ~Begin(E)
      BY <2>1 DEF Begin
    <3>7. ~Application
      BY <2>0, <2>1, AppFacts DEF AppStep
    <3>. QED  BY <2>0, <3>1, <3>2, <3>3, <3>4, <3>5, <3>6, <3>7, StepCases, Zenon DEF Cases
  <2>3. run.step = "loading" /\ run.at = 6 /\ ~run.errors
    BY <2>1, <2>2 DEF Summarise, Run
  <2>4. PICK j \in 1..5 : Order[j] = t
    BY OrderOnce
  <2>. QED  BY <2>3, <2>4 DEF IInv, Progress
<1>. QED  BY <1>1, IndInv, PTL DEF Spec, CompleteMeansMigrated
=============================================================================
