----------------------------- MODULE Migration -----------------------------
(***************************************************************************)
(* The scripts that move the data of the spreadsheet to Postgres and       *)
(* compare the two afterwards.  Runs follow one another: a run may stop    *)
(* anywhere, be restricted to some entities, and be repeated, while the    *)
(* application creates, edits and deletes rows, and creates, renames and   *)
(* deletes households.                                                     *)
(*                                                                         *)
(* The content of a row is whether it is the "same" as its line: whether   *)
(* the columns that the mapper sets, but the household and the reference,  *)
(* have the values that the mapper makes of the line.  ref is the row that *)
(* catalog_id of a bag or hardware_id of an event points to.               *)
(***************************************************************************)
EXTENDS Naturals

\* Focuses and MaxRuns are bounds of the model: the tabs that have rows together,
\* and how often the script is run.
CONSTANTS Households, Ids, NULL, Focuses, MaxRuns

VARIABLES
  focus,    \* the tabs that have rows
  line,     \* line[t][i]: the line with id i in the tab of t
  named,    \* named[t][i]: the id it names, in the column Catalog_ID or Hardware_ID
  bypass,   \* whether the role of the scripts bypasses row-level security
  house,    \* house[h]: not created, seeded by the script, or of the application:
            \* named "default", of another name, deleted
  row,      \* row[t][i]: the row with sheets_id i, or NULL
  run,      \* the run of the migration script
  begun,    \* how many runs have begun
  valid     \* what the last validation said, if the application has changed
            \* no row since

vars == <<focus, line, named, bypass, house, row, run, begun, valid>>

\* In the order of the script.
Order == <<"Catalog", "Inventory", "Hardware", "Maintenance", "Brew_Log">>

Tables == {"Catalog", "Inventory", "Hardware", "Maintenance", "Brew_Log"}

\* The lookup a mapper is given: of the table that was loaded just before.
Referred(t) == CASE t = "Inventory" -> "Catalog" [] t = "Maintenance" -> "Hardware"
                 [] OTHER -> NULL

House == {"none", "seeded", "default", "other", "deleted"}

Row == [home : Households, ref : Ids \cup {NULL}, same : BOOLEAN]

ASSUME MigrationAssumption ==
  /\ Focuses \subseteq SUBSET Tables /\ MaxRuns \in Nat
  /\ NULL \notin Households \cup Ids \cup Row \cup Tables
  /\ NULL \notin {"complete", "failed", "stopped"}

\* lost: ids that were looked up and whose rows are deleted since.
Run == [step : {"idle", "household", "seeding", "loading", "looking"}, at : 1..6,
        entities : SUBSET Tables, home : Households \cup {NULL}, known : SUBSET Ids,
        lost : SUBSET Ids, errors : BOOLEAN, verdict : {NULL, "complete", "failed", "stopped"}]

Idle == [step |-> "idle", at |-> 1, entities |-> {}, home |-> NULL, known |-> {},
         lost |-> {}, errors |-> FALSE, verdict |-> NULL]

\* A line that the mapper accepts is good, unless its id is there twice.
Init ==
  /\ focus \in Focuses
  /\ \E f \in [focus -> [Ids -> {"none", "good", "bad", "twice"}]] :
       line = [t \in Tables |-> [i \in Ids |-> IF t \in focus THEN f[t][i] ELSE "none"]]
  /\ \E f \in [{t \in focus : Referred(t) # NULL} -> [Ids -> Ids \cup {NULL}]] :
       named = [t \in Tables |-> [i \in Ids |->
                  IF line[t][i] \in {"good", "twice"} /\ Referred(t) # NULL
                  THEN f[t][i] ELSE NULL]]
  /\ bypass \in BOOLEAN
  /\ house = [h \in Households |-> "none"]
  /\ row = [t \in Tables |-> [i \in Ids |-> NULL]]
  /\ run = Idle
  /\ begun = 0
  /\ valid = FALSE

-----------------------------------------------------------------------------
(* The migration script.                                                   *)

Begin(E) ==
  /\ run.step = "idle" /\ begun < MaxRuns
  /\ begun' = begun + 1
  /\ run' = [Idle EXCEPT !.step = "household", !.entities = E]
  /\ UNCHANGED <<focus, line, named, bypass, house, row, valid>>

ChoicesFaulty == {h \in Households : house[h] = "default"}

\* ensure_default_household selects by name, without an order.
Choices == {h \in Households : house[h] \in {"seeded", "default"}}

FindHousehold ==
  /\ run.step = "household"
  /\ \/ \E h \in Choices : run' = [run EXCEPT !.step = "loading", !.home = h]
     \/ Choices = {} /\ run' = [run EXCEPT !.step = "seeding"]
  /\ UNCHANGED <<focus, line, named, bypass, house, row, begun, valid>>

\* The household it inserts has no members.
SeedHousehold(h) ==
  /\ run.step = "seeding" /\ house[h] = "none"
  /\ house' = [house EXCEPT ![h] = "seeded"]
  /\ run' = [run EXCEPT !.step = "loading", !.home = h]
  /\ UNCHANGED <<focus, line, named, bypass, row, begun, valid>>

\* The mappers refuse a bad line, which is skipped and counted.
Mapped(t) == {i \in Ids : line[t][i] \in {"good", "twice"}}

ResolvedFaulty(t, i, known) == IF named[t][i] \in known THEN named[t][i] ELSE 0

\* A name the lookup does not have becomes NULL, and is no error.
Resolved(t, i, known) == IF named[t][i] \in known THEN named[t][i] ELSE NULL

\* bulk_upsert, INSERT ... ON CONFLICT (sheets_id) DO UPDATE of every column.
Upserted(t, h, known) ==
  [i \in Ids |-> IF i \in Mapped(t)
                 THEN [home |-> h, ref |-> Resolved(t, i, known), same |-> TRUE]
                 ELSE row[t][i]]

\* The statement fails for an id given twice, for a household or a row referred
\* to that is deleted, and under row-level security for a row of another household.
MayUpsert(t, h) ==
  \A i \in Mapped(t) :
    /\ line[t][i] # "twice"
    /\ house[h] # "deleted" /\ Resolved(t, i, run.known) \notin run.lost
    /\ ~bypass /\ row[t][i] # NULL => row[t][i].home = h

AfterFaulty(t) == IF t \in {"Inventory", "Maintenance"} THEN "looking" ELSE "loading"

After(t) == IF t \in {"Catalog", "Hardware"} THEN "looking" ELSE "loading"

\* One tab, in one transaction.  A failure is counted and the run goes on.
Load(t) ==
  /\ run.step = "loading" /\ run.at \in 1..5 /\ Order[run.at] = t
  /\ \/ /\ t \in run.entities /\ MayUpsert(t, run.home)
        /\ row' = [row EXCEPT ![t] = Upserted(t, run.home, run.known)]
        /\ run' = [run EXCEPT !.step = After(t), !.at = @ + 1,
                              !.errors = @ \/ \E i \in Ids : line[t][i] = "bad"]
     \/ /\ t \in run.entities /\ Mapped(t) # {}
        /\ run' = [run EXCEPT !.step = After(t), !.at = @ + 1, !.errors = TRUE]
        /\ UNCHANGED row
     \/ /\ t \notin run.entities
        /\ run' = [run EXCEPT !.step = After(t), !.at = @ + 1]
        /\ UNCHANGED row
  /\ UNCHANGED <<focus, line, named, bypass, house, begun, valid>>

KnownFaulty(t, h) == {i \in Ids : row[t][i] # NULL}

Known(t, h) == {i \in Ids : row[t][i] # NULL /\ (bypass \/ row[t][i].home = h)}

\* The lookups are read back after the upsert, also of tables not selected.
LookUp ==
  /\ run.step = "looking"
  /\ run' = [run EXCEPT !.step = "loading", !.lost = {},
                        !.known = Known(Order[run.at - 1], run.home)]
  /\ UNCHANGED <<focus, line, named, bypass, house, row, begun, valid>>

Summarise ==
  /\ run.step = "loading" /\ run.at = 6
  /\ run' = [run EXCEPT !.step = "idle",
                        !.verdict = IF run.errors THEN "failed" ELSE "complete"]
  /\ UNCHANGED <<focus, line, named, bypass, house, row, begun, valid>>

\* The sheet or the database cannot be reached, the process is killed.
Stop ==
  /\ run.step # "idle"
  /\ run' = [Idle EXCEPT !.verdict = "stopped"]
  /\ UNCHANGED <<focus, line, named, bypass, house, row, begun, valid>>

-----------------------------------------------------------------------------
(* Validation, and the application.                                        *)

\* validate_migration sets no household.
Seen(t) == {i \in Ids : bypass /\ row[t][i] # NULL}

AgreesFaulty(t, i) == row[t][i].same

\* row_checksum, of the columns the mapper sets but the household.
Agrees(t, i) ==
  /\ row[t][i].same
  /\ row[t][i].ref = Resolved(t, i, IF Referred(t) = NULL THEN {} ELSE Seen(Referred(t)))

Validate ==
  /\ run.step = "idle" /\ begun > 0
  /\ valid' = \A t \in Tables :
                /\ \A i \in Ids : line[t][i] \in {"none", "good"}
                /\ Seen(t) = Mapped(t)
                /\ \A i \in Mapped(t) : Agrees(t, i)
  /\ UNCHANGED <<focus, line, named, bypass, house, row, run, begun>>

\* Every handler of the application requires a member.
Peopled == {h \in Households : house[h] \in {"default", "other"}}

\* A household is created, or renamed.
NameHousehold(h, name) ==
  /\ h \in Peopled \/ house[h] = "none"
  /\ house' = [house EXCEPT ![h] = name]
  /\ UNCHANGED <<focus, line, named, bypass, row, run, begun, valid>>

\* Whether row i of table t is in household h.
In(t, i, h) == row[t][i] # NULL /\ row[t][i].home = h

\* Its rows go with a household, unless a row of another one refers to them.
DeleteHousehold(h) ==
  /\ h \in Peopled
  /\ \A t \in Tables, i \in Ids :
       row[t][i] # NULL /\ row[t][i].ref # NULL /\ In(Referred(t), row[t][i].ref, h) =>
         row[t][i].home = h
  /\ house' = [house EXCEPT ![h] = "deleted"]
  /\ row' = [t \in Tables |-> [i \in Ids |-> IF In(t, i, h) THEN NULL ELSE row[t][i]]]
  /\ run' = [run EXCEPT !.lost = @ \cup
               {k \in run.known : run.at \in {2, 4} /\ In(Order[run.at - 1], k, h)}]
  /\ valid' = FALSE
  /\ UNCHANGED <<focus, line, named, bypass, begun>>

\* The members of a household create rows, with ids of their own choice, and
\* edit rows; what they enter may be what the line says.
Create(t, i, h, same) ==
  /\ row[t][i] = NULL /\ h \in Peopled
  /\ same => i \in Mapped(t)
  /\ row' = [row EXCEPT ![t][i] = [home |-> h, ref |-> NULL, same |-> same]]
  /\ valid' = FALSE
  /\ UNCHANGED <<focus, line, named, bypass, house, run, begun>>

Edit(t, i, same) ==
  /\ row[t][i] # NULL /\ row[t][i].home \in Peopled
  /\ same => i \in Mapped(t)
  /\ row' = [row EXCEPT ![t][i].same = same]
  /\ valid' = FALSE
  /\ UNCHANGED <<focus, line, named, bypass, house, run, begun>>

\* Only shots are deleted one by one.
DeleteShot(i) ==
  /\ row["Brew_Log"][i] # NULL /\ row["Brew_Log"][i].home \in Peopled
  /\ row' = [row EXCEPT !["Brew_Log"][i] = NULL]
  /\ valid' = FALSE
  /\ UNCHANGED <<focus, line, named, bypass, house, run, begun>>

Next ==
  \/ \E E \in SUBSET focus : Begin(E \cup (Tables \ focus))
  \/ FindHousehold \/ LookUp \/ Summarise \/ Stop \/ Validate
  \/ \E t \in Tables : Load(t)
  \/ \E h \in Households :
       SeedHousehold(h) \/ DeleteHousehold(h)
         \/ \E name \in {"default", "other"} : NameHousehold(h, name)
  \/ \E t \in focus, i \in Ids, same \in BOOLEAN :
       Edit(t, i, same) \/ \E h \in Households : Create(t, i, h, same)
  \/ \E i \in Ids : DeleteShot(i)

Spec == Init /\ [][Next]_vars

-----------------------------------------------------------------------------
(* Properties.                                                             *)

\* The type invariant.
TypeOK ==
  /\ focus \in Focuses
  /\ line \in [Tables -> [Ids -> {"none", "good", "bad", "twice"}]]
  /\ named \in [Tables -> [Ids -> Ids \cup {NULL}]]
  /\ bypass \in BOOLEAN
  /\ house \in [Households -> House]
  /\ row \in [Tables -> [Ids -> Row \cup {NULL}]]
  /\ run \in Run
  /\ begun \in 0..MaxRuns
  /\ valid \in BOOLEAN

\* However often the script is stopped and run again, and whatever households
\* of the application are called "default" meanwhile, it seeds at most one; and
\* that one holds nothing but lines of the sheet, as the sheet has them.
SeedsOnce ==
  /\ \A g, h \in Households : house[g] = "seeded" /\ house[h] = "seeded" => g = h
  /\ \A t \in Tables, i \in Ids :
       row[t][i] # NULL /\ house[row[t][i].home] = "seeded" =>
         line[t][i] = "good" /\ row[t][i].same

\* Under row-level security a reference that a run resolves points to a row of
\* the same household, although an id may be that of a row of another one, and
\* the table referred to may have failed or not be selected.
ReferencesStayInside ==
  ~bypass => \A t \in Tables, i \in Ids :
    row[t][i] # NULL /\ row[t][i].ref # NULL =>
      /\ row[Referred(t)][row[t][i].ref] # NULL
      /\ row[Referred(t)][row[t][i].ref].home = row[t][i].home

\* Whether nobody takes away or moves the rows of t in household h.
Stays(t, h) == house[h] = "seeded" \/ (house[h] # "deleted" /\ t # "Brew_Log")

\* MIGRATION COMPLETE, of a run of all entities, means that the mappers took every
\* line of every tab.  If the run went to the household without members, every
\* line is in it as the sheet has it, and refers to the row of the line it names;
\* if it went to one of the application, that is not deleted meanwhile, the same
\* holds but for shots, which may be deleted, and for what its members edit.
CompleteMeansMigrated ==
  [][run.step # "idle" /\ run'.verdict = "complete" /\ run.entities = Tables =>
       \A t \in Tables, i \in Ids : line[t][i] # "none" =>
         /\ line[t][i] = "good"
         /\ Stays(t, run.home) =>
              /\ In(t, i, run.home)
              /\ house[run.home] = "seeded" => row[t][i].same
              /\ named[t][i] # NULL /\ line[Referred(t)][named[t][i]] # "none"
                   => row[t][i].ref = named[t][i]]_vars

\* VALIDATION PASSED means that the tables hold what the sheet says, whichever
\* household the rows are in, and no more; and so they do, until the application
\* changes a row, through any further runs, of some entities, stopped anywhere,
\* into whichever household.  To a role under row-level security it is said of an
\* empty sheet only.
ValidMeansFaithful ==
  valid => \A t \in Tables, i \in Ids :
    /\ line[t][i] \in {"none", "good"}
    /\ bypass \/ line[t][i] = "none"
    /\ bypass /\ line[t][i] = "none" => row[t][i] = NULL
    /\ line[t][i] = "good" =>
         /\ row[t][i] # NULL /\ row[t][i].same
         /\ row[t][i].ref = IF named[t][i] # NULL /\ line[Referred(t)][named[t][i]] = "good"
                            THEN named[t][i] ELSE NULL
=============================================================================
