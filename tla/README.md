# A TLA+ development for espresso-logs

The application is a FastAPI service over PostgreSQL with a React client: users
sign in, share households, and keep brew logs, inventory and hardware in them.
What is hard in it is not computation. It is that every request is a chain of
awaited SQL statements at READ COMMITTED, that the handlers check first and write
later, and that several tabs, retries and users do this at the same time, over
instances that may vanish. This directory models those parts, checks them with
TLC on small instances and proves the main results with TLAPS for all instances.

## Inventory

State is in PostgreSQL unless another place is named.

| Component | State | Operations | What is hard | What makes it correct |
| --- | --- | --- | --- | --- |
| Households, members, invitations (`routers/api_households.py`, `repos/sql/household.py`) | `households`, `household_members`, `pending_invitations` | create, rename, delete; invite, accept, decline, revoke, resend; remove, change role | check-then-write without locks; a row deleted under a request | always an admin; at most 10 members; a link admits once per issue; deletion leaves nothing |
| Active household (`deps.py`, `repos/sql/user.py`) | `users.active_household_id` | resolve with fallback, list, switch, repair | stale reads committed later, a repair that selects first and updates later | it is a household of the user |
| Refresh-token sessions (`routers/api_auth.py`, `repos/sql/refresh_tokens.py`) | `refresh_tokens` | login, rotate, detect replay, revoke all, logout | row locks, lost answers, retries, deadlocks | one live token a session; ended sessions never revive |
| Accounts: registration, password login, lockout, reset (`routers/api_auth.py`, `repos/sql/user.py`) | `users` | register, login, reset | racing attempts, a lapsed lock, usernames that differ in case | failures lock the account; racing guesses are bounded |
| Google sign-in (`auth.py`) | `oauth_states`, `users` | start, callback | one state in two callbacks, a deletion rolled back | a state signs in once and is gone |
| Setup guard (`setup_guard.py`, `main.py`) | a flag per process | check at start, clear | restarts around the first registration | closed until an account is committed |
| Brew log (`routers/api_brew_log.py`, `repos/sql/brew_log.py`, `services/ids.py`) | `brew_log` | create with an idempotency key, correct, generate feedback, delete, read | retries, id allocation, a cancelled feedback call | one shot per key; truthful answers |
| Hardware, catalog, inventory, maintenance (their routers and repositories) | four tables | create, edit, upload, read | select-then-write, a second write after a commit, ids from an archive | references stay in the household |
| Tenant context (`deps.py`, Alembic 0007 and 0014) | a transaction-local setting | set at admission and after a commit | lost at every commit and rollback | nobody sees or changes another household's rows |
| Guest links (`routers/api_guest.py`, `repos/sql/household.py`) | `guest_tokens` | generate, revoke, resolve, view | an UPDATE that does not see a racing insertion | one usable link per household |
| AI feedback (`services/inference.py`) | a column of `brew_log` | read, ask, store | timeout between read and write, a shot deleted meanwhile | no false success |
| Sheet migration (`scripts/`) | the tenant tables, a household looked up by its name | migrate, validate | partial, stopped and repeated runs on a database in use, row-level security | what the scripts report is true |
| Access tokens, import, images, backfill, sheet cache, link tokens, end-to-end router, browser client | see `PROJECT.json` | | external services, pure I/O, or run once | |

The components meet in five places. `current_household_membership` resolves the
active household before most other handlers run, and may write it. Accepting,
removing and deleting write memberships and active households in one
transaction. Sign-in, registration and the OAuth callback start sessions. Every
handler of household data runs in the household its membership names, and the
deletion of a household cascades to all of them. The
client's `refreshAccessToken` (`frontend/src/api/client.ts`) keeps one refresh in
flight per tab, but not across tabs.

## Modules

| Module | Role |
| --- | --- |
| `Households` | households, memberships, invitations and active households, with overlapping requests |
| `MCHouseholds` | TLC instances, symmetry |
| `HouseholdsProofs` | type correctness |
| `Membership` | abstract: households, members, and links each usable once per issue |
| `HouseholdsSafety` | what holds under any interleaving, and the refinement of `Membership` |
| `HouseholdsOverlaps` | what holds as long as certain requests do not overlap |
| `Sessions` | abstract: a session is opened, is live, is over |
| `RefreshTokens` | token rows, row locks, refresh and logout; implements `Sessions` |
| `MCRefreshTokens` | TLC instances, symmetry |
| `RefreshTokensProofs` | the inductive invariant, safety, the refinement, and what ends a session |
| `Tenancy` | rows under row-level security, the household of a transaction, the life of a request |
| `BrewLog`, `Equipment`, `GuestLinks` | the operations on household data, each over `Tenancy` |
| `Kitchen` | their composition, the deletion of a household, the properties |
| `KeyedShots` | abstract: a key of a household names one shot |
| `Shelves` | abstract: each household has tables of its own |
| `MCKitchen` | TLC instances, symmetry |
| `KitchenProofs` | type correctness, and what each request knows at each step |
| `KitchenSafety` | the inductive invariant, safety, and the refinement |
| `Accounts`, `MCAccounts`, `AccountsProofs` | accounts, lockout, setup guard, Google sign-in |
| `Migration`, `MCMigration`, `MigrationProofs` | the migration and validation scripts |

### Households

`state`, `role`, `active` and `invite` are the four tables. `admitted` is a
history variable: how many memberships came through an invitation. `req[r]` is
the record of what request `r` has read, and the step it is at.

| Handler | Actions |
| --- | --- |
| `_resolve_membership_for_user`, `require_admin` | `ResolveActive`, `ResolveStale`, `ClearStale`, `ResolveUnset`, `SetFallback`, `Refuse` |
| `list_my_households`, `get_me` | `ListHouseholds`, then `WriteSwitch` or `ClearListed` |
| `switch_household` | `CheckSwitch`, `WriteSwitch` |
| `create_household` | `CreateHousehold` |
| `accept_invite` | `CheckAccept`, `WriteAccept` |
| `create_invite` | `CheckInvite`, `WriteInvite` |
| `revoke_invitation`, `resend_invitation` | `CheckRevoke`, `WriteRevoke`, `CheckResend`, `WriteResend` |
| `remove_member` | `CheckRemove`, `DeleteMember`, `RepairUser`, `RollBack` |
| `update_member_role` | `CheckSetRole`, `WriteSetRole` |
| `delete_household` | `CheckDelete`, `DeleteHousehold`, `RepairUser`, `RollBack` |
| the clock | `Age` (24 hours), `Expire` (72 hours) |

A handler is cut where other commits can matter: before its reads, between its
reads and its writes, and after each commit it makes. The reads of one check are
one action, and so are the writes of a transaction that reads nothing more after
its first write. Removal and deletion do read more: after their DELETE,
`repair_active_households_for_users` goes through the affected users and for each
SELECTs the fallback, then sends the UPDATE of the user's row, and there is one
commit at the end. So `DeleteMember` and `DeleteHousehold` select for the first
user, `RepairUser` updates the row of a user with what was selected before,
whatever has been committed since, and selects for the next one or commits
(`CommitRepair`). Until then `req[r]` holds what the request has written (`gone`,
`written`, and the `fallback` selected last), nobody else sees it, and whoever
needs one of its rows waits (`HouseLocked`, `MemberLocked`, `UserLocked`,
`DeletionLocked`). Requests that wait for each other in a circle are let go by
`RollBack`, which stands for PostgreSQL's deadlock detection and for a lost
connection. Foreign keys and the uniqueness of memberships are
conditions of the writes. A refusal changes nothing, so it is a step only where
a request has to give up what it read (`Refuse`). Names are abstracted: "the
first household by name" is any household, as a rename can come at any time.

`Membership` forgets requests, roles, active households and the reasons of a link
to be unusable. `MemberSets`, `UsableLinks` and `Homes` map the tables to it: a
creation is `Found`, a stored or resent invitation `Issue`, the two statements of an
accept together `Admit`, and a write that finds its row gone a stutter.

`OneLowering`, `NoPointerWhileRemoved`, `NoAcceptWhileUpdated` and
`AcceptsAtMost(k)` name the overlaps that break the properties of the handlers, one
each. `NoPointerWhileRemoved` is about a household that becomes a user's active one
while the user is being removed from it: by the user's own switch or fallback, or
because the repair of another removal, or of a deletion, has selected it.
`SerializedSpec` lets every step happen but those that begin such an overlap:
what the system would be if a lock on the household or a condition in the UPDATE
closed the four gaps, and nothing else were serialized.

### RefreshTokens

`token` holds the committed rows, `holder` the row locks of uncommitted updates,
`req` the step of each request. Any request may present any token ever issued.

| Code | Actions |
| --- | --- |
| `register`, `login`, the OAuth callback | `Login` |
| `refresh_token`: the UPDATE of `rotate`, insertion and commit | `Present`, `Rotate`, `CommitRotation` |
| `refresh_token`: replay | `CheckReplay`, `LockNext` (row by row), `CommitRevocation`, `Answer` |
| `logout` | `CheckLogout`, `WriteLogout` |
| connection or instance lost | `Abort` |
| PostgreSQL's deadlock detection | `BreakDeadlock` |
| the clock | `GraceEnds` (5 seconds), `Expire` (30 days) |

The statement `revoke_all_for_user` sends is several steps, because it waits for
the rows others have locked and rechecks them afterwards, while rows inserted
after its snapshot do not exist for it. `Sessions` forgets tokens: a session is
named by the token it began with, `Owner` is the user of that token, and `Phase`
is "live" while one of the session's tokens is.

### Kitchen: Tenancy, BrewLog, Equipment, GuestLinks

`row[t][i]` is the row of table `t` with `sheets_id` `i`, in whichever household:
ids are unique over all of them. A request carries the household it was admitted
to (`home`) and the household of its transaction (`ctx`), which a commit or a
rollback takes away and only `set_household_context` gives back. `MayRead` is the
policy; every read of a handler goes through it, and `Allowed` is what an INSERT
has to pass: the policy's check, the foreign key, and the two unique constraints.

| Handler | Actions |
| --- | --- |
| `api_brew_log_create` | `CreateShot`, `NumberShot`, `InsertShot`, `RetryShot`, then the feedback |
| `get_ai_feedback` under `wait_for`, also of `api_brew_log_feedback_generate` | `GenerateFeedback`, `ReadForFeedback`, `StoreFeedback`, `GiveUpFeedback` |
| `api_brew_log_patch`, `api_brew_log_delete` | `PatchShot`; `CheckDelete`, `DeleteShot` |
| `api_hardware_create`, `api_catalog_create`, `api_catalog_add_bag` | `CreateHardware`, `CreateBean`, `AddBag`, then the upsert |
| `api_hardware_update`, `api_catalog_update`, `api_inventory_patch`, `api_catalog_upload_image` | `EditHardware`, `EditBean`, `PatchBag`, `UploadImage` and `RefetchBean`, then the upsert |
| `upsert` of the repositories | `SelectRow`, `WriteRow`; `SavePicture` is the second one of a new item with an image |
| `api_maintenance_create` | `AddEvent`, `AppendEvent`, `RefreshEvent` |
| `generate_guest_token`, `revoke_guest_token` | `GenerateLink`, `CommitLink`; `RevokeLink`, `CommitRevocation` |
| `resolve_guest_or_member`, `guest_household_view` | `OpenLink`, `ViewAsGuest` |
| lists, details, dashboard | one action each, which displays what the policy lets it see |
| `hard_delete`'s cascade | `DeleteHousehold` |
| connection or instance lost | `Abort` |

The upsert sets every column. SQLAlchemy sends those that differ from the row it
has read, so `Merged` takes body, `edited` and `ref` from the new row where it
differs: the second of two bags with one Bag_ID rewrites the Catalog_ID of the
first. Behaviours about bags begin with a full catalog (`Beans`), so that few
requests reach bags of different beans.

Insertion and commit are one step: nobody sees the row before the commit, and an
insertion that conflicts with it waits. Admission and the first read are one step,
as nothing in between depends on household data. A transaction on guest links is
its snapshot and its commit. Roles are left to `Households`: any request may be
admitted to any live household, admin or not.

Some behaviours of the code are worth knowing, and are in the model. After a
maintenance event is committed, `refresh` looks for it in a transaction without a
household, so the caller is answered 500 although the event is stored
(`repos/sql/maintenance.py:86`). The upsert that stores the image of a new
hardware item runs after the commit as well; its INSERT is rejected and logged as a
failed image (`routers/api_hardware.py:157`). `next_id` of hardware scans the
archived sheet, so two items of a category get one id: the second overwrites the
first, or fails if the first is another household's (`deps.py:624`). A racing
duplicate of a creation may be answered 500 instead of a replay, because the
rollback has expired the membership read at `api_brew_log.py:452`; `RetryShot`
allows both. `api_brew_log_feedback_generate` may answer 504 for feedback that is
stored, when the time ends between the commit and the answer
(`api_brew_log.py:344`).

`AnswersMatchCommits` is stated over `Written`, what the writer of a row determines
of it: of a request that has created or changed a row, the row stands as the
request wrote it, until its household goes or another request of the household
replaces or deletes it. `Replaced` names who may: a deletion, an edit, or an upsert
that had read the row. So an upsert may overwrite an item found under its id, which
the code does, and a creation that knows of no such item may not. Nothing is
committed for a refusal, a replay or a conflict, nor for an error, with the two
exceptions above: maintenance events and late feedback.

`Keyed` maps the brew log to `KeyedShots`: the shots stored under each key of each
household, and what each creation that was not the first has been told. `Separate`
maps all five tables to `Shelves`: a shelf is what the policy lets a household see.
There every step is one row of one household, put next to what it refers to, of
shots nothing but the corrections and the feedback changes and they alone are thrown
away, and what a household had is gone for good with it.

### Accounts

`account` is the table of users by username or Google subject, `state` the rows of
`oauth_states`, `guard` the flag of each instance, `spent` the codes Google has
accepted. `Spellings` are usernames equal up to case, which `get_by_username`
takes for one and the unique constraint for several.

| Code | Actions |
| --- | --- |
| `register` | `Register`, `InsertAccount`, `ClearGuard` |
| `login` | `Login`, `RecordLogin`; `LockLapses` is the clock |
| `admin_reset_password` | `ResetPassword`, `StorePassword` |
| `google_login`, `google_callback` | `StartGoogle`; `Callback`, `DeleteState`, `Exchange`, `FindUser`, `UpsertUser`; `StateExpires` is the clock |
| `lifespan`, `setup_guard_middleware` | `Restart`; `Behind` |

A callback deletes its state and then talks to Google in the same transaction, so
another callback's deletion waits (`Held`), finds no row afterwards, and goes on:
that one state signs nobody in twice is left to Google, which accepts a code once.
`StatesSpent` says what the table contributes.

### Migration

`line` is the spreadsheet, `named` the references in it, `house` the households,
`row` the tables, `run` the script. Of the content of a row the model keeps what
`row_checksum` can tell: whether the columns the mapper sets, without the household
and the reference, have the values of the row's line (`same`), whoever wrote them,
and the reference (`ref`). `bypass` says whether the scripts connect with a role
that bypasses row-level security; neither the code nor its documents fix that.

| Code | Actions |
| --- | --- |
| `ensure_default_household` | `FindHousehold`, `SeedHousehold` |
| the five tabs of `main`, each in a transaction of its own | `Load` |
| the lookups read back after Catalog and Hardware | `LookUp` |
| the summary | `Summarise` |
| script or connection lost | `Stop` |
| `validate_migration` | `Validate` |
| `create_household`, `rename`, `hard_delete` | `NameHousehold`, `DeleteHousehold` |
| creation and edits by the application, `api_brew_log_delete` | `Create`, `Edit`, `DeleteShot` |

The application uses the database between any two transactions of the script. It may
create a household called "default", rename one to or from that name, delete one
with its rows, create and edit rows in its own households, with ids and content that
happen to be those of a line, and delete shots. `ensure_default_household` selects
by name, without an order, and `households.name` is not unique, so a run takes any
household of that name (`Choices`), a user's too, and the next run may take another.
It inserts one only if there is none. A household the script has inserted has no
members, and every handler requires one, so the application does not reach its rows
(`Peopled`). The manual adoption of that household by a user is not modelled.

Two reports are checked. `CompleteMeansMigrated` is about a run of all entities that
ends with MIGRATION COMPLETE: the mappers took every line, and every line is in the
household of the run with the reference it names, as far as nobody takes it away
(`Stays`): in a household of the application shots may be deleted and rows edited,
and the household may be deleted, but nothing else takes a row away. In the seeded
household nothing does. `ValidMeansFaithful` is about VALIDATION PASSED: the tables
hold the sheet by value, whichever household the rows are in, since `row_checksum`
ignores that; it stays true, through further runs that may well change the household
of a row, until the application changes a row, when the model forgets the report. A
role without `bypass` sees no row, so for it validation passes on an empty sheet only.

## Runs

| Run | Instance | Result |
| --- | --- | --- |
| `households_serialized` | `SerializedSpec`, every operation, 3 users, 2 households, 1 invitation that may be resent once, 2 requests, limit 2, no clock | `TypeOK`, `HasAdmin`, `ActiveIsMembership` and `AcceptedIsFinal` hold |
| `households_concurrent` | every operation and the clock, 3 users, 1 household, 1 invitation that may be resent once, 2 requests, limit 2 | `AdmissionsBounded`, `NoDanglingReference`, `JoinedByInvitation` and `ImplementsMembership` hold |
| `households_last_admin` | 3 users, 1 household, 2 requests | `HasAdmin` is violated |
| `households_accepted` | 3 users, 1 household, 2 requests | `AcceptedIsFinal` is violated |
| `households_active` | 3 users, 3 households, 1 request | `ActiveKeptWhileAccessible` is violated |
| `households_member_limit` | 3 users, 1 household, 2 invitations, 2 requests, limit 2 | `WithinMemberLimit` is violated |
| `sessions` | 1 user, 3 tokens, 2 requests | `TypeOK`, `OneLiveToken`, `DetectedTokensRevoked`, `DeadlocksAreReplays`, `ImplementsSessions`, `LogoutEndsSession` and `EveryRequestEnds` hold |
| `sessions_replay` | 1 user, 3 tokens, 2 requests | `AllSessionsRevoked` is violated |
| `kitchen` | 2 households, 3 requests of which 2 overlap, 2 ids, 2 payloads, 1 key, 2 links, each family of entities, bags also with a catalog that is there | `TypeOK`, `ShowsOwnHousehold`, `NoOrphans`, `ReferencesInHousehold`, `AnswersMatchCommits`, `LinksReplaced`, `StaysInHousehold`, `ImplementsKeyedShots` and `ImplementsShelves` hold |
| `kitchen_numbers` | 2 households, 2 requests one after the other, no keys | `NumberedWithinHousehold` is violated |
| `accounts` | 2 spellings, 1 Google subject, 2 secrets, 2 instances, 4 requests of which 2 overlap, 1 state, 2 codes, limit 1 | `TypeOK`, `GuardedUntilSetup`, `GuessesBounded` and `StatesSpent` hold |
| `migration` | 2 households, 1 id, the tabs Catalog and Inventory, or Hardware and Maintenance, or Brew_Log, 3 runs | `TypeOK`, `SeedsOnce`, `ReferencesStayInside`, `ValidMeansFaithful` and `CompleteMeansMigrated` hold |

### What the violations say

* **A household without an admin.** `count_admins` and the DELETE or UPDATE are
  separate statements. Two admins who remove or demote each other each count two,
  and both writes go through. The functional specification says that the system
  enforces at least one admin (`docs/requirements/functional-spec-v2.md:1174`).
* **An accepted invitation that is revoked.** `revoke_invitation` and
  `resend_invitation` check the status and then update by id. An accept between
  the two is overwritten: the invitation becomes revoked, or a usable link again,
  while its member stays. The code's own message is "Accepted invitations cannot
  be revoked". `AdmissionsBounded` shows what still holds: one admission per issue.
* **An eleventh member.** `accept_invite` counts and then inserts, and no lock
  orders two accepts through different links: both find the last place free. The
  specification says that a household has at most 10 members
  (`docs/requirements/functional-spec-v2.md:564`). `OvershootBoundedCorrect` proves
  that each further request that overlaps costs one member more, and no worse;
  `MembersBelowCorrect` says it of the accepts of one household.
* **An active household that moves.** `repair_active_households_for_users` sets
  the fallback whatever the active household was. Somebody removed from one
  household finds the first by name selected instead of the one in use. The
  specification asks for the fallback only when the stored one is inaccessible.
* **A session that outlives "all sessions revoked".** The UPDATE of
  `revoke_all_for_user` has a snapshot. While it waits for the row of a token
  another request is rotating, that rotation commits; the old row is skipped
  because it is revoked by then, and the new one is invisible. The log line of
  `api_auth.py:271` claims more. `DetectedTokensRevoked` is what does hold.
* **A first shot that is turned down.** `make_shot_id` numbers a household's shots
  from the ids it can see, and row-level security shows it only its own, while the
  unique constraint on `sheets_id` is over all households. Whoever logs the first
  shot of a day after another household has fails, and so does each
  retry, as the number proposed stays the same. The specification says that the number is a
  household's daily sequence and not global
  (`docs/requirements/functional-spec-v2.md:254`). The run needs two requests, one
  after the other. Isolation is not at stake: `StaysInHousehold` holds.

### Bounds

Ids of households, invitations and tokens are used once, so a run stops when they
are used up; that is why the household configurations switch deadlock checking
off. In `RefreshTokens` time and failures always allow a step or a stuttering
client, and deadlock is checked. `IdsLeft` reserves an id for each rotation under
way, so that the bound itself never blocks a request that has started.

Two requests are enough for each race found in the code: every check-then-write
pair is disturbed by one other commit. A member limit of 2 makes the limit
reachable. With two links two accepts race for the last place
(`households_member_limit`). That the overshoot is bounded, and that there is none
unless accepts overlap, is proved for all instances and has no run of its own: with
one link the limit is never in danger, and two make every operation at once too much
for TLC. `households_serialized` has a second household,
as active households fall back to another one, and two requests, as the point of it
is that everything else may overlap. With one invitation nobody is removed from two
households at once by two others; that this overlap and the ones with switches are
all that can go wrong with active households is what the proof says, for any number
of each. `households_concurrent` needs one invitation only, since what it asks is
about one link; `MaxResends = 1` lets a resend fall before, between and after accepts.
`InviteRate` is small so that the rate refusal happens; `Age` takes the refusal
away again. Three tokens are a login and two rotations, or two logins and a
rotation: the shortest histories in which a session forks, revives or escapes a
revocation. Symmetry is over users, households, invitations and requests, in
safety runs only; tokens are numbers, taken in order (`NextId`), as nothing
depends on which id comes next. `sessions` has one user, as its liveness property
rules symmetry out; that a step ends sessions of one user only is proved for any
number of users.

In `Kitchen`, a behaviour is about one family of entities (`Focuses`): shots,
hardware with its events, beans with their bags, bags alone over a catalog that is
full from the start, or guest links. The families share no row, and a household's
deletion is in each. `MaxActive` limits how many
requests overlap; two are enough for each race found, and the third one makes the
history in which an id is used again, or a key retried, after its shot is gone.
Two ids let ids collide between and within households, and leave one free. Each
request is used once, so a behaviour ends; deadlock checking is off for that
reason in all three new configurations. `kitchen_numbers` is the shortest history.

In `Accounts`, `Limit = 1` makes the lock reachable with the requests there are;
two overlapping requests race on one check, and four are needed for two accounts,
a race and a login after it. One state and two codes let two callbacks share the
state with codes of their own or share the code. In `Migration` one id in two
tabs is enough for a reference to be right, missing, or of a foreign row, two
households for one of the application to stand in for the seeded one or beside it,
and three runs for a full one, a partial one and a repetition. A behaviour is about
one pair of tabs, where one names the other, or about shots, which alone are deleted;
tabs without lines are still passed by. The lines of a sheet do not change between
runs, and runs do not overlap: two at once would seed two households, as `_seed.py`
selects before it inserts.

### Fairness

Only `RefreshTokens` needs some: all properties of the other modules are safety. In `RefreshTokens`
each request has strong fairness on `Proceed(r)`, the steps its handler takes by
itself once it was called: the event loop runs a handler on while its process
lives, PostgreSQL queues the waiters for a row lock and detects deadlocks. A weak
condition would not do, as the lock a request waits for may be taken again and
again by others. Nothing obliges a client to send a request, a user to log in, a
connection to fail, or time to pass.

## Proofs

All proofs are checked for any number of users, households, invitations, tokens,
ids, links, instances and requests. Their only assumptions are
`HouseholdsAssumption` (positive limits, `NULL` is no id, finitely many users and
requests), `TokensAssumption` (tokens are natural numbers, `NULL` is no id),
`TenancyAssumption` and `LinksAssumption` (ids are positive numbers, `NULL` is none
of the values), `AccountsAssumption` (limits are numbers, usernames are no
Google subjects, `NULL` is none of the values) and `MigrationAssumption` (the tabs
with rows are among the five, `NULL` is none of the values), which TLC evaluates on
every instance.

* **Households, types.** `TypeCorrect`. The type of a request says which fields a
  step may rely on, which makes it inductive.
* **Households, any interleaving.** `AdmissionsBoundedCorrect`: the invariant adds
  that a pending invitation has used fewer admissions than it was issued
  (`LinkUnused`), which the guarded UPDATE needs and keeps.
  `NoDanglingReferenceCorrect`: each write checks the foreign key, and what a repair
  has selected or written but not committed stays live until it commits, because of
  the locks (`PendingInv`). `JoinedByInvitationCorrect`: an accept under way is for the
  household of its invitation (`AcceptsForItsHouse`). `OvershootBoundedCorrect`:
  members plus the accepts under way that found room stay below the limit plus
  the number of requests (`RoomReserved`), by cardinality lemmas.
* **Households, the refinement.** `MembershipImplemented`: every interleaving of the
  handlers implements `Membership`. A step maps to at most one abstract one because
  what a transaction has written takes effect in the step of its commit; `AcceptsForItsHouse` and the guarded
  UPDATE make an admission use up a link of the same household, and the foreign key
  makes a write about a deleted household do nothing.
* **Households, which overlap breaks what.** The properties that the violations
  above refute are proved under a hypothesis on the overlaps, `[]OneLowering` and
  so on, with everything else free to interleave. Each hypothesis is about
  requests at particular steps, so each theorem says which races can break its
  property. For active households these are a switch or a fallback of a user who is
  being removed, which TLC finds, and two more in which the repair of one removal or
  deletion has selected a household another removal takes the user from: of two
  removals of one user from two households, the later one leaves the household it
  has selected active, although the user has left it. `HasAdminUnlessLoweringsOverlap` needs `OtherAdmin`: while a
  request is about to take an admin away, another admin is there, whatever joins,
  leaves or is deleted. `ActiveIsMembershipUnlessRemovedMeanwhile` needs
  `StillMember` and `WrittenMember` (a household a request is about to make active,
  or has written as such, still has the user), `FallbackInv` (a fallback exists, and
  is not the membership being removed) and `PendingInv`.
  `AcceptedIsFinalUnlessUpdatedMeanwhile` needs `NotTaken`: what a revocation or a
  resend has read as not accepted is not accepted yet. `MembersBelowCorrect` has the
  number of overlapping accepts as a parameter, with `RoomReserved(k)` as its
  invariant; one gives `WithinMemberLimitUnlessAcceptsOverlap`.
  `SerializedGuarantees` puts the four together for `SerializedSpec`. Without any
  overlap (`OneAtATime`) all hypotheses hold, which gives
  `HasAdminSequentially` and its three companions.
* **RefreshTokens.** `Inv` has three parts besides types and `OneLiveToken`:
  `LockInv` (a row lock is held on a live row, by its rotation or by a revocation
  that reached it), `SessionInv` (the login of a token is an issued token of the
  same user) and `RevocationInv` (each row a revocation saw is still to come,
  locked by it, or revoked). `CommitInv` does what the three commits have in
  common. `OneLiveTokenCorrect` and `DetectedTokensRevokedCorrect` follow.
* **Refinement.** `Implementation`: a login is `Open`, a logout or a committed
  revocation is `End`, and everything else, the commit of a rotation included,
  leaves the abstract session as it is. `SessionInv` shows that a rotation starts no
  session, `OneLiveToken` that revoking a session's row ends it.
* **Deadlocks.** `DeadlocksAreReplaysCorrect`: by `LockInv` a rotation holds the one
  row it has waited for and waits no more, so every request of a cycle is a
  revocation, and two that wait for each other's rows are of one user
  (`RevocationInv`). What PostgreSQL fails is therefore never a valid refresh.
* **What ends a session.** `LiveStep` lists what a step does to the live tokens: a
  login adds one, a rotation replaces one, nothing else adds any. With it
  `SessionOver` is invariant: a session one of whose tokens was revoked without being
  rotated has no live token. `LogoutEndsSessionCorrect` follows with `OneLiveToken`,
  whether the logout finds its token live or revoked by another request. `SeenSessions` says that
  the live tokens of the sessions a revocation has matched are among the rows it has
  matched; it is inductive only while none of those rows is being rotated, and then
  `AllSessionsRevokedUnlessRotatedMeanwhile` follows: the race of `sessions_replay`
  is the only way for a session to survive.
* **Kitchen.** `KitchenProofs` shows `TypeOK` together with `AllLocal`, what each
  request knows at each of its steps from its own record alone: which table, id and
  row it works on, and that a transaction has the household of its request or none.
  `ShowsOwnHousehold` is part of it. `KitchenSafety` then avoids a case for each
  action and property. It proves once that every step of a request is `Ordinary`
  (it changes one row of its own household in a way the constraints allow, or none,
  and its record goes on accordingly) or a step on guest links, and shows each part
  of `IInv` for `Ordinary`, for link steps and for `DeleteHousehold`. `IInv` adds
  `PendingReferences` (a row still to be written refers to rows that are there),
  `OneShotPerKey`, and `LinksKnown` (the links of a snapshot exist, so a new link is
  none of them). The nine properties of `kitchen` follow, the refinements included. For
  `AnswersAreTrue`, `ClaimsInv` says of every row a request has written that it is
  still as written, or that a later request has replaced it and is backed in turn.
  For `KeysImplemented` an insertion is `Store`, a replay or a conflict `Tell`, a
  deletion `Delete`. For `ShelvesImplemented` a write is `Keep`, whatever request it
  is of: `Refs` puts what it refers to on the same shelf, and `OneShelf` shows that
  no other shelf changes, since the row before and the row after are of one
  household.
* **Accounts.** `Facts` says what a request knows at each step and what it relies on
  (`Lasting`): accounts are not deleted and a state that is gone stays gone.
  `TypeCorrect`, `SetupComesFirst` and `StatesStaySpent` follow. For
  `GuessesBelowCorrect`, `AllWithin(k)` counts the requests past the check of each
  lock (`Past`): while an account is locked its failures and those requests together
  stay below the limit plus `k`, as none joins them and each counts one failure.
  With the requests in flight for `k` that is `GuessesStayBounded`; with one, logins
  that do not overlap never exceed the limit.
* **Accounts, which overlap breaks what.** `AccountChange` lists what may change an
  account, `ReadsAreFresh` says that whoever is about to insert or to sign in has
  just read what it relies on. From them follow `OneSpellingUnlessRivals`
  (`SpellingFree`: an insertion under way still has no other spelling beside it) and
  `PasswordCurrentUnlessReset`, under `[]NoRivalSpellings` and
  `[]NoResetWhileVerified`: the two races the code allows, both of them hazards no
  document speaks about, are the only ones of their kind.
* **Migration.** What a report says rests on what the run has read on the way.
  `Progress`: the lines of the tabs loaded so far without an error are in place, as
  far as they `Stay`. `LookupRight`: the lookup given to the next tab holds, of rows
  that are still there, only ones of the run's household under row-level security
  (`Sound`), every line of the tab before unless the household is deleted
  (`Complete`), and after a passed validation those lines and no others (`Exact`).
  Loading a tab needs the second and re-establishes the first, reading a lookup back
  does the opposite. `AppStep` says once what any step of the application does to a
  row: it is edited, created or deleted, in a household with members. The five
  theorems follow with `RunFacts`, `NamesFacts` and `SeedFacts` (a run that is about
  to seed has found no seeded household, and a household that does not exist has no
  rows); `ValidMeansFaithful` and `SeedsOnce` are parts of the inductive invariant.

Model-checked but not proved: `EveryRequestEnds`, since liveness under fairness is
out of the prover's reach. The violated properties are of course only refuted.

## Not modelled

Without Postgres (`USE_POSTGRES` off) `get_db` yields nothing and each handler of
household data refuses its caller before it reads; the sheet repositories and their
cache are unreachable but for `next_id`. The in-process `IdempotencyStore` is
written at the end of a creation, and read only in that mode. `is_guest_accessible`
is written and never read. Guest tokens have an `expires_at` no code sets. The
prompt of the feedback and the clients of the language models, image storage and
image search are external services whose result is an input. `api_catalog_infer`
changes no state. Access tokens are stateless, link tokens are hashes. The importer
parses files and inserts rows nothing else depends on. The startup backfill is one
best-effort loop, and does nothing under row-level security, where it sees no row;
`brew_log_reconcile.py` reports. Schema changes run once before the service. The
end-to-end router is mounted in tests only. `soft_delete` and
`seed_default_household` of the household repository are called by no handler. The
legacy invitation status "declined" is written by no code.

Hazards without a property, and why, are listed in `PROJECT.json`. The main ones: an
invitation resent after another was made for the same address leaves two pending
ones, and the duplicate check then fails instead of refusing. A logout that waits
for a rotation of its own token revokes the old row and leaves the successor: the
model has this behaviour, and `LogoutEndsSession` excepts it by name. A lock of an
account that has lapsed is never set again. "Bob" and "bob" can be registered at the
same time, and neither can log in afterwards. A login may go through with a password
that was reset after it was checked. An edit of a bean
may write back the image it has read. Another run of the migration overwrites what
was edited in the application, and brings deleted shots back. Feedback generated for
a shot may be stored with another one if the shot is deleted and its id is given out
again within the 35 seconds.

## Plan

1. The importer, with its sessions and bulk insertions, as another module over
   `Tenancy`; bulk insertion shares the unique constraints with single ones. Its
   steps would have to be `Ordinary`, and the theorems of `KitchenSafety` would hold
   of it.
2. Overlapping runs of the migration, and the startup backfill beside requests.
3. The duplicate-invitation check and its answers, added to `Households`.
4. The theorems of `Accounts` about what overlaps change, as a run of their own.
