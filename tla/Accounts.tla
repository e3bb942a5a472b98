------------------------------ MODULE Accounts ------------------------------
(***************************************************************************)
(* Accounts: registration behind the setup guard, password login with its  *)
(* lockout, the reset of a password by an admin, and sign-in with Google.  *)
(* The refresh token each sign-in also creates is in module RefreshTokens. *)
(*                                                                         *)
(* Spellings are usernames that differ in upper and lower case only: the   *)
(* lookup ignores case, the unique constraint does not.  Requests run on   *)
(* instances of the application, each with a setup guard of its own.       *)
(***************************************************************************)
EXTENDS Naturals, FiniteSets

\* Limit: failed logins that lock an account.  Codes: authorization codes of
\* Google, which accepts each once.  MaxActive is a bound of the model.
CONSTANTS Spellings, Subs, Secrets, Instances, Requests, States, Codes, NULL,
          Limit, MaxActive

VARIABLES
  account,  \* users by username or Google subject, NULL if there is none
  state,    \* oauth_states by state
  spent,    \* the codes Google has exchanged
  guard,    \* SETUP_REQUIRED of every instance
  req       \* what every request has read, and the step it is at

vars == <<account, state, spent, guard, req>>

Users == Spellings \cup Subs

\* lock: locked_until is NULL, in the future or in the past.
User == [secret : Secrets \cup {NULL}, attempts : Nat, lock : {"none", "on", "lapsed"}]

Answers == {"ok", "taken", "refused", "locked", "guarded", "failed", "lost"}

ASSUME AccountsAssumption ==
  /\ Limit \in Nat \ {0} /\ MaxActive \in Nat
  /\ IsFiniteSet(Requests)
  /\ Spellings \cap Subs = {}
  /\ NULL \notin Spellings \cup Subs \cup Secrets \cup Instances \cup States \cup Codes
                  \cup User \cup Answers

\* holds: the request has deleted its state in a transaction still open.
Request == [step : {"new", "inserting", "clearing", "verified", "resetting",
                    "deleting", "exchanging", "finding", "upserting", "answered"},
            at : Instances \cup {NULL}, user : Users \cup {NULL},
            secret : Secrets \cup {NULL}, right : BOOLEAN, known : BOOLEAN,
            state : States \cup {NULL}, code : Codes \cup {NULL}, holds : BOOLEAN,
            answer : Answers \cup {NULL}]

Waiting == [step |-> "new", at |-> NULL, user |-> NULL, secret |-> NULL, right |-> FALSE,
            known |-> FALSE, state |-> NULL, code |-> NULL, holds |-> FALSE, answer |-> NULL]

Running == {r \in Requests : req[r].step \notin {"new", "answered"}}

Init ==
  /\ account = [u \in Users |-> NULL]
  /\ state = [t \in States |-> "none"]
  /\ spent = {}
  /\ guard = [n \in Instances |-> TRUE]   \* a fresh deployment has started
  /\ req = [r \in Requests |-> Waiting]

-----------------------------------------------------------------------------
(* Requests.                                                               *)

MayBegin(r) == req[r].step = "new" /\ Cardinality(Running) < MaxActive

Become(r, q) == req' = [req EXCEPT ![r] = q]

\* Of a request that has ended only its answer and its state are remembered.
Answered(q, a) == [Waiting EXCEPT !.step = "answered", !.answer = a, !.state = q.state,
                                  !.code = q.code]

Answer(r, a) == Become(r, Answered(req[r], a))

\* setup_guard_middleware lets registrations through and little else.
Behind(r, n, q) ==
  /\ MayBegin(r)
  /\ Become(r, IF guard[n] THEN Answered(q, "guarded") ELSE q)

\* get_by_username compares lower(username).
Found(u) == {v \in Spellings : account[v] # NULL}

-----------------------------------------------------------------------------
(* Registration.                                                           *)

\* scalar_one_or_none raises when two spellings are there.
Register(r, n, u, s) ==
  /\ MayBegin(r)
  /\ LET q == [Waiting EXCEPT !.step = "inserting", !.at = n, !.user = u, !.secret = s]
     IN  Become(r, IF Found(u) = {} THEN q
                   ELSE Answered(q, IF Cardinality(Found(u)) = 1 THEN "taken" ELSE "failed"))
  /\ UNCHANGED <<account, state, spent, guard>>

\* INSERT and commit: another request may have taken the very spelling.
InsertAccount(r) ==
  LET q == req[r] IN
  /\ q.step = "inserting"
  /\ \/ /\ account[q.user] = NULL
        /\ account' = [account EXCEPT ![q.user] =
                         [secret |-> q.secret, attempts |-> 0, lock |-> "none"]]
        /\ req' = [req EXCEPT ![r].step = "clearing"]
     \/ /\ account[q.user] # NULL
        /\ Answer(r, "failed")
        /\ UNCHANGED account
  /\ UNCHANGED <<state, spent, guard>>

ClearGuard(r) ==
  /\ req[r].step = "clearing"
  /\ guard' = [guard EXCEPT ![req[r].at] = FALSE]
  /\ Answer(r, "ok")
  /\ UNCHANGED <<account, state, spent>>

NoUsersFaulty == FALSE

NoUsers == \A u \in Users : account[u] = NULL

\* An instance is lost with its requests, whose transactions are rolled back,
\* and starts again: check_and_set_setup_required counts the users.
Restart(n) ==
  /\ guard' = [guard EXCEPT ![n] = NoUsers]
  /\ req' = [r \in Requests |-> IF r \in Running /\ req[r].at = n
                                THEN Answered(req[r], "lost") ELSE req[r]]
  /\ UNCHANGED <<account, state, spent>>

-----------------------------------------------------------------------------
(* Password login and lockout.                                             *)

\* The lock is checked and the password verified on the row just read.
Login(r, n, u, s) ==
  LET q == [Waiting EXCEPT !.step = "verified", !.at = n, !.secret = s] IN
  /\ IF Found(u) = {} THEN Behind(r, n, Answered(q, "refused"))
     ELSE IF Cardinality(Found(u)) > 1 THEN Behind(r, n, Answered(q, "failed"))
     ELSE \E v \in Found(u) :
            Behind(r, n, IF account[v].lock = "on" THEN Answered(q, "locked")
                         ELSE [q EXCEPT !.user = v, !.right = (account[v].secret = s)])
  /\ UNCHANGED <<account, state, spent, guard>>

ReachesLimitFaulty(n) == n > Limit

ReachesLimit(n) == n >= Limit

\* increment_login_attempts: the UPDATEs read the row as it is now, and a lock
\* that was ever set, even one that has lapsed, is not set again.
AfterWrong(a) ==
  [a EXCEPT !.attempts = @ + 1,
            !.lock = IF ReachesLimit(a.attempts + 1) /\ @ = "none" THEN "on" ELSE @]

AfterRightFaulty(a) == [a EXCEPT !.attempts = @ - 1, !.lock = "none"]

\* reset_login_state.
AfterRight(a) == [a EXCEPT !.attempts = 0, !.lock = "none"]

RecordLogin(r) ==
  LET q == req[r] IN
  /\ q.step = "verified"
  /\ account' = [account EXCEPT ![q.user] = IF q.right THEN AfterRight(@) ELSE AfterWrong(@)]
  /\ Answer(r, IF q.right THEN "ok" ELSE "refused")
  /\ UNCHANGED <<state, spent, guard>>

\* Fifteen minutes later: locked_until stays, in the past.
LockLapses(u) ==
  /\ account[u] # NULL /\ account[u].lock = "on"
  /\ account' = [account EXCEPT ![u].lock = "lapsed"]
  /\ UNCHANGED <<state, spent, guard, req>>

\* For an admin who shares a household with the target.
ResetPassword(r, n, u, s) ==
  LET q == [Waiting EXCEPT !.step = "resetting", !.at = n, !.secret = s] IN
  /\ IF Found(u) = {} THEN Behind(r, n, Answered(q, "refused"))
     ELSE IF Cardinality(Found(u)) > 1 THEN Behind(r, n, Answered(q, "failed"))
     ELSE \E v \in Found(u), shared \in BOOLEAN :
            Behind(r, n, IF shared THEN [q EXCEPT !.user = v] ELSE Answered(q, "refused"))
  /\ UNCHANGED <<account, state, spent, guard>>

\* The lock and the number of failures stay as they are.
StorePassword(r) ==
  /\ req[r].step = "resetting"
  /\ account' = [account EXCEPT ![req[r].user].secret = req[r].secret]
  /\ Answer(r, "ok")
  /\ UNCHANGED <<state, spent, guard>>

-----------------------------------------------------------------------------
(* Sign-in with Google.                                                    *)

StartGoogle(r, n, t) ==
  /\ state[t] = "none"
  /\ Behind(r, n, Answered([Waiting EXCEPT !.at = n, !.state = t], "ok"))
  /\ state' = [state EXCEPT ![t] = IF guard[n] THEN @ ELSE "fresh"]
  /\ UNCHANGED <<account, spent, guard>>

StateExpires(t) ==
  /\ state[t] = "fresh"
  /\ state' = [state EXCEPT ![t] = "expired"]
  /\ UNCHANGED <<account, spent, guard, req>>

\* google_callback: the state is read, and whether it has expired.
Callback(r, n, t, c) ==
  LET q == [Waiting EXCEPT !.step = "deleting", !.at = n, !.state = t, !.code = c,
                           !.right = (state[t] = "fresh")]
  IN
  /\ Behind(r, n, IF state[t] \in {"fresh", "expired"} THEN q ELSE Answered(q, "refused"))
  /\ UNCHANGED <<account, state, spent, guard>>

Held(t) == \E r \in Requests : req[r].holds /\ req[r].state = t

\* DELETE waits for another transaction that has deleted the state.  An expired
\* state is deleted for good; nothing minds that no row is left to delete.
DeleteState(r) ==
  LET q == req[r] IN
  /\ q.step = "deleting" /\ ~Held(q.state)
  /\ IF q.right
     THEN /\ req' = [req EXCEPT ![r].step = "exchanging",
                                ![r].holds = (state[q.state] # "gone")]
          /\ UNCHANGED state
     ELSE /\ Answer(r, "refused")
          /\ state' = [state EXCEPT ![q.state] = "gone"]
  /\ UNCHANGED <<account, spent, guard>>

\* fetch_token and the profile; any failure rolls the deletion back.
Exchange(r) ==
  LET q == req[r] IN
  /\ q.step = "exchanging"
  /\ \/ /\ q.code \notin spent
        /\ spent' = spent \cup {q.code}
        /\ \E g \in Subs : req' = [req EXCEPT ![r].step = "finding", ![r].user = g]
     \/ /\ spent' \in {spent, spent \cup {q.code}}
        /\ Answer(r, "failed")
  /\ UNCHANGED <<account, state, guard>>

\* get_by_google_sub.
FindUser(r) ==
  /\ req[r].step = "finding"
  /\ req' = [req EXCEPT ![r].step = "upserting",
                        ![r].known = (account[req[r].user] # NULL)]
  /\ UNCHANGED <<account, state, spent, guard>>

SpentFaulty(q) == state

\* The deletion is committed with the rest.
Spent(q) == IF q.holds THEN [state EXCEPT ![q.state] = "gone"] ELSE state

UpsertUser(r) ==
  LET q == req[r] IN
  /\ q.step = "upserting"
  /\ IF q.known = (account[q.user] # NULL)
     THEN /\ account' = [account EXCEPT ![q.user] =
                IF q.known THEN @ ELSE [secret |-> NULL, attempts |-> 0, lock |-> "none"]]
          /\ state' = Spent(q)
          /\ Answer(r, "ok")
     ELSE Answer(r, "failed") /\ UNCHANGED <<account, state>>
  /\ UNCHANGED <<spent, guard>>

-----------------------------------------------------------------------------
Step(r) ==
  \/ InsertAccount(r) \/ ClearGuard(r) \/ RecordLogin(r) \/ StorePassword(r)
  \/ DeleteState(r) \/ Exchange(r) \/ FindUser(r) \/ UpsertUser(r)

Next ==
  \/ \E r \in Requests :
       \/ Step(r)
       \/ \E n \in Instances :
            \/ \E u \in Spellings, s \in Secrets :
                 Register(r, n, u, s) \/ Login(r, n, u, s) \/ ResetPassword(r, n, u, s)
            \/ \E t \in States : StartGoogle(r, n, t) \/ \E c \in Codes : Callback(r, n, t, c)
  \/ \E n \in Instances : Restart(n)
  \/ \E u \in Users : LockLapses(u)
  \/ \E t \in States : StateExpires(t)

Spec == Init /\ [][Next]_vars

-----------------------------------------------------------------------------
(* Properties.                                                             *)

\* The type invariant.
TypeOK ==
  /\ account \in [Users -> User \cup {NULL}]
  /\ state \in [States -> {"none", "fresh", "expired", "gone"}]
  /\ spent \subseteq Codes
  /\ guard \in [Instances -> BOOLEAN]
  /\ req \in [Requests -> Request]

\* No instance, restarted at whatever moment, serves anything but registrations
\* before a first account has been committed.
GuardedUntilSetup ==
  \A n \in Instances : ~guard[n] => \E u \in Users : account[u] # NULL

\* Until the lock of an account first lapses, wrong passwords are accepted for
\* checking only Limit - 1 times and by requests that had passed the check of
\* the lock together; a success that raced them starts the count again.
GuessesBounded ==
  \A u \in Users : account[u] # NULL /\ account[u].lock # "lapsed" =>
                     account[u].attempts <= Limit - 1 + MaxActive

\* A state that has signed somebody in is gone: the rollback of another callback
\* with the same state does not bring it back.
StatesSpent ==
  \A r \in Requests : req[r].code # NULL /\ req[r].answer = "ok" => state[req[r].state] = "gone"

-----------------------------------------------------------------------------
(* What overlaps change: each statement here is true as long as requests   *)
(* of one kind do not overlap, and false otherwise.                        *)

\* Requests that have passed the check of the lock of u.
Past(u) == {r \in Requests : req[r].step = "verified" /\ req[r].user = u}

PastAtMost(k) == \A u \in Users : Cardinality(Past(u)) <= k

\* Before its lock lapses an account has k failures beyond Limit - 1 at most.
GuessesBelow(k) ==
  \A u \in Users : account[u] # NULL /\ account[u].lock # "lapsed" =>
                     account[u].attempts < Limit + k

\* get_by_username finds one user at most: no two accounts have names that
\* differ in upper and lower case only.
OneSpelling ==
  \A u, v \in Spellings : account[u] # NULL /\ account[v] # NULL => u = v

\* Registrations of the one name in two spellings are not under way together.
NoRivalSpellings ==
  \A r, s \in Requests :
    req[r].step = "inserting" /\ req[s].step = "inserting" => req[r].user = req[s].user

\* Who is about to be signed in has given the password the account has now,
\* and who is about to be refused has not.
PasswordIsCurrent ==
  \A r \in Requests :
    req[r].step = "verified" =>
      req[r].right = (account[req[r].user].secret = req[r].secret)

\* No password is reset while a login to the account is under way.
NoResetWhileVerified ==
  \A r, s \in Requests :
    req[r].step = "verified" /\ req[s].step = "resetting" => req[r].user # req[s].user
=============================================================================
