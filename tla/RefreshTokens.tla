---------------------------- MODULE RefreshTokens ----------------------------
(***************************************************************************)
(* Refresh tokens: login, rotation, replay detection and logout, from      *)
(* app/routers/api_auth.py over app/repos/sql/refresh_tokens.py.           *)
(*                                                                         *)
(* A raw token is known to whoever once received it: a tab, a service      *)
(* worker, a client that retries because the answer got lost.  So any      *)
(* request may present any token ever issued, at any time.                 *)
(*                                                                         *)
(* An UPDATE locks the rows it changes until its transaction ends, and     *)
(* waits for rows locked by others; after the wait it looks at the row     *)
(* again (READ COMMITTED).  token[t] is the committed row, holder[t] the   *)
(* request whose uncommitted update locks it.  Rows are never deleted.     *)
(***************************************************************************)
EXTENDS Naturals, FiniteSets

CONSTANTS Users, Tokens, Requests, NULL

ASSUME TokensAssumption ==
  /\ Tokens \subseteq Nat
  /\ NULL \notin Users \cup Tokens \cup Requests

VARIABLES token, holder, req

vars == <<token, holder, req>>

\* login is the token the session began with, late that the replay grace of
\* _REFRESH_REPLAY_GRACE_SECONDS is over, rotated that rotated_at is set.
Token == [user : Users, login : Tokens, revoked : BOOLEAN, rotated : BOOLEAN,
          late : BOOLEAN, expired : BOOLEAN]

NotIssued == [user |-> NULL, login |-> NULL, revoked |-> FALSE,
              rotated |-> FALSE, late |-> FALSE, expired |-> FALSE]

\* fresh: the token had not expired when the transaction began (now() is the
\* time of that).  seen: the rows revoke_all_for_user's snapshot matched,
\* todo: those of them it has not reached yet.
Request == [step : {"idle", "rotating", "inserting", "replayed", "revoking",
                    "reported", "logging_out"},
            token : Tokens \cup {NULL}, fresh : BOOLEAN,
            seen : SUBSET Tokens, todo : SUBSET Tokens]

Idle == [step |-> "idle", token |-> NULL, fresh |-> FALSE,
         seen |-> {}, todo |-> {}]

\* The type invariant: a token has an owner and a session once it is issued,
\* and a request under way presents an issued token.
TypeOK ==
  /\ token \in [Tokens -> Token \cup {NotIssued}]
  /\ holder \in [Tokens -> Requests \cup {NULL}]
  /\ req \in [Requests -> Request]
  /\ \A r \in Requests : req[r].step # "idle" =>
       req[r].token \in Tokens /\ token[req[r].token] \in Token

Issued == {t \in Tokens : token[t] # NotIssued}
Live == {t \in Issued : ~token[t].revoked}
LiveOf(u) == {t \in Live : token[t].user = u}
Held(r) == {t \in Tokens : holder[t] = r}

NewToken(u, l) == [user |-> u, login |-> l, revoked |-> FALSE,
                   rotated |-> FALSE, late |-> FALSE, expired |-> FALSE]

Finish(r) == req' = [req EXCEPT ![r] = Idle]
ReleaseFaulty(r) == UNCHANGED holder

\* The row locks of a request end with its transaction.
Release(r) == holder' = [t \in Tokens |-> IF holder[t] = r THEN NULL ELSE holder[t]]

Init == /\ token = [t \in Tokens |-> NotIssued]
        /\ holder = [t \in Tokens |-> NULL]
        /\ req = [r \in Requests |-> Idle]

\* The id of the next row: which one makes no difference.
NextId == {t \in Tokens \ Issued : \A s \in Tokens \ Issued : t <= s}

\* Bound of the model: an unused id is left for every rotation under way.
IdsLeft ==
  Cardinality(Tokens \ Issued)
    > Cardinality({r \in Requests : req[r].step \in {"rotating", "inserting"}})

-----------------------------------------------------------------------------
(* login, register and the OAuth callback insert the first token of a      *)
(* session; nothing else touches a row that is not committed yet.          *)

Login(u) ==
  /\ IdsLeft
  /\ \E t \in NextId : token' = [token EXCEPT ![t] = NewToken(u, t)]
  /\ UNCHANGED <<holder, req>>

-----------------------------------------------------------------------------
(* refresh_token                                                           *)

\* rotate's UPDATE is sent.
Present(r, t) ==
  /\ req[r].step = "idle"
  /\ t \in Issued
  /\ token[t].revoked \/ token[t].expired \/ IdsLeft
  /\ req' = [req EXCEPT ![r] = [Idle EXCEPT !.step = "rotating", !.token = t,
                                            !.fresh = ~token[t].expired]]
  /\ UNCHANGED <<token, holder>>

StillValidFaulty(t, fresh) == fresh

\* The WHERE clause of rotate's UPDATE.
StillValid(t, fresh) == ~token[t].revoked /\ fresh

Rotate(r) ==
  LET t == req[r].token
  IN  /\ req[r].step = "rotating"
      /\ holder[t] = NULL
      /\ IF StillValid(t, req[r].fresh)
         THEN /\ holder' = [holder EXCEPT ![t] = r]
              /\ req' = [req EXCEPT ![r].step = "inserting"]
         ELSE /\ req' = [req EXCEPT ![r].step = "replayed"]
              /\ UNCHANGED holder
      /\ UNCHANGED token

SuccessorFaulty(t) == NewToken(NULL, token[t].login)

Successor(t) == NewToken(token[t].user, token[t].login)

\* The new token is inserted and the transaction commits, perhaps more than
\* the grace period after it began (rotated_at is when it began).
CommitRotation(r) ==
  LET t == req[r].token
  IN  /\ req[r].step = "inserting"
      /\ \E n \in NextId, late \in BOOLEAN :
           token' = [token EXCEPT ![n] = Successor(t),
                       ![t] = [token[t] EXCEPT !.revoked = TRUE,
                                 !.rotated = TRUE, !.late = late]]
      /\ Release(r)
      /\ Finish(r)

\* A logged-out token has no rotated_at: it gets no grace.
WithinGrace(t) == token[t].rotated /\ ~token[t].late

RowsToRevokeFaulty(u) == {t \in LiveOf(u) : holder[t] = NULL}

\* The rows revoke_all_for_user's UPDATE matches in its snapshot.
RowsToRevoke(u) == LiveOf(u)

\* The row is read again.  Expired, not revoked: 401 and nothing more.
\* (revoked, rotated and late never go back, so the read and the snapshot of
\* revoke_all_for_user's UPDATE may count as one step.)
CheckReplay(r) ==
  LET t == req[r].token
      u == token[t].user
  IN  /\ req[r].step = "replayed"
      /\ IF token[t].revoked /\ ~WithinGrace(t)
         THEN req' = [req EXCEPT ![r].step = "revoking", ![r].seen = LiveOf(u),
                                 ![r].todo = RowsToRevoke(u)]
         ELSE Finish(r)
      /\ UNCHANGED <<token, holder>>

\* revoke_all_for_user reaches one more row, in whatever order the table is
\* scanned: it waits for its lock and skips it when it is revoked by then.
LockNext(r) ==
  /\ req[r].step = "revoking"
  /\ \E t \in req[r].todo :
       /\ holder[t] = NULL
       /\ req' = [req EXCEPT ![r].todo = @ \ {t}]
       /\ holder' = IF token[t].revoked THEN holder
                    ELSE [holder EXCEPT ![t] = r]
  /\ UNCHANGED token

\* The revocations are committed; then "all sessions revoked" is logged.
CommitRevocation(r) ==
  /\ req[r].step = "revoking"
  /\ req[r].todo = {}
  /\ token' = [t \in Tokens |-> IF holder[t] = r
                                THEN [token[t] EXCEPT !.revoked = TRUE]
                                ELSE token[t]]
  /\ Release(r)
  /\ req' = [req EXCEPT ![r].step = "reported"]

Answer(r) ==
  /\ req[r].step = "reported"
  /\ Finish(r)
  /\ UNCHANGED <<token, holder>>

-----------------------------------------------------------------------------
(* logout: the row is read, then revoked by id.                            *)

CheckLogout(r, t) ==
  /\ req[r].step = "idle"
  /\ t \in Live
  /\ req' = [req EXCEPT ![r] = [Idle EXCEPT !.step = "logging_out", !.token = t]]
  /\ UNCHANGED <<token, holder>>

WriteLogout(r) ==
  LET t == req[r].token
  IN  /\ req[r].step = "logging_out"
      /\ holder[t] = NULL
      /\ token' = [token EXCEPT ![t].revoked = TRUE]
      /\ Finish(r)
      /\ UNCHANGED holder

-----------------------------------------------------------------------------
(* Rollback, and time.                                                     *)

Rollback(r) == Release(r) /\ Finish(r) /\ UNCHANGED token

\* The connection or the instance is lost before the commit.
Abort(r) == req[r].step # "idle" /\ Rollback(r)

\* Row locks are waited for by requests that may hold locks themselves.
Waits(r, s) ==
  \E t \in Tokens : /\ holder[t] = s
                    /\ \/ /\ req[r].step \in {"rotating", "logging_out"}
                          /\ t = req[r].token
                       \/ req[r].step = "revoking" /\ t \in req[r].todo

\* PostgreSQL ends a deadlock by failing one of the requests in it: requests
\* that can reach no further row, each waiting for one of them and waited for
\* by one.
Deadlocked(r) ==
  \E S \in SUBSET Requests :
    /\ r \in S
    /\ \A s \in S :
         /\ \E t \in S : Waits(s, t)
         /\ \E t \in S : Waits(t, s)
         /\ \A t \in req[s].todo : holder[t] # NULL

BreakDeadlock(r) == Deadlocked(r) /\ Rollback(r)

GraceEnds(t) ==
  /\ token[t].rotated
  /\ ~token[t].late
  /\ token' = [token EXCEPT ![t].late = TRUE]
  /\ UNCHANGED <<holder, req>>

\* Of a revoked token nobody asks any more whether it has expired.
Expire(t) ==
  /\ t \in Live
  /\ ~token[t].expired
  /\ token' = [token EXCEPT ![t].expired = TRUE]
  /\ UNCHANGED <<holder, req>>

\* What a handler does on its own once it has been called.
Proceed(r) ==
  \/ Rotate(r) \/ CommitRotation(r) \/ CheckReplay(r) \/ LockNext(r)
  \/ CommitRevocation(r) \/ Answer(r) \/ WriteLogout(r) \/ BreakDeadlock(r)

Next ==
  \/ \E u \in Users : Login(u)
  \/ \E r \in Requests, t \in Tokens : Present(r, t) \/ CheckLogout(r, t)
  \/ \E r \in Requests : Proceed(r) \/ Abort(r)
  \/ \E t \in Tokens : GraceEnds(t) \/ Expire(t)

\* A handler runs on while the process lives, a deadlock is detected, and a
\* lock is granted in the order of the queue for it, so a request that finds
\* the lock free again and again gets it (hence SF).  Nothing makes a client
\* send a request, a connection fail or time pass.
Fairness == \A r \in Requests : SF_vars(Proceed(r))

SafeSpec == Init /\ [][Next]_vars
Spec == SafeSpec /\ Fairness

-----------------------------------------------------------------------------
(* Properties.                                                             *)

\* A session has one live token at a time, however often and by however many
\* requests its tokens are presented: rotation replaces, it never forks.
OneLiveToken ==
  \A s, t \in Live : token[s].login = token[t].login => s = t

\* When a replay has been answered with "all sessions revoked", every token
\* that was live when it was detected is revoked, including those whose
\* rotation was under way and failed.
DetectedTokensRevoked ==
  \A r \in Requests : req[r].step = "reported" => req[r].seen \cap Live = {}

\* Rotation implements Sessions: the token row a session lives in changes,
\* but a session that is over (logged out or revoked) is never refreshed
\* back to life, and one step ends sessions of one user only.
IsLogin(l) == l \in Issued /\ token[l].login = l
Owner == [l \in Tokens |-> IF IsLogin(l) THEN token[l].user ELSE NULL]
Phase == [l \in Tokens |->
            IF ~IsLogin(l) THEN "none"
            ELSE IF \E t \in Live : token[t].login = l THEN "live" ELSE "over"]

Session == INSTANCE Sessions WITH Logins <- Tokens, owner <- Owner, phase <- Phase

ImplementsSessions == Session!Spec

\* A logout leaves no live token of its session, unless the token it has read
\* was rotated before its update got the row: then the successor stays live.
LogoutEndsSession ==
  [][\A r \in Requests :
       WriteLogout(r) /\ ~token[req[r].token].rotated
         => \A t \in Live' : token'[t].login # token[req[r].token].login]_vars

\* Only replays deadlock: a deadlock has two revocations of one user in it, and
\* no refresh of a valid token and no logout is failed for one.
DeadlocksAreReplays ==
  \A r \in Requests : Deadlocked(r) =>
    /\ req[r].step = "revoking"
    /\ \E s \in Requests \ {r} :
         /\ req[s].step = "revoking"
         /\ token[req[s].token].user = token[req[r].token].user

\* Every request is answered: no chain of row locks blocks one for ever.
EveryRequestEnds ==
  \A r \in Requests : req[r].step # "idle" ~> req[r].step = "idle"

\* "Replay detected - all sessions revoked": no session that was live at the
\* detection has a live token afterwards.
AllSessionsRevoked ==
  \A r \in Requests : req[r].step = "reported" =>
    \A s \in req[r].seen, t \in Live : token[t].login # token[s].login

\* What breaks it: a token the revocation has matched is being rotated.
NoRotationWhileRevoking ==
  \A r, s \in Requests :
    req[r].step = "revoking" /\ req[s].step = "inserting"
      => req[s].token \notin req[r].seen
=============================================================================
