------------------------ MODULE RefreshTokensProofs -------------------------
(***************************************************************************)
(* Theorems about RefreshTokens, for any number of users, tokens and       *)
(* requests.  The invariant says what the row locks mean: whoever holds    *)
(* one, holds it on a live row and for a reason.                           *)
(***************************************************************************)
EXTENDS RefreshTokens, TLAPS

USE TokensAssumption

\* A row is locked by a rotation of it or by a revocation that reached it,
\* and cannot be revoked by others meanwhile.
LockInv ==
  /\ \A t \in Tokens : holder[t] # NULL =>
       LET q == req[holder[t]]
       IN  /\ t \in Live
           /\ \/ q.step = "inserting" /\ q.token = t
              \/ q.step = "revoking" /\ t \in q.seen \ q.todo
  /\ \A r \in Requests : req[r].step = "inserting" => holder[req[r].token] = r

\* A session is named by the token it began with, which has its user.
SessionInv ==
  \A t \in Issued : /\ IsLogin(token[t].login)
                    /\ token[token[t].login].user = token[t].user

\* What a revocation saw belongs to one user, and each row of it is still to
\* be reached, locked, or revoked by somebody.
RevocationInv ==
  \A r \in Requests : req[r].step \in {"revoking", "reported"} =>
    /\ \A t \in req[r].seen : /\ t \in Issued
                              /\ token[t].user = token[req[r].token].user
    /\ req[r].todo \subseteq req[r].seen
    /\ \A t \in req[r].seen :
         \/ token[t].revoked
         \/ req[r].step = "revoking" /\ (t \in req[r].todo \/ holder[t] = r)

Inv == TypeOK /\ LockInv /\ SessionInv /\ RevocationInv /\ OneLiveToken

-----------------------------------------------------------------------------
(* Types.                                                                  *)

LEMMA IdleType == Idle \in Request
  BY DEF Idle, Request

\* An issued token is a token with an owner.
LEMMA IssuedType ==
  ASSUME TypeOK, NEW t \in Tokens
  PROVE  t \in Issued <=> token[t] \in Token
  BY DEF TypeOK, Issued, Token, NotIssued

LEMMA TokenIssued == NotIssued \notin Token
  BY TokensAssumption DEF Token, NotIssued

LEMMA FinishType ==
  ASSUME TypeOK, NEW r \in Requests, Finish(r)
  PROVE  /\ req' \in [Requests -> Request]
         /\ req'[r] = Idle
         /\ \A s \in Requests : s # r => req'[s] = req[s]
  BY IdleType DEF TypeOK, Finish

LEMMA ReleaseType ==
  ASSUME TypeOK, NEW r \in Requests, Release(r)
  PROVE  /\ holder' \in [Tokens -> Requests \cup {NULL}]
         /\ \A t \in Tokens : holder'[t] = IF holder[t] = r THEN NULL ELSE holder[t]
  BY DEF TypeOK, Release

-----------------------------------------------------------------------------
(* Steps that change no committed row.                                     *)

RowInv == SessionInv /\ OneLiveToken

LEMMA SameRows ==
  ASSUME RowInv, UNCHANGED token
  PROVE  RowInv'
  BY DEF RowInv, SessionInv, OneLiveToken, Issued, Live, IsLogin

LEMMA PresentInv ==
  ASSUME Inv, NEW r \in Requests, NEW t \in Tokens, Present(r, t) \/ CheckLogout(r, t)
  PROVE  Inv'
<1> USE DEF Inv
<1>1. token[t] \in Token /\ UNCHANGED <<token, holder>> /\ req[r].step = "idle"
  BY IssuedType DEF Present, CheckLogout, Live
<1>2. /\ req'[r] \in Request /\ req'[r].step \in {"rotating", "logging_out"}
      /\ req'[r].token = t
      /\ \A s \in Requests : s # r => req'[s] = req[s]
  <2>1. CASE Present(r, t)
    BY <1>1, <2>1 DEF Present, Idle, Token, Request, TypeOK
  <2>2. CASE CheckLogout(r, t)
    BY <2>2 DEF CheckLogout, Idle, Request, TypeOK
  <2>3. QED
    BY <2>1, <2>2
<1>3. TypeOK'
  <2>1. req' \in [Requests -> Request]
    BY <1>2 DEF TypeOK, Present, CheckLogout
  <2>2. QED
    BY <1>1, <1>2, <2>1 DEF TypeOK
<1>4. LockInv'
  BY <1>1, <1>2 DEF LockInv, TypeOK, Live, Issued
<1>5. RevocationInv'
  BY <1>1, <1>2 DEF RevocationInv, TypeOK, Issued
<1>6. QED
  BY <1>1, <1>3, <1>4, <1>5, SameRows DEF RowInv

LEMMA RotateInv ==
  ASSUME Inv, NEW r \in Requests, Rotate(r)
  PROVE  Inv'
<1> USE DEF Inv
<1> DEFINE t == req[r].token
<1>1. t \in Tokens /\ t \in Issued /\ req[r] \in Request
  BY IssuedType DEF Rotate, TypeOK
<1>2. UNCHANGED token /\ req[r].step = "rotating" /\ holder[t] = NULL
  BY DEF Rotate
<1>3. CASE /\ ~token[t].revoked
           /\ holder' = [holder EXCEPT ![t] = r]
           /\ req' = [req EXCEPT ![r].step = "inserting"]
  <2>1. TypeOK'
    BY <1>1, <1>2, <1>3 DEF TypeOK, Request
  <2>2. LockInv'
    BY <1>1, <1>2, <1>3 DEF LockInv, TypeOK, Live, Issued, Request
  <2>3. RevocationInv'
    BY <1>1, <1>2, <1>3 DEF RevocationInv, TypeOK, Issued, Request
  <2>4. QED
    BY <1>2, <2>1, <2>2, <2>3, SameRows DEF RowInv
<1>4. CASE UNCHANGED holder /\ req' = [req EXCEPT ![r].step = "replayed"]
  <2>1. TypeOK'
    BY <1>1, <1>2, <1>4 DEF TypeOK, Request
  <2>2. LockInv'
    BY <1>1, <1>2, <1>4 DEF LockInv, TypeOK, Live, Issued, Request
  <2>3. RevocationInv'
    BY <1>1, <1>2, <1>4 DEF RevocationInv, TypeOK, Issued, Request
  <2>4. QED
    BY <1>2, <2>1, <2>2, <2>3, SameRows DEF RowInv
<1>5. QED
  BY <1>3, <1>4 DEF Rotate, StillValid

\* The rows of a request that ends without a commit are simply unlocked.
LEMMA RollbackInv ==
  ASSUME Inv, NEW r \in Requests, Release(r), Finish(r), UNCHANGED token
  PROVE  Inv'
<1> USE DEF Inv
<1>1. TypeOK'
  BY FinishType, ReleaseType DEF TypeOK, Idle
<1>2. /\ req'[r].step = "idle"
      /\ \A s \in Requests : s # r => req'[s] = req[s]
      /\ \A t \in Tokens : holder'[t] = IF holder[t] = r THEN NULL ELSE holder[t]
  <2>1. req'[r] = Idle /\ \A s \in Requests : s # r => req'[s] = req[s]
    BY FinishType
  <2>2. \A t \in Tokens : holder'[t] = IF holder[t] = r THEN NULL ELSE holder[t]
    BY ReleaseType
  <2>3. QED
    BY <2>1, <2>2 DEF Idle
<1>3. LockInv'
  <2>1. ASSUME NEW t \in Tokens, holder'[t] # NULL
        PROVE  /\ holder[t] = holder'[t] /\ holder[t] \in Requests
               /\ req'[holder'[t]] = req[holder[t]] /\ t \in Live
    BY <1>2, <2>1 DEF TypeOK, LockInv
  <2>2. ASSUME NEW s \in Requests, req'[s].step = "inserting"
        PROVE  holder'[req'[s].token] = s
    <3>1. s # r /\ req'[s] = req[s] /\ holder[req[s].token] = s
          /\ req[s].token \in Tokens
      BY <1>2, <2>2 DEF LockInv, TypeOK
    <3>2. QED
      BY <1>2, <3>1
  <2>3. Live' = Live
    BY DEF Live, Issued
  <2>4. QED
    BY <2>1, <2>2, <2>3 DEF LockInv
<1>4. RevocationInv'
  <2>1. SUFFICES ASSUME NEW s \in Requests,
                        req'[s].step \in {"revoking", "reported"}
                 PROVE  /\ s # r /\ req'[s] = req[s]
                        /\ \A t \in Tokens : holder[t] = s => holder'[t] = s
    <3>1. Issued' = Issued
      BY DEF Issued
    <3>2. ASSUME NEW s \in Requests, req'[s] = req[s],
                 req[s].step \in {"revoking", "reported"},
                 \A t \in Tokens : holder[t] = s => holder'[t] = s
          PROVE  /\ \A t \in req[s].seen :
                      /\ t \in Issued
                      /\ token[t].user = token[req[s].token].user
                 /\ req[s].todo \subseteq req[s].seen
                 /\ \A t \in req[s].seen :
                      \/ token[t].revoked
                      \/ /\ req[s].step = "revoking"
                         /\ t \in req[s].todo \/ holder'[t] = s
      BY <3>2 DEF RevocationInv, Issued
    <3>3. QED
      BY <3>1, <3>2 DEF RevocationInv
  <2>2. QED
    BY <1>2, <2>1
<1>5. QED
  BY <1>1, <1>3, <1>4, SameRows DEF RowInv

LEMMA CheckReplayInv ==
  ASSUME Inv, NEW r \in Requests, CheckReplay(r)
  PROVE  Inv'
<1> USE DEF Inv
<1> DEFINE u == token[req[r].token].user
<1>1. UNCHANGED <<token, holder>> /\ req[r].step = "replayed"
  BY DEF CheckReplay
<1>2. \A t \in Tokens : holder[t] # r
  BY <1>1, TokensAssumption DEF LockInv
<1>3. CASE Finish(r)
  <2>1. Release(r)
    BY <1>1, <1>2 DEF Release, TypeOK
  <2>2. QED
    BY <1>1, <1>3, <2>1, RollbackInv
<1>4. CASE req' = [req EXCEPT ![r].step = "revoking", ![r].seen = LiveOf(u),
                              ![r].todo = LiveOf(u)]
  <2>1. LiveOf(u) \subseteq Tokens
    BY DEF LiveOf, Live, Issued
  <2>2. /\ req'[r] = [req[r] EXCEPT !.step = "revoking", !.seen = LiveOf(u),
                                   !.todo = LiveOf(u)]
        /\ \A s \in Requests : s # r => req'[s] = req[s]
    BY <1>4 DEF TypeOK, Request
  <2>3. /\ req[r] \in Request
        /\ req[r].token \in Tokens /\ token[req[r].token] \in Token
    BY <1>1 DEF TypeOK
  <2>4. req'[r] \in Request /\ req'[r].step = "revoking"
        /\ req'[r].token = req[r].token
        /\ req'[r].seen = LiveOf(u) /\ req'[r].todo = LiveOf(u)
    BY <2>1, <2>2, <2>3 DEF Request
  <2>5. req' \in [Requests -> Request]
    BY <1>4, <2>2, <2>4 DEF TypeOK
  <2>6. TypeOK'
    BY <1>1, <2>2, <2>3, <2>4, <2>5 DEF TypeOK
  <2>7. LockInv'
    <3>1. \A t \in Tokens : holder[t] # NULL =>
            holder[t] \in Requests /\ req'[holder[t]] = req[holder[t]]
      BY <1>2, <2>2 DEF TypeOK
    <3>2. \A s \in Requests : req'[s].step = "inserting" => req'[s] = req[s]
      BY <2>2, <2>4
    <3>3. Live' = Live
      BY <1>1 DEF Live, Issued
    <3>4. QED
      BY <1>1, <3>1, <3>2, <3>3 DEF LockInv
  <2>8. RevocationInv'
    <3>1. Issued' = Issued
      BY <1>1 DEF Issued
    <3>2. \A t \in LiveOf(u) : t \in Issued /\ token[t].user = u
      BY DEF LiveOf, Live
    <3>3. ASSUME NEW s \in Requests, s # r,
                 req'[s].step \in {"revoking", "reported"}
          PROVE  req'[s] = req[s]
      BY <2>2, <3>3
    <3>4. QED
      BY <1>1, <2>4, <3>1, <3>2, <3>3 DEF RevocationInv
  <2>9. QED
    BY <1>1, <2>6, <2>7, <2>8, SameRows DEF RowInv
<1>5. QED
  BY <1>3, <1>4 DEF CheckReplay, RowsToRevoke

LEMMA LockNextInv ==
  ASSUME Inv, NEW r \in Requests, LockNext(r)
  PROVE  Inv'
<1> USE DEF Inv
<1>1. PICK t \in req[r].todo :
        /\ holder[t] = NULL
        /\ req' = [req EXCEPT ![r].todo = req[r].todo \ {t}]
        /\ holder' = IF token[t].revoked THEN holder
                     ELSE [holder EXCEPT ![t] = r]
  BY DEF LockNext
<1>2. /\ req[r].step = "revoking" /\ req[r] \in Request /\ UNCHANGED token
      /\ t \in Tokens /\ t \in Issued /\ t \in req[r].seen
  BY DEF LockNext, TypeOK, Request, RevocationInv
<1>3. /\ req'[r] = [req[r] EXCEPT !.todo = req[r].todo \ {t}]
      /\ \A s \in Requests : s # r => req'[s] = req[s]
  BY <1>1 DEF TypeOK
<1>4. /\ req'[r] \in Request /\ req'[r].step = "revoking"
      /\ req'[r].token = req[r].token /\ req'[r].seen = req[r].seen
      /\ req'[r].todo = req[r].todo \ {t}
  BY <1>2, <1>3 DEF Request
<1>5. /\ \A x \in Tokens : x # t => holder'[x] = holder[x]
      /\ token[t].revoked => holder'[t] = NULL
      /\ ~token[t].revoked => holder'[t] = r
      /\ holder' \in [Tokens -> Requests \cup {NULL}]
  BY <1>1, <1>2 DEF TypeOK
<1>6. Live' = Live /\ Issued' = Issued
  BY <1>2 DEF Live, Issued
<1>7. TypeOK'
  <2>1. req' \in [Requests -> Request]
    BY <1>1, <1>3, <1>4 DEF TypeOK
  <2>2. QED
    BY <1>2, <1>3, <1>4, <1>5, <2>1 DEF TypeOK
<1>8. LockInv'
  <2>1. ASSUME NEW x \in Tokens, holder'[x] # NULL
        PROVE  /\ x \in Live
               /\ \/ req'[holder'[x]].step = "inserting" /\ req'[holder'[x]].token = x
                  \/ /\ req'[holder'[x]].step = "revoking"
                     /\ x \in req'[holder'[x]].seen \ req'[holder'[x]].todo
    <3>1. CASE x = t
      BY <1>2, <1>4, <1>5, <2>1, <3>1 DEF Live
    <3>2. CASE x # t
      <4>1. holder'[x] = holder[x] /\ holder[x] \in Requests
        BY <1>5, <2>1, <3>2 DEF TypeOK
      <4>2. QED
        BY <1>2, <1>3, <1>4, <2>1, <4>1, ZenonT(60) DEF LockInv
    <3>3. QED
      BY <3>1, <3>2
  <2>2. ASSUME NEW s \in Requests, req'[s].step = "inserting"
        PROVE  holder'[req'[s].token] = s
    <3>1. s # r /\ req'[s] = req[s] /\ holder[req[s].token] = s
          /\ req[s].token \in Tokens
      BY <1>3, <1>4, <2>2 DEF LockInv, TypeOK
    <3>2. req[s].token # t
      BY <1>1, <3>1, TokensAssumption
    <3>3. QED
      BY <1>5, <3>1, <3>2
  <2>3. QED
    BY <1>6, <2>1, <2>2 DEF LockInv
<1>9. RevocationInv'
  <2>1. ASSUME NEW s \in Requests, s # r,
               req'[s].step \in {"revoking", "reported"}
        PROVE  /\ req'[s] = req[s]
               /\ \A x \in Tokens : holder[x] = s => holder'[x] = s
    BY <1>1, <1>3, <1>5, <2>1, TokensAssumption
  <2>2. ASSUME NEW x \in req[r].seen
        PROVE  \/ token[x].revoked
               \/ x \in req'[r].todo \/ holder'[x] = r
    <3>1. x \in Tokens
      BY <1>2 DEF Request
    <3>2. QED
      BY <1>2, <1>4, <1>5, <3>1 DEF RevocationInv
  <2>3. \A s \in Requests : req[s] \in Request /\ req[s].seen \subseteq Tokens
    BY DEF TypeOK, Request
  <2>4. SUFFICES ASSUME NEW s \in Requests,
                        req'[s].step \in {"revoking", "reported"}
                 PROVE  /\ \A x \in req'[s].seen :
                             /\ x \in Issued
                             /\ token[x].user = token[req'[s].token].user
                        /\ req'[s].todo \subseteq req'[s].seen
                        /\ \A x \in req'[s].seen :
                             \/ token[x].revoked
                             \/ /\ req'[s].step = "revoking"
                                /\ x \in req'[s].todo \/ holder'[x] = s
    BY <1>2, <1>6 DEF RevocationInv
  <2>5. CASE s = r
    <3>1. /\ \A x \in req[r].seen : /\ x \in Issued
                                    /\ token[x].user = token[req[r].token].user
          /\ req[r].todo \subseteq req[r].seen
      BY <1>2 DEF RevocationInv
    <3>2. QED
      BY <1>4, <2>2, <2>5, <3>1
  <2>6. CASE s # r
    <3>1. /\ req'[s] = req[s] /\ req[s].step \in {"revoking", "reported"}
          /\ req[s].seen \subseteq Tokens
          /\ \A x \in Tokens : holder[x] = s => holder'[x] = s
      BY <2>1, <2>3, <2>4, <2>6
    <3>2. /\ \A x \in req[s].seen : /\ x \in Issued
                                    /\ token[x].user = token[req[s].token].user
          /\ req[s].todo \subseteq req[s].seen
          /\ \A x \in req[s].seen :
               \/ token[x].revoked
               \/ /\ req[s].step = "revoking"
                  /\ x \in req[s].todo \/ holder[x] = s
      BY <3>1 DEF RevocationInv
    <3>3. QED
      BY <3>1, <3>2
  <2>7. QED
    BY <2>5, <2>6
<1>10. QED
  BY <1>2, <1>7, <1>8, <1>9, SameRows DEF RowInv

LEMMA AnswerInv ==
  ASSUME Inv, NEW r \in Requests, Answer(r)
  PROVE  Inv'
<1>1. \A t \in Tokens : holder[t] # r
  BY TokensAssumption DEF Inv, LockInv, Answer
<1>2. Release(r)
  BY <1>1 DEF Release, Inv, TypeOK, Answer
<1>3. QED
  BY <1>2, RollbackInv DEF Answer

-----------------------------------------------------------------------------
(* Steps that change committed rows.  RowsKept says what none of them does *)
(* to the rows already issued.                                             *)

RowsKept ==
  \A t \in Issued : /\ token'[t] \in Token
                    /\ token'[t].user = token[t].user
                    /\ token'[t].login = token[t].login
                    /\ token[t].revoked => token'[t].revoked

\* No row is issued or revoked, and none changes hands.
SameSessions ==
  /\ Issued' = Issued /\ Live' = Live
  /\ \A t \in Issued : /\ token'[t].login = token[t].login
                        /\ token'[t].user = token[t].user

\* No new row, and no locks or requests touched.
LEMMA FlagInv ==
  ASSUME Inv, RowsKept, UNCHANGED <<holder, req>>,
         token' \in [Tokens -> Token \cup {NotIssued}],
         \A t \in Tokens : t \notin Issued => token'[t] = token[t],
         \A t \in Tokens : token'[t].revoked = token[t].revoked
  PROVE  Inv'
<1> USE DEF Inv
<1>1. Issued' = Issued
  <2>1. \A t \in Issued : token'[t] # NotIssued
    BY IssuedType DEF RowsKept, Token, NotIssued, TypeOK
  <2>2. QED
    BY <2>1 DEF Issued
<1>2. Live' = Live
  BY <1>1 DEF Live, Issued
<1>3. \A r \in Requests : req[r].step # "idle" =>
        req[r].token \in Tokens /\ req[r].token \in Issued
  BY IssuedType DEF TypeOK
<1>4. TypeOK'
  BY <1>3 DEF TypeOK, RowsKept
<1>5. LockInv'
  BY <1>2 DEF LockInv
<1>6. SessionInv'
  BY <1>1 DEF SessionInv, IsLogin, RowsKept
<1>7. RevocationInv'
  <2>1. \A r \in Requests : req[r].step # "idle" =>
          token'[req[r].token].user = token[req[r].token].user
    BY <1>3 DEF RowsKept
  <2>2. \A t \in Issued : /\ token'[t].user = token[t].user
                          /\ token'[t].revoked = token[t].revoked
    BY DEF RowsKept, Issued
  <2>3. QED
    BY <1>1, <2>1, <2>2 DEF RevocationInv
<1>8. OneLiveToken'
  BY <1>2 DEF OneLiveToken, Live, RowsKept
<1>9. QED
  BY <1>4, <1>5, <1>6, <1>7, <1>8

LEMMA TimeInv ==
  ASSUME Inv, NEW t \in Tokens, GraceEnds(t) \/ Expire(t)
  PROVE  Inv' /\ SameSessions
<1>1. t \in Issued /\ token[t] \in Token
  BY IssuedType DEF GraceEnds, Expire, Inv, TypeOK, Issued, Live, NotIssued
<1>2. PICK w \in Token : /\ token' = [token EXCEPT ![t] = w]
                         /\ w.user = token[t].user /\ w.login = token[t].login
                         /\ w.revoked = token[t].revoked
  <2>1. CASE GraceEnds(t)
    <3>1. [token[t] EXCEPT !.late = TRUE] \in Token
      BY <1>1 DEF Token
    <3>2. token' = [token EXCEPT ![t] = [token[t] EXCEPT !.late = TRUE]]
      BY <2>1 DEF GraceEnds
    <3>3. QED
      BY <1>1, <3>1, <3>2 DEF Token
  <2>2. CASE Expire(t)
    <3>1. [token[t] EXCEPT !.expired = TRUE] \in Token
      BY <1>1 DEF Token
    <3>2. token' = [token EXCEPT ![t] = [token[t] EXCEPT !.expired = TRUE]]
      BY <2>2 DEF Expire
    <3>3. QED
      BY <1>1, <3>1, <3>2 DEF Token
  <2>3. QED
    BY <2>1, <2>2
<1>3. UNCHANGED <<holder, req>>
  BY DEF GraceEnds, Expire
<1>4. RowsKept
  BY <1>1, <1>2, IssuedType DEF RowsKept, Inv, TypeOK, Issued
<1>5. Inv'
  BY <1>1, <1>2, <1>3, <1>4, FlagInv DEF Inv, TypeOK
<1>6. Issued' = Issued
  BY <1>1, <1>2, TokenIssued DEF Inv, TypeOK, Issued
<1>7. Live' = Live
  BY <1>1, <1>2, <1>6 DEF Inv, TypeOK, Live, Issued
<1>8. QED
  BY <1>4, <1>5, <1>6, <1>7 DEF RowsKept, SameSessions

LEMMA LoginInv ==
  ASSUME Inv, NEW u \in Users, Login(u)
  PROVE  /\ Inv'
         /\ \E t \in Tokens \ Issued :
              /\ Live' = Live \cup {t} /\ Issued' = Issued \cup {t}
              /\ token'[t].login = t /\ token'[t].user = u
              /\ \A s \in Issued : token'[s] = token[s]
<1> USE DEF Inv
<1>1. PICK t \in Tokens \ Issued : token' = [token EXCEPT ![t] = NewToken(u, t)]
  BY DEF Login, NextId
<1>2. UNCHANGED <<holder, req>>
  BY DEF Login
<1>3. /\ NewToken(u, t) \in Token
      /\ NewToken(u, t).login = t /\ NewToken(u, t).user = u
      /\ ~NewToken(u, t).revoked
  BY DEF NewToken, Token
<1>4. token'[t] = NewToken(u, t) /\ \A s \in Tokens : s # t => token'[s] = token[s]
  BY <1>1 DEF TypeOK
<1>5. Issued' = Issued \cup {t}
  <2>1. NewToken(u, t) # NotIssued
    BY TokensAssumption DEF NewToken, NotIssued
  <2>2. QED
    BY <1>4, <2>1 DEF Issued
<1>6. Live' = Live \cup {t}
  BY <1>3, <1>4, <1>5 DEF Live, Issued
<1>7. \A s \in Issued : token[s].login \in Issued /\ token[s].login # t
  BY DEF SessionInv, IsLogin
<1>8. TypeOK'
  BY <1>1, <1>2, <1>3, <1>4 DEF TypeOK
<1>9. LockInv'
  BY <1>2, <1>6 DEF LockInv
<1>10. SessionInv'
  <2>1. \A s \in Issued : token'[s] = token[s]
    BY <1>4 DEF Issued
  <2>2. \A s \in Issued : token'[token[s].login] = token[token[s].login]
    BY <1>7, <2>1
  <2>3. QED
    BY <1>3, <1>4, <1>5, <1>7, <2>1, <2>2 DEF SessionInv, IsLogin
<1>11. RevocationInv'
  <2>1. \A r \in Requests : req[r].step # "idle" => req[r].token # t
    BY IssuedType DEF TypeOK
  <2>2. \A s \in Issued : token'[s] = token[s]
    BY <1>4 DEF Issued
  <2>3. \A r \in Requests : req[r].step # "idle" =>
          token'[req[r].token] = token[req[r].token]
    BY <1>4, <2>1 DEF TypeOK
  <2>4. QED
    BY <1>2, <1>5, <2>2, <2>3 DEF RevocationInv
<1>12. OneLiveToken'
  BY <1>3, <1>4, <1>6, <1>7 DEF OneLiveToken, Live, Issued
<1>13. Inv'
  BY <1>8, <1>9, <1>10, <1>11, <1>12
<1>14. \A s \in Issued : token'[s] = token[s]
  BY <1>4 DEF Issued
<1>15. QED
  BY <1>3, <1>4, <1>5, <1>6, <1>13, <1>14

\* Request r has ended, or it has revoked everything it saw.
Settled(r) ==
  /\ req' \in [Requests -> Request]
  /\ \A s \in Requests : s # r => req'[s] = req[s]
  /\ \/ req'[r].step = "idle"
     \/ /\ req'[r].step = "reported" /\ req[r].step = "revoking"
        /\ req'[r].token = req[r].token /\ req'[r].seen = req[r].seen
        /\ req'[r].todo = {} /\ \A x \in req[r].seen : token'[x].revoked

OthersLive(r) ==
  \A x \in Tokens : holder[x] # NULL /\ holder[x] # r => x \in Live'

\* A commit: request r gives its locks back, and the rows locked by others
\* are still live.
LEMMA CommitInv ==
  ASSUME Inv, NEW r \in Requests, Release(r), RowsKept,
         token' \in [Tokens -> Token \cup {NotIssued}],
         Settled(r), OthersLive(r)
  PROVE  TypeOK' /\ LockInv' /\ RevocationInv'
<1> USE DEF Inv, Settled, OthersLive
<1>1. /\ holder' \in [Tokens -> Requests \cup {NULL}]
      /\ \A x \in Tokens : holder'[x] = IF holder[x] = r THEN NULL ELSE holder[x]
  BY ReleaseType
<1>2. \A s \in Requests : req[s].step # "idle" =>
        /\ req[s].token \in Tokens /\ req[s].token \in Issued
        /\ token'[req[s].token] \in Token
        /\ token'[req[s].token].user = token[req[s].token].user
  BY IssuedType DEF TypeOK, RowsKept
<1>3. TypeOK'
  BY <1>1, <1>2 DEF TypeOK
<1>4. LockInv'
  <2>1. ASSUME NEW x \in Tokens, holder'[x] # NULL
        PROVE  /\ holder'[x] = holder[x] /\ holder[x] # NULL
               /\ req'[holder[x]] = req[holder[x]] /\ x \in Live'
    <3>1. holder'[x] = holder[x] /\ holder[x] # NULL /\ holder[x] # r
      BY <1>1, <2>1
    <3>2. holder[x] \in Requests
      BY <3>1 DEF TypeOK
    <3>3. QED
      BY <3>1, <3>2
  <2>2. ASSUME NEW s \in Requests, req'[s].step = "inserting"
        PROVE  holder'[req'[s].token] = s
    <3>1. s # r
      BY <2>2
    <3>2. req'[s] = req[s]
      BY <3>1
    <3>3. holder[req[s].token] = s /\ req[s].token \in Tokens
      <4>1. req[s].step = "inserting"
        BY <2>2, <3>2
      <4>2. QED
        BY <4>1 DEF LockInv, TypeOK
    <3>4. holder'[req[s].token] = s
      BY <1>1, <3>1, <3>3
    <3>5. QED
      BY <3>2, <3>4
  <2>3. \A x \in Tokens : holder[x] # NULL =>
          \/ req[holder[x]].step = "inserting" /\ req[holder[x]].token = x
          \/ /\ req[holder[x]].step = "revoking"
             /\ x \in req[holder[x]].seen \ req[holder[x]].todo
    BY DEF LockInv
  <2>4. QED
    BY <2>1, <2>2, <2>3 DEF LockInv
<1>5. RevocationInv'
  <2>1. \A x \in Issued : /\ x \in Issued'
                          /\ token'[x].user = token[x].user
                          /\ token[x].revoked => token'[x].revoked
    BY TokensAssumption DEF RowsKept, Issued, Token, NotIssued
  <2>2. SUFFICES ASSUME NEW s \in Requests,
                        req'[s].step \in {"revoking", "reported"}
                 PROVE  /\ \A x \in req'[s].seen :
                             /\ x \in Issued'
                             /\ token'[x].user = token'[req'[s].token].user
                        /\ req'[s].todo \subseteq req'[s].seen
                        /\ \A x \in req'[s].seen :
                             \/ token'[x].revoked
                             \/ /\ req'[s].step = "revoking"
                                /\ x \in req'[s].todo \/ holder'[x] = s
    BY DEF RevocationInv
  <2>3. req[s].step \in {"revoking", "reported"}
    BY <2>2
  <2>4. /\ \A x \in req[s].seen : /\ x \in Issued /\ x \in Tokens
                                  /\ token[x].user = token[req[s].token].user
        /\ req[s].todo \subseteq req[s].seen
        /\ \A x \in req[s].seen :
             \/ token[x].revoked
             \/ req[s].step = "revoking" /\ (x \in req[s].todo \/ holder[x] = s)
    BY <2>3 DEF RevocationInv, Issued
  <2>5. CASE s = r
    BY <1>2, <2>1, <2>2, <2>3, <2>4, <2>5
  <2>6. CASE s # r
    <3>1. req'[s] = req[s]
      BY <2>6
    <3>2. \A x \in req[s].seen : holder[x] = s => holder'[x] = s
      BY <1>1, <2>4, <2>6
    <3>3. token'[req[s].token].user = token[req[s].token].user
      BY <1>2, <2>3
    <3>4. QED
      BY <2>1, <2>4, <3>1, <3>2, <3>3
  <2>7. QED
    BY <2>5, <2>6
<1>6. QED
  BY <1>3, <1>4, <1>5

LEMMA CommitRotationInv ==
  ASSUME Inv, NEW r \in Requests, CommitRotation(r)
  PROVE  /\ Inv'
         /\ \E t \in Live, n \in Tokens \ Issued :
              /\ t = req[r].token /\ token'[t].rotated
              /\ Live' = (Live \ {t}) \cup {n} /\ Issued' = Issued \cup {n}
              /\ token'[n].login = token[t].login
              /\ \A x \in Issued : /\ token'[x].login = token[x].login
                                   /\ token'[x].user = token[x].user
<1> USE DEF Inv
<1> DEFINE t == req[r].token
<1>1. /\ req[r].step = "inserting" /\ t \in Tokens /\ holder[t] = r
      /\ t \in Live /\ token[t] \in Token
  BY TokensAssumption DEF CommitRotation, LockInv, TypeOK
<1>2. PICK n \in Tokens \ Issued, late \in BOOLEAN :
        token' = [token EXCEPT ![n] = Successor(t),
                    ![t] = [token[t] EXCEPT !.revoked = TRUE,
                              !.rotated = TRUE, !.late = late]]
  BY DEF CommitRotation, NextId
<1>3. n # t /\ t \in Issued
  BY <1>1 DEF Live
<1>4. /\ Successor(t) \in Token /\ Successor(t).login = token[t].login
      /\ Successor(t).user = token[t].user /\ ~Successor(t).revoked
  BY <1>1 DEF Successor, NewToken, Token
<1>5. /\ token'[n] = Successor(t)
      /\ token'[t] = [token[t] EXCEPT !.revoked = TRUE, !.rotated = TRUE,
                                      !.late = late]
      /\ \A x \in Tokens : x # n /\ x # t => token'[x] = token[x]
  BY <1>1, <1>2, <1>3 DEF TypeOK
<1>6. /\ token'[t] \in Token /\ token'[t].user = token[t].user
      /\ token'[t].login = token[t].login /\ token'[t].revoked
      /\ token'[t].rotated
  BY <1>1, <1>5 DEF Token
<1>7. token' \in [Tokens -> Token \cup {NotIssued}]
  BY <1>2, <1>4, <1>6 DEF TypeOK
<1>8. RowsKept
  BY <1>3, <1>5, <1>6, IssuedType DEF RowsKept, Issued
<1>9. Issued' = Issued \cup {n}
  BY <1>3, <1>4, <1>5, <1>6, TokensAssumption DEF Issued, Token, NotIssued
<1>10. Live' = (Live \ {t}) \cup {n}
  BY <1>3, <1>4, <1>5, <1>6, <1>9 DEF Live, Issued
<1>11. Release(r) /\ Finish(r)
  BY DEF CommitRotation
<1>12. Settled(r)
  <2>1. req' \in [Requests -> Request] /\ req'[r] = Idle
        /\ \A s \in Requests : s # r => req'[s] = req[s]
    BY <1>11, FinishType
  <2>2. QED
    BY <2>1 DEF Idle, Settled
<1>13. OthersLive(r)
  BY <1>1, <1>10 DEF LockInv, OthersLive
<1>14. TypeOK' /\ LockInv' /\ RevocationInv'
  <2> HIDE DEF Inv
  <2>1. QED
    BY <1>7, <1>8, <1>11, <1>12, <1>13, CommitInv
<1>15. SessionInv'
  <2>1. \A x \in Issued : /\ token'[x].login = token[x].login
                          /\ token'[x].user = token[x].user
    BY <1>8 DEF RowsKept
  <2>2. \A x \in Issued : token[x].login \in Issued
    BY DEF SessionInv, IsLogin
  <2>3. QED
    BY <1>3, <1>4, <1>5, <1>9, <2>1, <2>2 DEF SessionInv, IsLogin
<1>16. OneLiveToken'
  <2>1. \A x \in Live \ {t} : /\ token'[x].login = token[x].login
                              /\ token[x].login # token[t].login
    BY <1>1, <1>8 DEF OneLiveToken, RowsKept, Live
  <2>2. QED
    BY <1>1, <1>4, <1>5, <1>10, <2>1 DEF OneLiveToken
<1>17. QED
  BY <1>1, <1>4, <1>5, <1>6, <1>8, <1>9, <1>10, <1>14, <1>15, <1>16 DEF RowsKept

\* What revoking some live rows and nothing else does.
Revoke(S) ==
  /\ S \subseteq Live
  /\ token' \in [Tokens -> Token \cup {NotIssued}]
  /\ RowsKept
  /\ Issued' = Issued
  /\ Live' = Live \ S

LEMMA RevokeInv ==
  ASSUME Inv, NEW S, Revoke(S)
  PROVE  SessionInv' /\ OneLiveToken'
<1>1. SessionInv'
  BY DEF Inv, Revoke, RowsKept, SessionInv, IsLogin
<1>2. OneLiveToken'
  BY DEF Inv, Revoke, RowsKept, OneLiveToken, Live
<1>3. QED
  BY <1>1, <1>2

LEMMA WriteLogoutInv ==
  ASSUME Inv, NEW r \in Requests, WriteLogout(r)
  PROVE  Inv' /\ \E S : Revoke(S) /\ \A x, y \in S : token[x].user = token[y].user
<1> USE DEF Inv
<1> DEFINE t == req[r].token
<1>1. /\ req[r].step = "logging_out" /\ t \in Tokens /\ holder[t] = NULL
      /\ token[t] \in Token /\ t \in Issued
  BY IssuedType DEF WriteLogout, TypeOK
<1>2. token' = [token EXCEPT ![t] = [token[t] EXCEPT !.revoked = TRUE]]
  BY DEF WriteLogout
<1>3. /\ token'[t] \in Token /\ token'[t].user = token[t].user
      /\ token'[t].login = token[t].login /\ token'[t].revoked
      /\ \A x \in Tokens : x # t => token'[x] = token[x]
  BY <1>1, <1>2 DEF Token, TypeOK
<1>4. token' \in [Tokens -> Token \cup {NotIssued}]
  BY <1>2, <1>3 DEF TypeOK
<1>5. RowsKept
  BY <1>1, <1>3, IssuedType DEF RowsKept, Issued
<1>6. Issued' = Issued
  <2>1. token'[t] # NotIssued
    BY <1>3, TokenIssued
  <2>2. QED
    BY <1>1, <1>3, <2>1 DEF Issued
<1>7. Live' = Live \ {t}
  BY <1>1, <1>3, <1>6 DEF Live, Issued
<1>8. Revoke(Live \cap {t})
  BY <1>4, <1>5, <1>6, <1>7 DEF Revoke
<1>9. Release(r)
  <2>1. \A x \in Tokens : holder[x] # r
    BY <1>1, TokensAssumption DEF LockInv
  <2>2. QED
    BY <2>1 DEF WriteLogout, Release, TypeOK
<1>10. Settled(r)
  <2>1. req' \in [Requests -> Request] /\ req'[r] = Idle
        /\ \A s \in Requests : s # r => req'[s] = req[s]
    BY FinishType DEF WriteLogout
  <2>2. QED
    BY <2>1 DEF Idle, Settled
<1>11. OthersLive(r)
  BY <1>1, <1>7 DEF LockInv, OthersLive
<1>12. TypeOK' /\ LockInv' /\ RevocationInv'
  <2> HIDE DEF Inv
  <2>1. QED
    BY <1>4, <1>5, <1>9, <1>10, <1>11, CommitInv
<1>13. SessionInv' /\ OneLiveToken'
  BY <1>8, RevokeInv
<1>14. QED
  BY <1>8, <1>12, <1>13

LEMMA CommitRevocationInv ==
  ASSUME Inv, NEW r \in Requests, CommitRevocation(r)
  PROVE  Inv' /\ \E S : Revoke(S) /\ \A x, y \in S : token[x].user = token[y].user
<1> USE DEF Inv
<1> DEFINE S == Held(r)
<1>1. /\ req[r].step = "revoking" /\ req[r].todo = {} /\ req[r] \in Request
      /\ req' = [req EXCEPT ![r].step = "reported"] /\ Release(r)
  BY DEF CommitRevocation, TypeOK
<1>2. \A x \in S : x \in Tokens /\ x \in Live /\ x \in req[r].seen
  BY <1>1, TokensAssumption DEF Held, LockInv
<1>3. \A x \in Tokens :
        token'[x] = IF holder[x] = r THEN [token[x] EXCEPT !.revoked = TRUE]
                                     ELSE token[x]
  BY DEF CommitRevocation
<1>4. \A x \in S : /\ token[x] \in Token /\ token'[x] \in Token
                   /\ token'[x].user = token[x].user
                   /\ token'[x].login = token[x].login /\ token'[x].revoked
  <2>1. ASSUME NEW x \in S PROVE token[x] \in Token
    BY <1>2, IssuedType DEF Live
  <2>2. QED
    BY <1>2, <1>3, <2>1, ZenonT(60) DEF Token, Held
<1>5. \A x \in Tokens : x \notin S => token'[x] = token[x]
  BY <1>3 DEF Held
<1>6. token' \in [Tokens -> Token \cup {NotIssued}]
  BY <1>4, <1>5 DEF CommitRevocation, TypeOK
<1>7. RowsKept
  BY <1>4, <1>5, IssuedType DEF RowsKept, Issued
<1>8. Issued' = Issued
  <2>1. \A x \in S : token'[x] # NotIssued /\ x \in Issued
    BY <1>2, <1>4, TokenIssued DEF Live
  <2>2. QED
    BY <1>5, <2>1 DEF Issued
<1>9. Live' = Live \ S
  BY <1>2, <1>4, <1>5, <1>8 DEF Live, Issued
<1>10. Revoke(S)
  BY <1>2, <1>6, <1>7, <1>8, <1>9 DEF Revoke
<1>11. Settled(r)
  <2>1. req'[r] = [req[r] EXCEPT !.step = "reported"]
        /\ \A s \in Requests : s # r => req'[s] = req[s]
    BY <1>1 DEF TypeOK
  <2>2. /\ req'[r] \in Request /\ req'[r].step = "reported"
        /\ req'[r].token = req[r].token /\ req'[r].seen = req[r].seen
        /\ req'[r].todo = {}
    BY <1>1, <2>1 DEF Request
  <2>3. req' \in [Requests -> Request]
    BY <1>1, <2>1, <2>2 DEF TypeOK
  <2>4. \A x \in req[r].seen : token'[x].revoked
    <3>1. \A x \in req[r].seen : x \in Issued /\ x \in Tokens
                                 /\ (token[x].revoked \/ holder[x] = r)
      BY <1>1 DEF RevocationInv, Issued
    <3>2. QED
      BY <1>4, <1>5, <3>1 DEF Held
  <2>5. QED
    BY <1>1, <2>1, <2>2, <2>3, <2>4 DEF Settled
<1>12. OthersLive(r)
  BY <1>9 DEF LockInv, OthersLive, Held
<1>13. TypeOK' /\ LockInv' /\ RevocationInv'
  <2> HIDE DEF Inv
  <2>1. QED
    BY <1>1, <1>6, <1>7, <1>11, <1>12, CommitInv
<1>14. SessionInv' /\ OneLiveToken'
  BY <1>10, RevokeInv
<1>15. \A x, y \in S : token[x].user = token[y].user
  BY <1>1, <1>2 DEF RevocationInv
<1>16. QED
  BY <1>10, <1>13, <1>14, <1>15

-----------------------------------------------------------------------------
(* The invariant.                                                          *)

LEMMA InitInv == Init => Inv
<1> SUFFICES ASSUME Init PROVE Inv
  OBVIOUS
<1>1. TypeOK
  BY IdleType DEF Init, TypeOK, Idle
<1>2. Issued = {} /\ Live = {}
  BY DEF Init, Issued, Live
<1>3. \A r \in Requests : req[r].step = "idle"
  BY DEF Init, Idle
<1>4. LockInv
  BY <1>3 DEF Init, LockInv
<1>5. RevocationInv
  BY <1>3 DEF RevocationInv
<1>6. QED
  BY <1>1, <1>2, <1>4, <1>5 DEF Inv, SessionInv, OneLiveToken

LEMMA NextInv == Inv /\ [Next]_vars => Inv'
<1> SUFFICES ASSUME Inv, [Next]_vars PROVE Inv'
  OBVIOUS
<1>1. CASE UNCHANGED vars
  BY <1>1 DEF vars, Inv, TypeOK, LockInv, SessionInv, RevocationInv,
              OneLiveToken, Issued, Live, IsLogin
<1>2. ASSUME NEW r \in Requests, Proceed(r) \/ Abort(r) PROVE Inv'
  BY <1>2, RotateInv, CommitRotationInv, CheckReplayInv, LockNextInv,
     CommitRevocationInv, AnswerInv, WriteLogoutInv, RollbackInv
     DEF Proceed, Abort, BreakDeadlock, Rollback
<1>3. QED
  BY <1>1, <1>2, LoginInv, PresentInv, TimeInv DEF Next

\* The row locks, the sessions and the replay detection stay consistent.
THEOREM Invariance == SafeSpec => []Inv
  BY InitInv, NextInv, PTL DEF SafeSpec

\* Every row and every request stays well formed: in particular a rotated
\* token belongs to somebody and a request under way presents an issued one.
THEOREM TokensTypeCorrect == SafeSpec => []TypeOK
<1>1. Inv => TypeOK
  BY DEF Inv
<1>2. QED
  BY <1>1, Invariance, PTL

\* Rotating a token replaces it and never forks the session, whatever is
\* presented at the same time: of two rotations of one token the second
\* waits for the row lock of the first and then finds the row revoked.
THEOREM OneLiveTokenCorrect == SafeSpec => []OneLiveToken
<1>1. Inv => OneLiveToken
  BY DEF Inv
<1>2. QED
  BY <1>1, Invariance, PTL

\* When refresh_token reports a replay, every token that was live when
\* revoke_all_for_user took its snapshot is revoked, also those that other
\* requests were rotating, and those whose rotation failed after all.
THEOREM DetectedTokensRevokedCorrect == SafeSpec => []DetectedTokensRevoked
<1>1. Inv => DetectedTokensRevoked
  BY DEF Inv, RevocationInv, DetectedTokensRevoked, Live
<1>2. QED
  BY <1>1, Invariance, PTL

-----------------------------------------------------------------------------
(* Deadlocks.                                                              *)

\* A request that another one waits for has locked a row, and if it waits
\* itself, it is a revocation.
LEMMA DeadlockedHolds ==
  ASSUME Inv, NEW s \in Requests, NEW q \in Requests, Waits(q, s),
         NEW p \in Requests, Waits(s, p)
  PROVE  req[s].step = "revoking"
<1>1. PICK t \in Tokens : holder[t] = s
  BY DEF Waits
<1>2. s # NULL
  BY TokensAssumption
<1>3. req[s].step \in {"inserting", "revoking"}
  BY <1>1, <1>2 DEF Inv, LockInv
<1>4. req[s].step \in {"rotating", "logging_out", "revoking"}
  BY DEF Waits
<1>5. QED
  BY <1>3, <1>4

\* In a deadlock each request waits for another revocation of its own user: it
\* has not reached the row yet that the other one has locked.  Rotations and
\* logouts lock one row and wait for none while they hold it.
THEOREM DeadlocksAreReplaysCorrect == SafeSpec => []DeadlocksAreReplays
<1>1. ASSUME Inv, NEW r \in Requests, Deadlocked(r)
      PROVE  /\ req[r].step = "revoking"
             /\ \E s \in Requests \ {r} :
                  /\ req[s].step = "revoking"
                  /\ token[req[s].token].user = token[req[r].token].user
  <2>1. PICK S \in SUBSET Requests :
          /\ r \in S
          /\ \A s \in S : (\E t \in S : Waits(s, t)) /\ (\E t \in S : Waits(t, s))
    BY <1>1 DEF Deadlocked
  <2>2. \A s \in S : req[s].step = "revoking"
    BY <1>1, <2>1, DeadlockedHolds
  <2>3. PICK s \in S : Waits(r, s)
    BY <2>1
  <2>4. s \in Requests /\ s # NULL /\ req[r].step = "revoking" /\ req[s].step = "revoking"
    BY <2>1, <2>2, TokensAssumption
  <2>5. PICK t \in Tokens : holder[t] = s /\ t \in req[r].todo
    BY <2>3, <2>4 DEF Waits
  <2>6. t \in req[s].seen /\ t \notin req[s].todo
    BY <1>1, <2>4, <2>5 DEF Inv, LockInv
  <2>7. s # r
    BY <2>5, <2>6
  <2>8. token[t].user = token[req[r].token].user
    BY <1>1, <2>4, <2>5 DEF Inv, RevocationInv
  <2>9. token[t].user = token[req[s].token].user
    BY <1>1, <2>4, <2>6 DEF Inv, RevocationInv
  <2>10. QED
    BY <2>4, <2>7, <2>8, <2>9
<1>2. Inv => DeadlocksAreReplays
  BY <1>1 DEF DeadlocksAreReplays
<1>3. QED
  BY <1>2, Invariance, PTL

-----------------------------------------------------------------------------
(* RefreshTokens implements Sessions.                                      *)

LEMMA SameSessionsStep ==
  ASSUME SameSessions
  PROVE  UNCHANGED <<Owner, Phase>>
<1>1. \A l \in Tokens : IsLogin(l)' <=> IsLogin(l)
  BY DEF SameSessions, IsLogin
<1>2. \A l \in Tokens : (\E t \in Live : token[t].login = l)'
                         <=> \E t \in Live : token[t].login = l
  BY DEF SameSessions, Live
<1>3. Owner' = Owner
  BY <1>1 DEF SameSessions, Owner, IsLogin
<1>4. Phase' = Phase
  BY <1>1, <1>2 DEF Phase
<1>5. QED
  BY <1>3, <1>4

\* A login is a new session.
LEMMA LoginStep ==
  ASSUME Inv, NEW u \in Users, Login(u)
  PROVE  Session!Next
<1>1. PICK t \in Tokens \ Issued :
        /\ Live' = Live \cup {t} /\ Issued' = Issued \cup {t}
        /\ token'[t].login = t /\ token'[t].user = u
        /\ \A s \in Issued : token'[s] = token[s]
  BY LoginInv
<1>2. IsLogin(t)' /\ ~IsLogin(t)
  BY <1>1 DEF IsLogin
<1>3. \A l \in Tokens : l # t => (IsLogin(l)' <=> IsLogin(l))
  BY <1>1 DEF IsLogin
<1>4. \A l \in Tokens : l # t => ((\E s \in Live : token[s].login = l)'
                                    <=> \E s \in Live : token[s].login = l)
  BY <1>1 DEF Live
<1>5. Owner' = [Owner EXCEPT ![t] = u]
  BY <1>1, <1>2, <1>3 DEF Owner, IsLogin
<1>6. Phase[t] = "none" /\ Phase' = [Phase EXCEPT ![t] = "live"]
  <2>1. (\E s \in Live : token[s].login = t)'
    BY <1>1
  <2>2. Phase[t] = "none" /\ Phase'[t] = "live"
    BY <1>2, <2>1 DEF Phase
  <2>3. \A l \in Tokens : l # t => Phase'[l] = Phase[l]
    BY <1>3, <1>4 DEF Phase
  <2>4. Phase \in [Tokens -> {"none", "live", "over"}]
        /\ Phase' \in [Tokens -> {"none", "live", "over"}]
    BY DEF Phase
  <2>5. QED
    BY <2>2, <2>3, <2>4
<1>7. QED
  BY <1>5, <1>6 DEF Session!Next, Session!Open

\* The successor takes the place of the rotated token.
LEMMA RotationStep ==
  ASSUME Inv, NEW r \in Requests, CommitRotation(r)
  PROVE  UNCHANGED <<Owner, Phase>>
<1>1. PICK t \in Live, n \in Tokens \ Issued :
        /\ Live' = (Live \ {t}) \cup {n} /\ Issued' = Issued \cup {n}
        /\ token'[n].login = token[t].login
        /\ \A x \in Issued : /\ token'[x].login = token[x].login
                             /\ token'[x].user = token[x].user
  BY CommitRotationInv
<1>2. token[t].login \in Issued
  BY DEF Inv, SessionInv, IsLogin, Live
<1>3. \A l \in Tokens : IsLogin(l)' <=> IsLogin(l)
  BY <1>1, <1>2 DEF IsLogin
<1>4. \A l \in Tokens : (\E x \in Live : token[x].login = l)'
                         <=> \E x \in Live : token[x].login = l
  BY <1>1 DEF Live
<1>5. Owner' = Owner
  BY <1>1, <1>3 DEF Owner, IsLogin
<1>6. Phase' = Phase
  BY <1>3, <1>4 DEF Phase
<1>7. QED
  BY <1>5, <1>6

\* Revoking live rows of one user ends the sessions that live in them.
LEMMA RevokeStep ==
  ASSUME Inv, NEW S, Revoke(S), \A x, y \in S : token[x].user = token[y].user
  PROVE  Session!Next
<1> DEFINE ended == {token[x].login : x \in S}
<1>1. /\ S \subseteq Live /\ Issued' = Issued /\ Live' = Live \ S
      /\ \A x \in Issued : /\ token'[x].login = token[x].login
                           /\ token'[x].user = token[x].user
  BY DEF Revoke, RowsKept
<1>2. \A x \in S : /\ IsLogin(token[x].login) /\ token[x].login \in Tokens
                   /\ token[token[x].login].user = token[x].user
  BY <1>1 DEF Inv, SessionInv, Live, IsLogin, Issued
<1>3. \A l \in ended : Phase[l] = "live"
  BY <1>1, <1>2 DEF Phase
<1>4. \A l, m \in ended : Owner[l] = Owner[m]
  BY <1>2 DEF Owner
<1>5. \A l \in Tokens : IsLogin(l)' <=> IsLogin(l)
  BY <1>1 DEF IsLogin
<1>6. Owner' = Owner
  BY <1>1, <1>5 DEF Owner, IsLogin
<1>7. \A l \in Tokens : (\E t \in Live : token[t].login = l)'
                         <=> l \notin ended /\ \E t \in Live : token[t].login = l
  <2>1. \A l \in Tokens : (\E t \in Live : token[t].login = l)'
                          <=> \E t \in Live \ S : token[t].login = l
    BY <1>1 DEF Live
  <2>2. \A t \in Live : token[t].login \in ended <=> t \in S
    BY <1>1 DEF Inv, OneLiveToken
  <2>3. QED
    BY <2>1, <2>2
<1>8. Phase' = [l \in Tokens |-> IF l \in ended THEN "over" ELSE Phase[l]]
  BY <1>2, <1>5, <1>7 DEF Phase
<1>9. ended \in SUBSET Tokens
  BY <1>2
<1>10. QED
  BY <1>3, <1>4, <1>6, <1>8, <1>9 DEF Session!Next, Session!End

\* Refreshing keeps a session alive and nothing else: one that was logged out
\* or revoked stays over, and no step ends sessions of two users.
THEOREM Implementation == SafeSpec => ImplementsSessions
<1>1. Init => Session!Init
  <2>1. Init => \A l \in Tokens : ~IsLogin(l)
    BY DEF Init, IsLogin, Issued
  <2>2. QED
    BY <2>1 DEF Session!Init, Owner, Phase
<1>2. Inv /\ [Next]_vars => [Session!Next]_<<Owner, Phase>>
  <2> SUFFICES ASSUME Inv, [Next]_vars PROVE [Session!Next]_<<Owner, Phase>>
    OBVIOUS
  <2>1. CASE UNCHANGED token
    BY <2>1, SameSessionsStep DEF SameSessions, Issued, Live
  <2>2. ASSUME NEW u \in Users, Login(u) PROVE Session!Next
    BY <2>2, LoginStep
  <2>3. ASSUME NEW r \in Requests, CommitRotation(r) PROVE UNCHANGED <<Owner, Phase>>
    BY <2>3, RotationStep
  <2>4. ASSUME NEW r \in Requests, CommitRevocation(r) \/ WriteLogout(r)
        PROVE  Session!Next
    BY <2>4, CommitRevocationInv, WriteLogoutInv, RevokeStep
  <2>5. ASSUME NEW t \in Tokens, GraceEnds(t) \/ Expire(t)
        PROVE  UNCHANGED <<Owner, Phase>>
    BY <2>5, TimeInv, SameSessionsStep
  <2>6. ASSUME NEW r \in Requests,
               Rotate(r) \/ CheckReplay(r) \/ LockNext(r) \/ Answer(r)
                 \/ BreakDeadlock(r) \/ Abort(r)
        PROVE  UNCHANGED token
    BY <2>6 DEF Rotate, CheckReplay, LockNext, Answer, BreakDeadlock, Abort, Rollback
  <2>7. ASSUME NEW r \in Requests, NEW t \in Tokens,
               Present(r, t) \/ CheckLogout(r, t)
        PROVE  UNCHANGED token
    BY <2>7 DEF Present, CheckLogout
  <2>8. CASE UNCHANGED vars
    BY <2>1, <2>8 DEF vars
  <2>9. QED
    BY <2>1, <2>2, <2>3, <2>4, <2>5, <2>6, <2>7, <2>8 DEF Next, Proceed
<1>3. QED
  BY <1>1, <1>2, Invariance, PTL DEF SafeSpec, ImplementsSessions, Session!Spec

-----------------------------------------------------------------------------
(* What a step does to the live tokens, and to their sessions.             *)

\* A login adds the first token of a session, a rotation replaces the token
\* it has locked, and nothing else makes a token live.
LiveChange ==
  /\ \A x \in Issued : token'[x].login = token[x].login
  /\ \/ Issued' = Issued /\ Live' \subseteq Live
     \/ \E n \in Tokens \ Issued :
          /\ Issued' = Issued \cup {n} /\ Live' = Live \cup {n}
          /\ token'[n].login = n
     \/ \E r \in Requests, n \in Tokens \ Issued :
          LET t == req[r].token
          IN  /\ req[r].step = "inserting"
              /\ t \in Live /\ token'[t].rotated
              /\ Issued' = Issued \cup {n}
              /\ Live' = (Live \ {t}) \cup {n}
              /\ token'[n].login = token[t].login

LEMMA LiveStep ==
  ASSUME Inv, [Next]_vars
  PROVE  LiveChange
<1>1. CASE UNCHANGED token
  BY <1>1 DEF LiveChange, Issued, Live
<1>2. ASSUME NEW u \in Users, Login(u) PROVE LiveChange
  <2>1. PICK n \in Tokens \ Issued :
          /\ Live' = Live \cup {n} /\ Issued' = Issued \cup {n}
          /\ token'[n].login = n
          /\ \A s \in Issued : token'[s] = token[s]
    BY <1>2, LoginInv
  <2>2. QED
    BY <2>1 DEF LiveChange
<1>3. ASSUME NEW r \in Requests, CommitRotation(r) PROVE LiveChange
  <2>1. PICK t \in Live, n \in Tokens \ Issued :
          /\ t = req[r].token /\ token'[t].rotated
          /\ Live' = (Live \ {t}) \cup {n} /\ Issued' = Issued \cup {n}
          /\ token'[n].login = token[t].login
          /\ \A x \in Issued : token'[x].login = token[x].login
    BY <1>3, CommitRotationInv
  <2>2. req[r].step = "inserting"
    BY <1>3 DEF CommitRotation
  <2>3. QED
    BY <2>1, <2>2 DEF LiveChange
<1>4. ASSUME NEW r \in Requests, CommitRevocation(r) \/ WriteLogout(r) PROVE LiveChange
  <2>1. PICK S : Revoke(S)
    BY <1>4, CommitRevocationInv, WriteLogoutInv
  <2>2. QED
    BY <2>1 DEF LiveChange, Revoke, RowsKept
<1>5. ASSUME NEW t \in Tokens, GraceEnds(t) \/ Expire(t) PROVE LiveChange
  <2>1. SameSessions
    BY <1>5, TimeInv
  <2>2. QED
    BY <2>1 DEF LiveChange, SameSessions
<1>6. ASSUME NEW r \in Requests,
             Rotate(r) \/ CheckReplay(r) \/ LockNext(r) \/ Answer(r)
               \/ BreakDeadlock(r) \/ Abort(r)
      PROVE  LiveChange
  <2>1. UNCHANGED token
    BY <1>6 DEF Rotate, CheckReplay, LockNext, Answer, BreakDeadlock, Abort, Rollback
  <2>2. QED
    BY <1>1, <2>1
<1>7. ASSUME NEW r \in Requests, NEW t \in Tokens,
             Present(r, t) \/ CheckLogout(r, t)
      PROVE  LiveChange
  <2>1. UNCHANGED token
    BY <1>7 DEF Present, CheckLogout
  <2>2. QED
    BY <1>1, <2>1
<1>8. CASE UNCHANGED vars
  <2>1. UNCHANGED token
    BY <1>8 DEF vars
  <2>2. QED
    BY <1>1, <2>1
<1>9. ASSUME NEW r \in Requests, Proceed(r) \/ Abort(r) PROVE LiveChange
  BY <1>3, <1>4, <1>6, <1>9 DEF Proceed
<1>10. QED
  BY <1>2, <1>5, <1>7, <1>8, <1>9 DEF Next, vars

\* A rotated row stays marked as rotated.
LEMMA RotatedKept ==
  ASSUME Inv, [Next]_vars, NEW x \in Issued, token[x].rotated
  PROVE  token'[x].rotated
<1>0. x \in Tokens /\ token[x] \in Token
  BY IssuedType DEF Inv, Issued
<1>1. CASE UNCHANGED token
  BY <1>1
<1>2. ASSUME NEW u \in Users, Login(u) PROVE token'[x].rotated
  BY <1>0, <1>2, LoginInv
<1>3. ASSUME NEW r \in Requests, CommitRotation(r) PROVE token'[x].rotated
  <2>1. PICK n \in Tokens \ Issued, late \in BOOLEAN :
          token' = [token EXCEPT ![n] = Successor(req[r].token),
                      ![req[r].token] = [token[req[r].token] EXCEPT
                         !.revoked = TRUE, !.rotated = TRUE, !.late = late]]
    BY <1>3 DEF CommitRotation, NextId
  <2>2. x # n
    OBVIOUS
  <2>3. CASE x = req[r].token
    <3>1. token'[x] = [token[x] EXCEPT !.revoked = TRUE, !.rotated = TRUE,
                                       !.late = late]
      BY <1>0, <2>1, <2>2, <2>3 DEF Inv, TypeOK
    <3>2. QED
      BY <1>0, <3>1 DEF Token
  <2>4. CASE x # req[r].token
    BY <1>0, <2>1, <2>2, <2>4 DEF Inv, TypeOK
  <2>5. QED
    BY <2>3, <2>4
<1>4. ASSUME NEW r \in Requests, CommitRevocation(r) PROVE token'[x].rotated
  BY <1>0, <1>4 DEF CommitRevocation, Token
<1>5. ASSUME NEW r \in Requests, WriteLogout(r) PROVE token'[x].rotated
  BY <1>0, <1>5 DEF WriteLogout, Inv, TypeOK, Token
<1>6. ASSUME NEW t \in Tokens, GraceEnds(t) \/ Expire(t) PROVE token'[x].rotated
  BY <1>0, <1>6 DEF GraceEnds, Expire, Inv, TypeOK, Token
<1>7. ASSUME NEW r \in Requests,
             Rotate(r) \/ CheckReplay(r) \/ LockNext(r) \/ Answer(r)
               \/ BreakDeadlock(r) \/ Abort(r)
      PROVE  UNCHANGED token
  BY <1>7 DEF Rotate, CheckReplay, LockNext, Answer, BreakDeadlock, Abort, Rollback
<1>8. ASSUME NEW r \in Requests, NEW t \in Tokens,
             Present(r, t) \/ CheckLogout(r, t)
      PROVE  UNCHANGED token
  BY <1>8 DEF Present, CheckLogout
<1>9. CASE UNCHANGED vars
  BY <1>1, <1>9 DEF vars
<1>10. QED
  BY <1>1, <1>2, <1>3, <1>4, <1>5, <1>6, <1>7, <1>8, <1>9 DEF Next, Proceed

-----------------------------------------------------------------------------
(* A token that was revoked and not rotated was the last of its session.   *)

Ended == {t \in Issued : token[t].revoked /\ ~token[t].rotated}

SessionOver == \A t \in Ended, s \in Live : token[s].login # token[t].login

LEMMA SessionOverStep ==
  ASSUME Inv, SessionOver, [Next]_vars
  PROVE  SessionOver'
<1> SUFFICES ASSUME NEW x \in Ended', NEW s \in Live'
             PROVE  token'[s].login # token'[x].login
  BY DEF SessionOver
<1>1. /\ \A y \in Issued : token'[y].login = token[y].login
      /\ \A y \in Issued : token[y].login \in Issued
      /\ Live \subseteq Issued /\ Live' \subseteq Issued'
  BY LiveStep DEF LiveChange, Inv, SessionInv, IsLogin, Live
<1>2. x \in Issued' /\ token'[x].revoked /\ ~token'[x].rotated /\ x \notin Live'
  BY DEF Ended, Live
<1>3. x \in Issued => x \in Ended \/ x \in Live
  BY <1>2, RotatedKept DEF Ended, Live
<1>4. s \in Live /\ x \in Issued => token'[s].login # token'[x].login
  BY <1>1, <1>2, <1>3 DEF SessionOver, Inv, OneLiveToken
<1>5. CASE Issued' = Issued /\ Live' \subseteq Live
  BY <1>2, <1>4, <1>5
<1>6. ASSUME NEW n \in Tokens \ Issued, Issued' = Issued \cup {n},
             Live' = Live \cup {n}, token'[n].login = n
      PROVE  token'[s].login # token'[x].login
  <2>1. x \in Issued
    BY <1>2, <1>6
  <2>2. QED
    BY <1>1, <1>4, <1>6, <2>1
<1>7. ASSUME NEW r \in Requests, NEW n \in Tokens \ Issued,
             req[r].token \in Live, token'[req[r].token].rotated,
             Issued' = Issued \cup {n},
             Live' = (Live \ {req[r].token}) \cup {n},
             token'[n].login = token[req[r].token].login
      PROVE  token'[s].login # token'[x].login
  <2>1. x \in Issued /\ x # req[r].token
    BY <1>2, <1>7
  <2>2. x \in Ended
    BY <1>2, <1>3, <1>7, <2>1
  <2>3. token'[n].login # token'[x].login
    BY <1>1, <1>7, <2>1, <2>2 DEF SessionOver
  <2>4. QED
    BY <1>4, <1>7, <2>1, <2>3
<1>8. QED
  BY <1>5, <1>6, <1>7, LiveStep DEF LiveChange

\* A logout ends the session it is called for, whatever rotations, logouts
\* and revocations overlap it, unless its token was rotated before it got
\* the row.
THEOREM LogoutEndsSessionCorrect == SafeSpec => LogoutEndsSession
<1>1. Init => SessionOver
  BY DEF Init, SessionOver, Ended, Issued
<1>2. Inv /\ SessionOver /\ [Next]_vars => SessionOver'
  BY SessionOverStep
<1>3. ASSUME Inv, SessionOver, [Next]_vars, NEW r \in Requests, WriteLogout(r),
             ~token[req[r].token].rotated, NEW s \in Live'
      PROVE  token'[s].login # token[req[r].token].login
  <2> DEFINE t == req[r].token
  <2>1. t \in Tokens /\ token[t] \in Token /\ t \in Issued
    BY <1>3, IssuedType DEF WriteLogout, Inv, TypeOK
  <2>2. token' = [token EXCEPT ![t] = [token[t] EXCEPT !.revoked = TRUE]]
    BY <1>3 DEF WriteLogout
  <2>3. token'[t].revoked
    <3>1. token \in [Tokens -> Token \cup {NotIssued}]
      BY <1>3 DEF Inv, TypeOK
    <3>2. token'[t] = [token[t] EXCEPT !.revoked = TRUE]
      BY <2>1, <2>2, <3>1
    <3>3. QED
      BY <2>1, <3>2 DEF Token
  <2>4. s # t /\ s \in Live /\ token'[s] = token[s]
    <3>1. s # t /\ s \in Tokens /\ token'[s] # NotIssued /\ ~token'[s].revoked
      BY <1>3, <2>3 DEF Live, Issued
    <3>2. token'[s] = token[s]
      BY <1>3, <2>2, <3>1 DEF Inv, TypeOK
    <3>3. QED
      BY <3>1, <3>2 DEF Live, Issued
  <2>5. CASE token[t].revoked
    BY <1>3, <2>1, <2>4, <2>5 DEF SessionOver, Ended
  <2>6. CASE ~token[t].revoked
    BY <1>3, <2>1, <2>4, <2>6 DEF Inv, OneLiveToken, Live
  <2>7. QED
    BY <2>5, <2>6
<1>4. Inv /\ SessionOver /\ [Next]_vars =>
        [\A r \in Requests :
           WriteLogout(r) /\ ~token[req[r].token].rotated
             => \A t \in Live' : token'[t].login # token[req[r].token].login]_vars
  BY <1>3
<1>5. QED
  BY <1>1, <1>2, <1>4, Invariance, PTL DEF SafeSpec, LogoutEndsSession

-----------------------------------------------------------------------------
(* "All sessions revoked": what a revocation matched were all live tokens  *)
(* of the sessions it found, and stays so unless one of them is rotated.   *)

SeenSessions ==
  \A r \in Requests : req[r].step \in {"revoking", "reported"} =>
    \A s \in req[r].seen, t \in Live :
      token[t].login = token[s].login => t \in req[r].seen

SeenChange(r) ==
  \/ /\ req[r].step \in {"revoking", "reported"}
     /\ req'[r].seen = req[r].seen
  \/ /\ UNCHANGED token
     /\ req'[r].seen = LiveOf(token[req[r].token].user)

LEMMA SeenKept ==
  ASSUME Inv, [Next]_vars, NEW r \in Requests,
         req'[r].step \in {"revoking", "reported"}
  PROVE  SeenChange(r)
<1>0. req \in [Requests -> Request]
  BY DEF Inv, TypeOK
<1>1. CASE UNCHANGED req
  BY <1>1 DEF SeenChange
<1>2. ASSUME NEW s \in Requests, Finish(s) PROVE SeenChange(r)
  BY <1>0, <1>2 DEF SeenChange, Finish, Idle
<1>3. ASSUME NEW s \in Requests, NEW t \in Tokens,
             Present(s, t) \/ CheckLogout(s, t)
      PROVE  SeenChange(r)
  <2>1. CASE s = r
    <3>1. CASE Present(s, t)
      BY <1>0, <2>1, <3>1 DEF Present, Idle
    <3>2. CASE CheckLogout(s, t)
      BY <1>0, <2>1, <3>2 DEF CheckLogout, Idle
    <3>3. QED
      BY <1>3, <3>1, <3>2
  <2>2. CASE s # r
    <3>1. req'[r] = req[r]
      BY <1>0, <1>3, <2>2 DEF Present, CheckLogout
    <3>2. QED
      BY <3>1 DEF SeenChange
  <2>3. QED
    BY <2>1, <2>2
<1>4. ASSUME NEW s \in Requests, Rotate(s) PROVE SeenChange(r)
  BY <1>0, <1>4 DEF SeenChange, Rotate, Request
<1>5. ASSUME NEW s \in Requests, CheckReplay(s) PROVE SeenChange(r)
  <2>1. CASE Finish(s)
    BY <1>2, <2>1
  <2>2. CASE req' = [req EXCEPT ![s].step = "revoking",
                       ![s].seen = LiveOf(token[req[s].token].user),
                       ![s].todo = RowsToRevoke(token[req[s].token].user)]
    BY <1>0, <1>5, <2>2 DEF SeenChange, CheckReplay, Request
  <2>3. QED
    BY <1>5, <2>1, <2>2 DEF CheckReplay
<1>6. ASSUME NEW s \in Requests, LockNext(s) PROVE SeenChange(r)
  BY <1>0, <1>6 DEF SeenChange, LockNext, Request
<1>7. ASSUME NEW s \in Requests, CommitRevocation(s) PROVE SeenChange(r)
  BY <1>0, <1>7 DEF SeenChange, CommitRevocation, Request
<1>8. ASSUME NEW s \in Requests,
             CommitRotation(s) \/ Answer(s) \/ WriteLogout(s) \/ Rollback(s)
      PROVE  SeenChange(r)
  <2>1. Finish(s)
    BY <1>8 DEF CommitRotation, Answer, WriteLogout, Rollback
  <2>2. QED
    BY <1>2, <2>1
<1>9. ASSUME NEW s \in Requests, Proceed(s) \/ Abort(s) PROVE SeenChange(r)
  BY <1>4, <1>5, <1>6, <1>7, <1>8, <1>9 DEF Proceed, BreakDeadlock, Abort
<1>10. CASE (\E u \in Users : Login(u)) \/ (\E t \in Tokens : GraceEnds(t) \/ Expire(t))
  <2>1. UNCHANGED req
    BY <1>10 DEF Login, GraceEnds, Expire
  <2>2. QED
    BY <1>1, <2>1
<1>11. CASE UNCHANGED vars
  BY <1>1, <1>11 DEF vars
<1>12. QED
  BY <1>3, <1>9, <1>10, <1>11 DEF Next, vars

LEMMA SeenSessionsStep ==
  ASSUME Inv, SeenSessions, NoRotationWhileRevoking, [Next]_vars
  PROVE  SeenSessions'
<1> SUFFICES ASSUME NEW r \in Requests,
                    req'[r].step \in {"revoking", "reported"},
                    NEW s \in req'[r].seen, NEW t \in Live',
                    token'[t].login = token'[s].login
             PROVE  t \in req'[r].seen
  BY DEF SeenSessions
<1>1. CASE UNCHANGED token /\ req'[r].seen = LiveOf(token[req[r].token].user)
  <2>1. t \in Live /\ token[t].login = token[s].login /\ s \in Live
    BY <1>1 DEF LiveOf, Live, Issued
  <2>2. t \in Issued /\ s \in Issued
    BY <2>1 DEF Live
  <2>3. token[t].user = token[s].user
    BY <2>1, <2>2 DEF Inv, SessionInv
  <2>4. QED
    BY <1>1, <2>1, <2>3 DEF LiveOf
<1>2. CASE /\ req[r].step \in {"revoking", "reported"}
           /\ req'[r].seen = req[r].seen
  <2>1. s \in Issued /\ token[s].login \in Issued
    BY <1>2 DEF Inv, RevocationInv, SessionInv, IsLogin
  <2>2. /\ \A x \in Issued : token'[x].login = token[x].login
        /\ Live \subseteq Issued
    BY LiveStep DEF LiveChange, Live
  <2>3. t \in Live => t \in req'[r].seen
    BY <1>2, <2>1, <2>2 DEF SeenSessions
  <2>4. ASSUME NEW n \in Tokens \ Issued, Live' = Live \cup {n},
               token'[n].login = n
        PROVE  t \in req'[r].seen
    BY <2>1, <2>2, <2>3, <2>4
  <2>5. ASSUME NEW q \in Requests, NEW n \in Tokens \ Issued,
               req[q].step = "inserting", req[q].token \in Live,
               Live' = (Live \ {req[q].token}) \cup {n},
               token'[n].login = token[req[q].token].login
        PROVE  t \in req'[r].seen
    <3>1. SUFFICES ASSUME t = n PROVE FALSE
      BY <2>3, <2>5
    <3>2. token[req[q].token].login = token[s].login
      BY <2>1, <2>2, <2>5, <3>1
    <3>3. req[q].token \in req[r].seen
      BY <1>2, <2>5, <3>2 DEF SeenSessions
    <3>4. req[r].step = "reported"
      BY <1>2, <2>5, <3>3 DEF NoRotationWhileRevoking
    <3>5. token[req[q].token].revoked
      BY <3>3, <3>4 DEF Inv, RevocationInv
    <3>6. QED
      BY <2>5, <3>5 DEF Live
  <2>6. QED
    BY <2>3, <2>4, <2>5, LiveStep DEF LiveChange
<1>3. QED
  BY <1>1, <1>2, SeenKept DEF SeenChange

\* After "Replay detected - all sessions revoked" no session that was live at
\* the detection has a live token, as long as no token the revocation has
\* matched is being rotated: other rotations, logins, logouts and
\* revocations may overlap it.
THEOREM AllSessionsRevokedUnlessRotatedMeanwhile ==
  SafeSpec /\ []NoRotationWhileRevoking => []AllSessionsRevoked
<1>1. Init => SeenSessions
  BY DEF Init, Idle, SeenSessions
<1>2. Inv /\ SeenSessions /\ NoRotationWhileRevoking /\ [Next]_vars
        => SeenSessions'
  BY SeenSessionsStep
<1>3. Inv /\ SeenSessions => AllSessionsRevoked
  <2> SUFFICES ASSUME Inv, SeenSessions, NEW r \in Requests,
                      req[r].step = "reported",
                      NEW s \in req[r].seen, NEW t \in Live,
                      token[t].login = token[s].login
               PROVE  FALSE
    BY DEF AllSessionsRevoked
  <2>1. t \in req[r].seen
    BY DEF SeenSessions
  <2>2. token[t].revoked
    BY <2>1 DEF Inv, RevocationInv
  <2>3. QED
    BY <2>2 DEF Live
<1>4. QED
  BY <1>1, <1>2, <1>3, Invariance, PTL DEF SafeSpec
=============================================================================
