--------------------------- MODULE AccountsProofs ----------------------------
(***************************************************************************)
(* Theorems about Accounts, for every value of its constants.              *)
(*                                                                         *)
(* Facts says what a request knows at each of its steps.  Most of it is    *)
(* about the request alone; that an account is there and that a state is   *)
(* gone stays true whatever other requests do, which is shown once.        *)
(***************************************************************************)
EXTENDS Accounts, FiniteSetTheorems, TLAPS

USE AccountsAssumption

\* Of a request q, when accounts are acc and states are st.
Facts(q, acc, st) ==
  /\ q \in Request
  /\ q.step = "inserting" => q.user \in Spellings
  /\ q.step \in {"inserting", "resetting"} => q.secret \in Secrets
  /\ q.step \in {"verified", "resetting", "clearing"} => q.user \in Users /\ acc[q.user] # NULL
  /\ q.step \in {"inserting", "clearing", "verified", "resetting"} => q.code = NULL
  /\ q.step \in {"deleting", "exchanging", "finding", "upserting"} => q.code \in Codes
  /\ q.code # NULL => q.state \in States
  /\ q.step \in {"finding", "upserting"} => q.user \in Subs
  /\ q.step \in {"exchanging", "finding", "upserting"} /\ ~q.holds => st[q.state] = "gone"
  /\ q.answer # NULL => q.step = "answered"
  /\ q.answer = "ok" /\ q.code # NULL => st[q.state] = "gone"

AllFacts(acc, st) == \A r \in Requests : Facts(req[r], acc, st)

\* Accounts are never deleted, and a state that is gone does not come back.
Lasting(acc, st) ==
  /\ \A u \in Users : account[u] # NULL => acc[u] # NULL
  /\ \A t \in States : state[t] = "gone" => st[t] = "gone"

\* A request that has not begun knows nothing.
LEMMA WaitingFacts ==
  ASSUME NEW acc, NEW st
  PROVE  Facts(Waiting, acc, st)
  BY DEF Facts, Waiting, Request

LEMMA AnsweredFacts ==
  ASSUME NEW acc, NEW st, NEW q \in Request, NEW a \in Answers, q.code # NULL => q.state \in States,
         a = "ok" /\ q.code # NULL => st[q.state] = "gone"
  PROVE  Facts(Answered(q, a), acc, st)
<1> DEFINE n == Answered(q, a)
<1>1. n.step = "answered" /\ n.answer = a /\ n.code = q.code /\ n.state = q.state
  BY DEF Answered, Waiting
<1>2. n \in Request
  BY ZenonT(60) DEF Answered, Waiting, Request, Answers
<1> HIDE DEF n
<1>3. Facts(n, acc, st)
  BY <1>1, <1>2 DEF Facts
<1> QED
  BY <1>3 DEF n

\* Facts last as what they are about does.
LEMMA FactsLast ==
  ASSUME NEW q, NEW acc, NEW st, Lasting(acc, st), Facts(q, account, state)
  PROVE  Facts(q, acc, st)
  BY DEF Facts, Lasting, Request

\* A change of one request.
LEMMA OneChanges ==
  ASSUME req \in [Requests -> Request], AllFacts(account, state), Lasting(account', state'),
         NEW r \in Requests, NEW q, Facts(q, account', state'), req' = [req EXCEPT ![r] = q]
  PROVE  /\ req' \in [Requests -> Request]
         /\ \A p \in Requests : Facts(req'[p], account', state')
<1>1. q \in Request
  BY DEF Facts
<1>2. \A p \in Requests : req'[p] = IF p = r THEN q ELSE req[p]
  OBVIOUS
<1>3. \A p \in Requests : Facts(req[p], account', state')
  BY FactsLast DEF AllFacts
<1> QED
  BY <1>1, <1>2, <1>3
-----------------------------------------------------------------------------
(* Types, the setup guard, and states.                                     *)

IInv ==
  /\ TypeOK
  /\ AllFacts(account, state)
  /\ GuardedUntilSetup

\* An answer of a request that does not report success.
LEMMA AnswerStays ==
  ASSUME IInv, Lasting(account', state'), NEW r \in Requests, NEW a \in Answers,
         a = "ok" => req[r].code = NULL, Answer(r, a)
  PROVE  req' \in [Requests -> Request] /\ AllFacts(account, state)'
<1>1. req[r] \in Request /\ Facts(req[r], account, state)
  BY DEF IInv, TypeOK, AllFacts
<1>2. req[r].code # NULL => req[r].state \in States
  BY <1>1 DEF Facts
<1>3. Facts(Answered(req[r], a), account', state')
  BY <1>1, <1>2, AnsweredFacts
<1>4. req' = [req EXCEPT ![r] = Answered(req[r], a)]
  BY DEF Answer, Become
<1> QED
  BY <1>3, <1>4, OneChanges DEF IInv, TypeOK, AllFacts

\* A request that begins behind the setup guard.
LEMMA BehindStays ==
  ASSUME IInv, Lasting(account', state'), NEW r \in Requests, NEW n \in Instances,
         NEW q, Facts(q, account', state'), Behind(r, n, q)
  PROVE  req' \in [Requests -> Request] /\ AllFacts(account, state)'
<1>1. q \in Request /\ (q.code # NULL => q.state \in States)
  BY DEF Facts
<1>2. Facts(Answered(q, "guarded"), account', state')
  BY <1>1, AnsweredFacts DEF Answers
<1>3. req' = [req EXCEPT ![r] = Answered(q, "guarded")] \/ req' = [req EXCEPT ![r] = q]
  BY DEF Behind, Become
<1> QED
  BY <1>2, <1>3, OneChanges DEF IInv, TypeOK, AllFacts

LEMMA RegisterStays ==
  ASSUME IInv, NEW r \in Requests, NEW n \in Instances, NEW u \in Spellings, NEW s \in Secrets,
         Register(r, n, u, s)
  PROVE  req' \in [Requests -> Request] /\ AllFacts(account, state)'
<1> DEFINE q == [Waiting EXCEPT !.step = "inserting", !.at = n, !.user = u, !.secret = s]
<1>1. UNCHANGED <<account, state>> /\ Lasting(account', state')
  BY DEF Register, Lasting
<1>2. q \in Request /\ q.code = NULL
  BY DEF Waiting, Request, Users
<1>3. Facts(q, account, state)
  BY <1>2 DEF Facts, Waiting
<1> HIDE DEF q
<1>4. \A a \in {"taken", "failed"} : Facts(Answered(q, a), account, state)
  BY <1>2, AnsweredFacts DEF Answers
<1>5. req' = [req EXCEPT ![r] = q] \/ \E a \in {"taken", "failed"} :
                                        req' = [req EXCEPT ![r] = Answered(q, a)]
  BY DEF Register, Become, q
<1> QED
  BY <1>1, <1>3, <1>4, <1>5, OneChanges DEF IInv, TypeOK, AllFacts

\* The account a request is about, and what it will store.
LEMMA AccountFacts ==
  ASSUME NEW n \in Instances, NEW u \in Spellings, NEW v \in Found(u), NEW s \in Secrets,
         NEW b \in BOOLEAN, NEW st \in {"verified", "resetting"}
  PROVE  LET p == [Waiting EXCEPT !.step = st, !.at = n, !.secret = s]
         IN  /\ Facts([p EXCEPT !.user = v, !.right = b], account, state)
             /\ Facts([p EXCEPT !.user = v], account, state)
<1> DEFINE p == [Waiting EXCEPT !.step = st, !.at = n, !.secret = s]
           q == [p EXCEPT !.user = v, !.right = b]
           o == [p EXCEPT !.user = v]
<1>1. v \in Users /\ account[v] # NULL
  BY DEF Found, Users
<1>2. p \in Request /\ p.step = st /\ p.secret = s /\ p.code = NULL /\ p.answer = NULL
  BY DEF Waiting, Request
<1> HIDE DEF p
<1>3. /\ q \in Request /\ q.step = st /\ q.user = v /\ q.secret = s /\ q.code = NULL
      /\ q.answer = NULL
  BY <1>1, <1>2 DEF Request
<1>4. /\ o \in Request /\ o.step = st /\ o.user = v /\ o.secret = s /\ o.code = NULL
      /\ o.answer = NULL
  BY <1>1, <1>2 DEF Request
<1> HIDE DEF q, o
<1>5. Facts(q, account, state) /\ Facts(o, account, state)
  BY <1>1, <1>3, <1>4 DEF Facts
<1> QED
  BY <1>5 DEF q, o, p

LEMMA LoginStays ==
  ASSUME IInv, NEW r \in Requests, NEW n \in Instances, NEW u \in Spellings, NEW s \in Secrets,
         Login(r, n, u, s) \/ ResetPassword(r, n, u, s)
  PROVE  req' \in [Requests -> Request] /\ AllFacts(account, state)'
<1>1. UNCHANGED <<account, state>> /\ Lasting(account', state')
  BY DEF Login, ResetPassword, Lasting
<1> SUFFICES ASSUME NEW q, Facts(q, account, state), Behind(r, n, q)
             PROVE  req' \in [Requests -> Request] /\ AllFacts(account, state)'
  <2>1. ASSUME NEW st \in {"verified", "resetting"}, NEW a \in {"refused", "failed", "locked"}
        PROVE  Facts(Answered([Waiting EXCEPT !.step = st, !.at = n, !.secret = s], a),
                     account, state)
    <3>1. [Waiting EXCEPT !.step = st, !.at = n, !.secret = s] \in Request
          /\ [Waiting EXCEPT !.step = st, !.at = n, !.secret = s].code = NULL
      BY DEF Waiting, Request
    <3> QED
      BY <3>1, AnsweredFacts DEF Answers
  <2>2. ASSUME Login(r, n, u, s) PROVE \E q : Facts(q, account, state) /\ Behind(r, n, q)
    <3> DEFINE p == [Waiting EXCEPT !.step = "verified", !.at = n, !.secret = s]
    <3>1. CASE \E a \in {"refused", "failed", "locked"} : Behind(r, n, Answered(p, a))
      BY <2>1, <3>1
    <3>2. CASE \E v \in Found(u) :
                 Behind(r, n, [p EXCEPT !.user = v, !.right = (account[v].secret = s)])
      <4>1. PICK v \in Found(u) :
                 Behind(r, n, [p EXCEPT !.user = v, !.right = (account[v].secret = s)])
        BY <3>2
      <4>2. (account[v].secret = s) \in BOOLEAN
        OBVIOUS
      <4>4. Facts([p EXCEPT !.user = v, !.right = (account[v].secret = s)], account, state)
        BY <4>2, AccountFacts
      <4> QED
        BY <4>1, <4>4
    <3> HIDE DEF p
    <3> QED
      BY <2>2, <3>1, <3>2 DEF Login, p
  <2>3. ASSUME ResetPassword(r, n, u, s) PROVE \E q : Facts(q, account, state) /\ Behind(r, n, q)
    <3> DEFINE p == [Waiting EXCEPT !.step = "resetting", !.at = n, !.secret = s]
    <3>1. CASE \E a \in {"refused", "failed", "locked"} : Behind(r, n, Answered(p, a))
      BY <2>1, <3>1
    <3>2. CASE \E v \in Found(u) : Behind(r, n, [p EXCEPT !.user = v])
      <4>1. PICK v \in Found(u) : Behind(r, n, [p EXCEPT !.user = v])
        BY <3>2
      <4>3. Facts([p EXCEPT !.user = v], account, state)
        BY AccountFacts
      <4> QED
        BY <4>1, <4>3
    <3> HIDE DEF p
    <3> QED
      BY <2>3, <3>1, <3>2 DEF ResetPassword, p
  <2> QED
    BY <2>2, <2>3
<1> QED
  BY <1>1, BehindStays
\* What a login makes of an account.
LEMMA AfterLogin ==
  ASSUME NEW a \in User
  PROVE  /\ AfterRight(a) \in User /\ AfterRight(a).attempts = 0 /\ AfterRight(a).lock = "none"
         /\ AfterWrong(a) \in User /\ AfterWrong(a).attempts = a.attempts + 1
         /\ AfterWrong(a).lock = IF a.attempts + 1 >= Limit /\ a.lock = "none" THEN "on"
                                 ELSE a.lock
<1> DEFINE l == IF a.attempts + 1 >= Limit /\ a.lock = "none" THEN "on" ELSE a.lock
           n == a.attempts + 1
<1>1. AfterRight(a) = [a EXCEPT !.attempts = 0, !.lock = "none"]
  BY DEF AfterRight
<1>2. AfterWrong(a) = [a EXCEPT !.attempts = n, !.lock = l]
  BY DEF AfterWrong, ReachesLimit, User
<1>3. l \in {"none", "on", "lapsed"} /\ n \in Nat
  BY DEF User
<1>6. [a EXCEPT !.attempts = 0, !.lock = "none"] \in User
  BY DEF User
<1>7. [a EXCEPT !.attempts = 0, !.lock = "none"].attempts = 0
      /\ [a EXCEPT !.attempts = 0, !.lock = "none"].lock = "none"
  BY DEF User
<1>4. AfterRight(a) \in User /\ AfterRight(a).attempts = 0 /\ AfterRight(a).lock = "none"
  BY <1>1, <1>6, <1>7
<1> HIDE DEF l, n
<1>5. AfterWrong(a) \in User /\ AfterWrong(a).attempts = n /\ AfterWrong(a).lock = l
  BY <1>2, <1>3 DEF User
<1> QED
  BY <1>4, <1>5 DEF l, n

\* Accounts and states last through every step.
LEMMA NextLasting ==
  ASSUME IInv, Next
  PROVE  Lasting(account', state')
<1>1. account \in [Users -> User \cup {NULL}] /\ state \in [States -> {"none", "fresh", "expired", "gone"}]
  BY DEF IInv, TypeOK
<1>2. CASE UNCHANGED <<account, state>>
  BY <1>2 DEF Lasting
<1>3. ASSUME NEW u, NEW a, a # NULL, account' = [account EXCEPT ![u] = a], UNCHANGED state
      PROVE  Lasting(account', state')
  BY <1>1, <1>3 DEF Lasting
<1>4. ASSUME NEW t, NEW a, state' = [state EXCEPT ![t] = a], UNCHANGED account,
             a = "gone" \/ (t \in States => state[t] # "gone")
      PROVE  Lasting(account', state')
  BY <1>1, <1>4 DEF Lasting
<1>5. ASSUME NEW r \in Requests, InsertAccount(r) PROVE Lasting(account', state')
  <2>1. [secret |-> req[r].secret, attempts |-> 0, lock |-> "none"] \in User
    <3>1. req[r].secret \in Secrets
      BY <1>5 DEF InsertAccount, IInv, AllFacts, Facts
    <3> QED
      BY <3>1 DEF User
  <2> QED
    BY <1>2, <1>3, <1>5, <2>1 DEF InsertAccount
<1>6. ASSUME NEW r \in Requests, RecordLogin(r) \/ StorePassword(r)
      PROVE Lasting(account', state')
  <2>1. req[r].user \in Users /\ account[req[r].user] \in User
    BY <1>1, <1>6 DEF RecordLogin, StorePassword, IInv, AllFacts, Facts
  <2>2. AfterRight(account[req[r].user]) \in User /\ AfterWrong(account[req[r].user]) \in User
    BY <2>1, AfterLogin
  <2>3. StorePassword(r) => [account[req[r].user] EXCEPT !.secret = req[r].secret] \in User
    BY <2>1 DEF StorePassword, IInv, AllFacts, Facts, User
  <2>4. RecordLogin(r) => Lasting(account', state')
    BY <1>3, <2>2 DEF RecordLogin
  <2>5. StorePassword(r) => account' = [account EXCEPT ![req[r].user] =
                                          [account[req[r].user] EXCEPT !.secret = req[r].secret]]
    BY <1>1, <2>1 DEF StorePassword
  <2>6. StorePassword(r) => Lasting(account', state')
    BY <1>3, <2>3, <2>5 DEF StorePassword
  <2> QED
    BY <1>6, <2>4, <2>6
<1>7. ASSUME NEW u \in Users, LockLapses(u) PROVE Lasting(account', state')
  <2>1. [account[u] EXCEPT !.lock = "lapsed"] \in User
    BY <1>1, <1>7 DEF LockLapses, User
  <2>2. account' = [account EXCEPT ![u] = [account[u] EXCEPT !.lock = "lapsed"]]
    BY <1>1, <1>7 DEF LockLapses
  <2> QED
    BY <1>3, <1>7, <2>1, <2>2 DEF LockLapses
<1>8. ASSUME NEW r \in Requests, UpsertUser(r) PROVE Lasting(account', state')
  <2>1. \A t \in States : state[t] = "gone" => Spent(req[r])[t] = "gone"
    BY <1>1 DEF Spent
  <2>2. [secret |-> NULL, attempts |-> 0, lock |-> "none"] \in User
    BY DEF User
  <2>3. CASE UNCHANGED <<account, state>>
    BY <1>2, <2>3
  <2>4. CASE ~UNCHANGED <<account, state>>
    BY <1>1, <1>8, <2>1, <2>2, <2>4 DEF UpsertUser, Lasting
  <2> QED
    BY <2>3, <2>4
<1>9. ASSUME NEW r \in Requests, NEW n, NEW t \in States, StartGoogle(r, n, t)
      PROVE  Lasting(account', state')
  BY <1>1, <1>9 DEF StartGoogle, Lasting
<1>10. ASSUME NEW t \in States, StateExpires(t) PROVE Lasting(account', state')
  BY <1>4, <1>10 DEF StateExpires
<1>11. ASSUME NEW r \in Requests, DeleteState(r) PROVE Lasting(account', state')
  BY <1>2, <1>4, <1>11 DEF DeleteState
<1>12. ASSUME NEW r \in Requests, NEW n \in Instances, NEW u, NEW s,
              Register(r, n, u, s) \/ Login(r, n, u, s) \/ ResetPassword(r, n, u, s)
       PROVE  Lasting(account', state')
  BY <1>2, <1>12 DEF Register, Login, ResetPassword
<1>13. ASSUME NEW r \in Requests, NEW n \in Instances, NEW t, NEW c, Callback(r, n, t, c)
       PROVE  Lasting(account', state')
  BY <1>2, <1>13 DEF Callback
<1>14. ASSUME NEW r \in Requests, ClearGuard(r) \/ Exchange(r) \/ FindUser(r)
       PROVE  Lasting(account', state')
  BY <1>2, <1>14 DEF ClearGuard, Exchange, FindUser
<1>15. ASSUME NEW n \in Instances, Restart(n) PROVE Lasting(account', state')
  BY <1>2, <1>15 DEF Restart
<1> QED
  BY <1>5, <1>6, <1>7, <1>8, <1>9, <1>10, <1>11, <1>12, <1>13, <1>14, <1>15 DEF Next, Step
\* Steps that store something about an account.
LEMMA AccountStepStays ==
  ASSUME IInv, NEW r \in Requests,
         InsertAccount(r) \/ ClearGuard(r) \/ RecordLogin(r) \/ StorePassword(r),
         Lasting(account', state')
  PROVE  req' \in [Requests -> Request] /\ AllFacts(account, state)'
<1>1. req[r] \in Request /\ Facts(req[r], account, state)
  BY DEF IInv, TypeOK, AllFacts
<1>2. req[r].step \in {"inserting", "clearing", "verified", "resetting"} /\ req[r].code = NULL
  BY <1>1 DEF InsertAccount, ClearGuard, RecordLogin, StorePassword, Facts
<1>3. CASE \E a \in {"ok", "failed", "refused"} : Answer(r, a)
  BY <1>2, <1>3, AnswerStays DEF Answers
<1>4. CASE InsertAccount(r) /\ req' = [req EXCEPT ![r].step = "clearing"]
  <2> DEFINE q == [req[r] EXCEPT !.step = "clearing"]
  <2>1. q \in Request /\ q.step = "clearing" /\ q.user = req[r].user /\ q.code = NULL
        /\ q.answer = req[r].answer
    BY <1>1, <1>2 DEF Request
  <2>2. req' = [req EXCEPT ![r] = q]
    BY <1>4
  <2> HIDE DEF q
  <2>3. req[r].user \in Spellings /\ req[r].answer = NULL /\ req[r].secret \in Secrets
    BY <1>1, <1>4 DEF InsertAccount, Facts
  <2>4. q.user \in Users /\ account'[q.user] # NULL
    <3>1. q.user \in Users
      BY <2>1, <2>3 DEF Users
    <3>2. [secret |-> req[r].secret, attempts |-> 0, lock |-> "none"] \in User
      BY <2>3 DEF User
    <3>3. \/ account[q.user] # NULL
          \/ account' = [account EXCEPT ![q.user] =
                           [secret |-> req[r].secret, attempts |-> 0, lock |-> "none"]]
      BY <1>4, <2>1 DEF InsertAccount
    <3> QED
      BY <3>1, <3>2, <3>3 DEF Lasting, IInv, TypeOK
  <2>5. Facts(q, account', state')
    BY <2>1, <2>3, <2>4 DEF Facts
  <2> QED
    BY <2>2, <2>5, OneChanges DEF IInv, TypeOK, AllFacts
<1> QED
  BY <1>3, <1>4 DEF InsertAccount, ClearGuard, RecordLogin, StorePassword

\* Steps of a sign-in with Google.
LEMMA GoogleBeginStays ==
  ASSUME IInv, NEW r \in Requests, NEW n \in Instances, NEW t \in States,
         StartGoogle(r, n, t) \/ \E c \in Codes : Callback(r, n, t, c),
         Lasting(account', state')
  PROVE  req' \in [Requests -> Request] /\ AllFacts(account, state)'
<1>1. CASE StartGoogle(r, n, t)
  <2> DEFINE w == [Waiting EXCEPT !.at = n, !.state = t]
  <2>1. w \in Request /\ w.code = NULL
    BY DEF Waiting, Request
  <2>2. Facts(Answered(w, "ok"), account', state')
    BY <2>1, AnsweredFacts DEF Answers
  <2> QED
    BY <1>1, <2>2, BehindStays DEF StartGoogle
<1>2. CASE \E c \in Codes : Callback(r, n, t, c)
  <2>1. PICK c \in Codes : Callback(r, n, t, c)
    BY <1>2
  <2> DEFINE b == (state[t] = "fresh")
             q == [Waiting EXCEPT !.step = "deleting", !.at = n, !.state = t, !.code = c,
                                  !.right = b]
  <2>2. b \in BOOLEAN
    OBVIOUS
  <2>3. Behind(r, n, q) \/ Behind(r, n, Answered(q, "refused"))
    BY <2>1 DEF Callback
  <2> HIDE DEF b
  <2>4. q \in Request /\ q.step = "deleting" /\ q.state = t /\ q.code = c /\ q.answer = NULL
    BY <2>2 DEF Waiting, Request
  <2> HIDE DEF q
  <2>5. Facts(q, account', state') /\ Facts(Answered(q, "refused"), account', state')
    <3>1. Facts(q, account', state')
      BY <2>4 DEF Facts, Answers
    <3>2. Facts(Answered(q, "refused"), account', state')
      BY <2>4, AnsweredFacts DEF Answers
    <3> QED
      BY <3>1, <3>2
  <2> QED
    BY <2>3, <2>5, BehindStays
<1> QED
  BY <1>1, <1>2

\* What a callback carries from step to step.
LEMMA CallbackFacts ==
  ASSUME IInv, NEW r \in Requests, req[r].step \in {"deleting", "exchanging", "finding", "upserting"}
  PROVE  /\ req[r] \in Request /\ req[r].code \in Codes /\ req[r].state \in States
         /\ req[r].answer = NULL
  BY DEF IInv, TypeOK, AllFacts, Facts

LEMMA DeleteStateStays ==
  ASSUME IInv, NEW r \in Requests, DeleteState(r), Lasting(account', state')
  PROVE  req' \in [Requests -> Request] /\ AllFacts(account, state)'
<1>1. /\ req[r] \in Request /\ req[r].code \in Codes /\ req[r].state \in States
      /\ req[r].answer = NULL
  BY CallbackFacts DEF DeleteState
<1>2. CASE Answer(r, "refused")
  BY <1>2, AnswerStays DEF Answers
<1>3. CASE ~Answer(r, "refused")
  <2> DEFINE b == (state[req[r].state] # "gone")
             q == [req[r] EXCEPT !.step = "exchanging", !.holds = b]
  <2>1. req' = [req EXCEPT ![r] = q] /\ UNCHANGED state
    BY <1>3 DEF DeleteState
  <2>2. b \in BOOLEAN /\ (~b => state'[req[r].state] = "gone")
    BY <2>1
  <2> HIDE DEF b
  <2>3. q \in Request /\ q.step = "exchanging" /\ q.state = req[r].state /\ q.code = req[r].code
        /\ q.answer = NULL /\ q.holds = b
    BY <1>1, <2>2, ZenonT(60) DEF Request
  <2> HIDE DEF q
  <2>4. Facts(q, account', state')
    BY <1>1, <2>2, <2>3 DEF Facts, Answers
  <2> QED
    BY <2>1, <2>4, OneChanges DEF IInv, TypeOK, AllFacts
<1> QED
  BY <1>2, <1>3

LEMMA ExchangeStays ==
  ASSUME IInv, NEW r \in Requests, Exchange(r) \/ FindUser(r), Lasting(account', state')
  PROVE  req' \in [Requests -> Request] /\ AllFacts(account, state)'
<1>1. /\ req[r] \in Request /\ req[r].code \in Codes /\ req[r].state \in States
      /\ req[r].answer = NULL
  BY CallbackFacts DEF Exchange, FindUser
<1>2. Facts(req[r], account, state) /\ UNCHANGED state
  BY DEF IInv, AllFacts, Exchange, FindUser
<1>3. CASE Answer(r, "failed")
  BY <1>3, AnswerStays DEF Answers
<1>4. ASSUME NEW q \in Request, q.step \in {"finding", "upserting"}, q.state = req[r].state,
             q.code = req[r].code, q.answer = NULL, q.holds = req[r].holds, q.user \in Subs,
             req' = [req EXCEPT ![r] = q], req[r].step \in {"exchanging", "finding"}
      PROVE  req' \in [Requests -> Request] /\ AllFacts(account, state)'
  <2>1. ~q.holds => state'[q.state] = "gone"
    BY <1>2, <1>4 DEF Facts
  <2>2. Facts(q, account', state')
    BY <1>1, <1>4, <2>1 DEF Facts, Answers
  <2> QED
    BY <1>4, <2>2, OneChanges DEF IInv, TypeOK, AllFacts
<1>5. CASE Exchange(r) /\ ~Answer(r, "failed")
  <2>1. PICK g \in Subs : req' = [req EXCEPT ![r].step = "finding", ![r].user = g]
    BY <1>5 DEF Exchange
  <2> DEFINE q == [req[r] EXCEPT !.step = "finding", !.user = g]
  <2>2. /\ q \in Request /\ q.step = "finding" /\ q.state = req[r].state
        /\ q.code = req[r].code /\ q.answer = NULL /\ q.holds = req[r].holds /\ q.user = g
    BY <1>1, ZenonT(60) DEF Request, Users
  <2>3. req' = [req EXCEPT ![r] = q]
    BY <2>1
  <2> QED
    BY <1>4, <1>5, <2>2, <2>3 DEF Exchange
<1>6. CASE FindUser(r)
  <2> DEFINE b == (account[req[r].user] # NULL)
             q == [req[r] EXCEPT !.step = "upserting", !.known = b]
  <2>1. req' = [req EXCEPT ![r] = q] /\ req[r].step = "finding" /\ b \in BOOLEAN
    BY <1>6 DEF FindUser
  <2>2. req[r].user \in Subs
    BY <1>2, <2>1 DEF Facts
  <2> HIDE DEF b
  <2>3. /\ q \in Request /\ q.step = "upserting" /\ q.state = req[r].state
        /\ q.code = req[r].code /\ q.answer = NULL /\ q.holds = req[r].holds
        /\ q.user = req[r].user
    BY <1>1, <2>1, ZenonT(60) DEF Request
  <2> QED
    BY <1>4, <2>1, <2>2, <2>3
<1> QED
  BY <1>3, <1>5, <1>6

LEMMA UpsertUserStays ==
  ASSUME IInv, NEW r \in Requests, UpsertUser(r), Lasting(account', state')
  PROVE  req' \in [Requests -> Request] /\ AllFacts(account, state)'
<1>1. /\ req[r] \in Request /\ req[r].code \in Codes /\ req[r].state \in States
      /\ req[r].answer = NULL
  BY CallbackFacts DEF UpsertUser
<1>2. CASE Answer(r, "failed")
  BY <1>2, AnswerStays DEF Answers
<1>3. CASE Answer(r, "ok") /\ state' = Spent(req[r])
  <2>1. ~req[r].holds => state[req[r].state] = "gone"
    BY DEF IInv, AllFacts, Facts, UpsertUser
  <2>2. state'[req[r].state] = "gone"
    BY <1>1, <1>3, <2>1 DEF Spent, IInv, TypeOK
  <2>3. Facts(Answered(req[r], "ok"), account', state')
    BY <1>1, <2>2, AnsweredFacts DEF Answers
  <2> QED
    BY <1>3, <2>3, OneChanges DEF Answer, Become, IInv, TypeOK, AllFacts
<1> QED
  BY <1>2, <1>3 DEF UpsertUser
\* All steps: what requests know.
LEMMA FactsStay ==
  ASSUME IInv, Next
  PROVE  req' \in [Requests -> Request] /\ AllFacts(account, state)'
<1>1. Lasting(account', state')
  BY NextLasting
<1>2. CASE \E n \in Instances : Restart(n)
  <2>1. PICK n \in Instances : Restart(n)
    BY <1>2
  <2>2. ASSUME NEW r \in Requests
        PROVE  /\ Facts(req[r], account', state')
               /\ Facts(Answered(req[r], "lost"), account', state')
    <3>1. Facts(req[r], account, state) /\ req[r] \in Request
      BY DEF IInv, AllFacts, TypeOK
    <3>2. req[r].code # NULL => req[r].state \in States
      BY <3>1 DEF Facts
    <3> QED
      BY <1>1, <3>1, <3>2, FactsLast, AnsweredFacts DEF Answers
  <2>3. \A r \in Requests : Facts(req'[r], account', state')
    BY <2>1, <2>2 DEF Restart
  <2>4. \A r \in Requests : req'[r] \in Request
    BY <2>3 DEF Facts
  <2>5. req' = [r \in Requests |-> req'[r]]
    BY <2>1 DEF Restart
  <2> QED
    BY <2>3, <2>4, <2>5 DEF AllFacts
<1>3. CASE UNCHANGED req
  <2>1. \A r \in Requests : Facts(req[r], account', state')
    BY <1>1, FactsLast DEF IInv, AllFacts
  <2> QED
    BY <1>3, <2>1 DEF IInv, TypeOK, AllFacts
<1>4. ASSUME NEW r \in Requests, Step(r)
      PROVE  req' \in [Requests -> Request] /\ AllFacts(account, state)'
  BY <1>1, <1>4, AccountStepStays, DeleteStateStays, ExchangeStays, UpsertUserStays DEF Step
<1>5. ASSUME NEW r \in Requests, NEW n \in Instances, NEW u \in Spellings, NEW s \in Secrets,
             Register(r, n, u, s) \/ Login(r, n, u, s) \/ ResetPassword(r, n, u, s)
      PROVE  req' \in [Requests -> Request] /\ AllFacts(account, state)'
  BY <1>5, RegisterStays, LoginStays
<1>6. ASSUME NEW r \in Requests, NEW n \in Instances, NEW t \in States,
             StartGoogle(r, n, t) \/ \E c \in Codes : Callback(r, n, t, c)
      PROVE  req' \in [Requests -> Request] /\ AllFacts(account, state)'
  BY <1>1, <1>6, GoogleBeginStays
<1>7. (\E u \in Users : LockLapses(u)) \/ (\E t \in States : StateExpires(t)) => UNCHANGED req
  BY DEF LockLapses, StateExpires
<1> QED
  BY <1>2, <1>3, <1>4, <1>5, <1>6, <1>7 DEF Next

\* Types of the tables.
LEMMA AccountTypes ==
  ASSUME IInv, Next
  PROVE  /\ account' \in [Users -> User \cup {NULL}]
         /\ state' \in [States -> {"none", "fresh", "expired", "gone"}]
<1>1. account \in [Users -> User \cup {NULL}] /\ state \in [States -> {"none", "fresh", "expired", "gone"}]
  BY DEF IInv, TypeOK
<1>2. CASE UNCHANGED <<account, state>>
  BY <1>1, <1>2
<1>3. ASSUME NEW r \in Requests, InsertAccount(r)
      PROVE  account' \in [Users -> User \cup {NULL}] /\ UNCHANGED state
  <2>1. [secret |-> req[r].secret, attempts |-> 0, lock |-> "none"] \in User
    <3>1. req[r].secret \in Secrets
      BY <1>3 DEF InsertAccount, IInv, AllFacts, Facts
    <3> QED
      BY <3>1 DEF User
  <2> QED
    BY <1>1, <1>3, <2>1 DEF InsertAccount
<1>4. ASSUME NEW r \in Requests, RecordLogin(r) \/ StorePassword(r)
      PROVE  account' \in [Users -> User \cup {NULL}] /\ UNCHANGED state
  <2>1. req[r].user \in Users /\ account[req[r].user] \in User
    BY <1>1, <1>4 DEF RecordLogin, StorePassword, IInv, AllFacts, Facts
  <2>2. AfterRight(account[req[r].user]) \in User /\ AfterWrong(account[req[r].user]) \in User
    BY <2>1, AfterLogin
  <2>3. StorePassword(r) => [account[req[r].user] EXCEPT !.secret = req[r].secret] \in User
    BY <2>1 DEF StorePassword, IInv, AllFacts, Facts, User
  <2>4. RecordLogin(r) => account' \in [Users -> User \cup {NULL}]
    BY <1>1, <2>1, <2>2 DEF RecordLogin
  <2>5. StorePassword(r) => account' = [account EXCEPT ![req[r].user] =
                                          [account[req[r].user] EXCEPT !.secret = req[r].secret]]
    BY <1>1, <2>1 DEF StorePassword
  <2> QED
    BY <1>1, <1>4, <2>3, <2>4, <2>5 DEF RecordLogin, StorePassword
<1>5. ASSUME NEW u \in Users, LockLapses(u)
      PROVE  account' \in [Users -> User \cup {NULL}] /\ UNCHANGED state
  <2>1. [account[u] EXCEPT !.lock = "lapsed"] \in User
    BY <1>1, <1>5 DEF LockLapses, User
  <2>2. account' = [account EXCEPT ![u] = [account[u] EXCEPT !.lock = "lapsed"]]
    BY <1>1, <1>5 DEF LockLapses
  <2> QED
    BY <1>1, <1>5, <2>1, <2>2 DEF LockLapses
<1>6. ASSUME NEW r \in Requests, UpsertUser(r)
      PROVE  /\ account' \in [Users -> User \cup {NULL}]
             /\ state' \in [States -> {"none", "fresh", "expired", "gone"}]
  <2>1. [secret |-> NULL, attempts |-> 0, lock |-> "none"] \in User
    BY DEF User
  <2>2. Spent(req[r]) \in [States -> {"none", "fresh", "expired", "gone"}]
    BY <1>1 DEF Spent
  <2>3. account' = account \/ account' = [account EXCEPT ![req[r].user] =
          IF req[r].known THEN @ ELSE [secret |-> NULL, attempts |-> 0, lock |-> "none"]]
    BY <1>6 DEF UpsertUser
  <2>4. account' \in [Users -> User \cup {NULL}]
    BY <1>1, <2>1, <2>3
  <2> QED
    BY <1>1, <1>6, <2>2, <2>4 DEF UpsertUser
<1>7. ASSUME NEW r \in Requests, DeleteState(r)
      PROVE  UNCHANGED account /\ state' \in [States -> {"none", "fresh", "expired", "gone"}]
  BY <1>1, <1>7 DEF DeleteState
<1>8. ASSUME NEW t \in States, StateExpires(t) \/ \E r \in Requests, n \in Instances : StartGoogle(r, n, t)
      PROVE  UNCHANGED account /\ state' \in [States -> {"none", "fresh", "expired", "gone"}]
  BY <1>1, <1>8 DEF StateExpires, StartGoogle
<1>9. ASSUME NEW r \in Requests, NEW n \in Instances, NEW u, NEW s,
              Register(r, n, u, s) \/ Login(r, n, u, s) \/ ResetPassword(r, n, u, s)
       PROVE  UNCHANGED <<account, state>>
  BY <1>9 DEF Register, Login, ResetPassword
<1>10. ASSUME NEW r \in Requests, NEW n \in Instances, NEW t, NEW c, Callback(r, n, t, c)
       PROVE  UNCHANGED <<account, state>>
  BY <1>10 DEF Callback
<1>11. ASSUME NEW r \in Requests, ClearGuard(r) \/ Exchange(r) \/ FindUser(r)
       PROVE  UNCHANGED <<account, state>>
  BY <1>11 DEF ClearGuard, Exchange, FindUser
<1>12. ASSUME NEW n \in Instances, Restart(n) PROVE UNCHANGED <<account, state>>
  BY <1>12 DEF Restart
<1> QED
  BY <1>1, <1>2, <1>3, <1>4, <1>5, <1>6, <1>7, <1>8, <1>9, <1>10, <1>11, <1>12 DEF Next, Step

LEMMA OtherTypes ==
  ASSUME IInv, Next
  PROVE  spent' \subseteq Codes /\ guard' \in [Instances -> BOOLEAN]
<1>1. spent \subseteq Codes /\ guard \in [Instances -> BOOLEAN]
  BY DEF IInv, TypeOK
<1>2. ASSUME NEW r \in Requests, Exchange(r) PROVE spent' \subseteq Codes /\ UNCHANGED guard
  <2>1. req[r].code \in Codes
    BY <1>2, CallbackFacts DEF Exchange
  <2> QED
    BY <1>1, <1>2, <2>1 DEF Exchange
<1>3. ASSUME NEW r \in Requests, ClearGuard(r)
      PROVE  UNCHANGED spent /\ guard' \in [Instances -> BOOLEAN]
  BY <1>1, <1>3 DEF ClearGuard
<1>4. ASSUME NEW n \in Instances, Restart(n)
      PROVE  UNCHANGED spent /\ guard' \in [Instances -> BOOLEAN]
  BY <1>1, <1>4 DEF Restart, NoUsers
<1>5. ASSUME NEW r \in Requests, InsertAccount(r) \/ RecordLogin(r) \/ StorePassword(r) \/ DeleteState(r)
      PROVE  UNCHANGED <<spent, guard>>
  BY <1>5 DEF InsertAccount, RecordLogin, StorePassword, DeleteState
<1>6. ASSUME NEW r \in Requests, FindUser(r) \/ UpsertUser(r)
      PROVE  UNCHANGED <<spent, guard>>
  BY <1>6 DEF FindUser, UpsertUser
<1>7. ASSUME NEW r \in Requests, NEW n \in Instances, NEW u, NEW s,
              Register(r, n, u, s) \/ Login(r, n, u, s) \/ ResetPassword(r, n, u, s)
       PROVE  UNCHANGED <<spent, guard>>
  BY <1>7 DEF Register, Login, ResetPassword
<1>8. ASSUME NEW r \in Requests, NEW n \in Instances, NEW t,
              StartGoogle(r, n, t) \/ \E c \in Codes : Callback(r, n, t, c)
       PROVE  UNCHANGED <<spent, guard>>
  BY <1>8 DEF StartGoogle, Callback
<1>9. ASSUME NEW u, LockLapses(u) \/ StateExpires(u) PROVE UNCHANGED <<spent, guard>>
  BY <1>9 DEF LockLapses, StateExpires
<1> QED
  BY <1>1, <1>2, <1>3, <1>4, <1>5, <1>6, <1>7, <1>8, <1>9 DEF Next, Step

\* No instance is open before there is a user.
LEMMA GuardStays ==
  ASSUME IInv, Next
  PROVE  GuardedUntilSetup'
<1> SUFFICES ASSUME NEW n \in Instances, ~guard'[n]
             PROVE  \E u \in Users : account'[u] # NULL
  BY DEF GuardedUntilSetup
<1>1. \A u \in Users : account[u] # NULL => account'[u] # NULL
  BY NextLasting DEF Lasting
<1>2. CASE guard'[n] = guard[n]
  BY <1>1, <1>2 DEF IInv, GuardedUntilSetup
<1>3. ASSUME NEW r \in Requests, ClearGuard(r) PROVE \E u \in Users : account'[u] # NULL
  BY <1>1, <1>3 DEF ClearGuard, IInv, AllFacts, Facts
<1>4. ASSUME NEW m \in Instances, Restart(m) PROVE \E u \in Users : account'[u] # NULL
  <2>1. guard'[n] = IF m = n THEN NoUsers ELSE guard[n]
    BY <1>4 DEF Restart, IInv, TypeOK
  <2>2. CASE m = n
    BY <1>1, <2>1, <2>2 DEF NoUsers
  <2>3. CASE m # n
    BY <1>2, <2>1, <2>3
  <2> QED
    BY <2>2, <2>3
<1>5. ASSUME NEW r \in Requests, InsertAccount(r) \/ RecordLogin(r) \/ StorePassword(r) \/ DeleteState(r)
      PROVE  UNCHANGED guard
  BY <1>5 DEF InsertAccount, RecordLogin, StorePassword, DeleteState
<1>6. ASSUME NEW r \in Requests, FindUser(r) \/ UpsertUser(r) \/ Exchange(r)
      PROVE  UNCHANGED guard
  BY <1>6 DEF FindUser, UpsertUser, Exchange
<1>7. ASSUME NEW r \in Requests, NEW m \in Instances, NEW u, NEW s,
              Register(r, m, u, s) \/ Login(r, m, u, s) \/ ResetPassword(r, m, u, s)
       PROVE  UNCHANGED guard
  BY <1>7 DEF Register, Login, ResetPassword
<1>8. ASSUME NEW r \in Requests, NEW m \in Instances, NEW t,
              StartGoogle(r, m, t) \/ \E c \in Codes : Callback(r, m, t, c)
       PROVE  UNCHANGED guard
  BY <1>8 DEF StartGoogle, Callback
<1>9. ASSUME NEW u, LockLapses(u) \/ StateExpires(u) PROVE UNCHANGED guard
  BY <1>9 DEF LockLapses, StateExpires
<1> QED
  BY <1>2, <1>3, <1>4, <1>5, <1>6, <1>7, <1>8, <1>9 DEF Next, Step

LEMMA InitInvariant ==
  ASSUME Init
  PROVE  IInv
<1>1. \A r \in Requests : Facts(req[r], account, state) /\ req[r] \in Request
  BY WaitingFacts DEF Init, Facts
<1> QED
  BY <1>1 DEF Init, IInv, TypeOK, AllFacts, GuardedUntilSetup

LEMMA NextInvariant ==
  ASSUME IInv, [Next]_vars
  PROVE  IInv'
<1>1. CASE Next
  BY <1>1, FactsStay, AccountTypes, OtherTypes, GuardStays DEF IInv, TypeOK
<1>2. CASE UNCHANGED vars
  BY <1>2 DEF vars, IInv, TypeOK, AllFacts, GuardedUntilSetup
<1> QED
  BY <1>1, <1>2

LEMMA Invariant == Spec => []IInv
  BY InitInvariant, NextInvariant, PTL DEF Spec

\* Every variable keeps its type (users, oauth_states, SETUP_REQUIRED).
THEOREM TypeCorrect == Spec => []TypeOK
<1>1. IInv => TypeOK
  BY DEF IInv
<1> QED
  BY <1>1, Invariant, PTL

\* setup_guard_middleware and check_and_set_setup_required, on any number of
\* instances that restart at any moment: none opens before a first account.
THEOREM SetupComesFirst == Spec => []GuardedUntilSetup
<1>1. IInv => GuardedUntilSetup
  BY DEF IInv
<1> QED
  BY <1>1, Invariant, PTL

\* A state that signed somebody in stays deleted, whatever the transactions of
\* other callbacks with the same state do.
THEOREM StatesStaySpent == Spec => []StatesSpent
<1>1. IInv => StatesSpent
  BY DEF IInv, AllFacts, Facts, StatesSpent
<1> QED
  BY <1>1, Invariant, PTL

-----------------------------------------------------------------------------
(* Guesses.  When an account is locked at most k requests are past the     *)
(* check of its lock, the one that locked it among them; until the lock    *)
(* lapses no other passes, and each counts one failure.                    *)

Within(u, k) ==
  /\ account[u].lock = "none" => account[u].attempts < Limit
  /\ account[u].lock = "on" => account[u].attempts + Cardinality(Past(u)) < Limit + k

AllWithin(k) == \A u \in Users : account[u] # NULL => Within(u, k)

FewRun == Cardinality(Running) <= MaxActive

\* What a step of request r has made of account u.
Counted(r, u) ==
  \/ /\ account[u] # NULL
     /\ account'[u].lock = account[u].lock /\ account'[u].attempts = account[u].attempts
  \/ account'[u].lock = "none" /\ account'[u].attempts = 0
  \/ account[u] # NULL /\ r \in Past(u) /\ account'[u] = AfterWrong(account[u])

\* A request begins, and is past the check only of an account not locked.
Begins(r) ==
  /\ MayBegin(r) /\ account' = account
  /\ \A p \in Requests \ {r} : req'[p] = req[p]
  /\ req'[r].step = "verified" => account[req'[r].user].lock # "on"

Goes(r) ==
  /\ r \in Running
  /\ \A p \in Requests \ {r} : req'[p] = req[p]
  /\ req'[r].step # "verified"
  /\ \A u \in Users : account'[u] # NULL => Counted(r, u)

Passes ==
  /\ \A p \in Requests : req'[p] = req[p] \/ req'[p].step = "answered"
  /\ \A u \in Users : account'[u] = account[u] \/ account'[u].lock = "lapsed"

LEMMA BehindBegins ==
  ASSUME IInv, NEW r \in Requests, NEW n, NEW q, Behind(r, n, q), account' = account,
         q.step = "verified" => account[q.user].lock # "on"
  PROVE  Begins(r)
<1>1. req' = [req EXCEPT ![r] = q] \/ req' = [req EXCEPT ![r] = Answered(q, "guarded")]
  BY DEF Behind, Become
<1>2. Answered(q, "guarded").step = "answered"
  BY DEF Answered, Waiting
<1>3. req \in [Requests -> Request] /\ MayBegin(r)
  BY DEF IInv, TypeOK, Behind
<1>. QED  BY <1>1, <1>2, <1>3 DEF Begins

LEMMA AnsweredStep == \A q, a : Answered(q, a).step = "answered"
  BY DEF Answered, Waiting

LEMMA RequestBegins ==
  ASSUME IInv, NEW r \in Requests, NEW n \in Instances,
         \/ \E u \in Spellings, s \in Secrets :
              Register(r, n, u, s) \/ Login(r, n, u, s) \/ ResetPassword(r, n, u, s)
         \/ \E t \in States : StartGoogle(r, n, t) \/ \E c \in Codes : Callback(r, n, t, c)
  PROVE  Begins(r)
<1>0. req \in [Requests -> Request]
  BY DEF IInv, TypeOK
<1>1. ASSUME NEW u \in Spellings, NEW s \in Secrets, Register(r, n, u, s) PROVE Begins(r)
  <2>. DEFINE q == [Waiting EXCEPT !.step = "inserting", !.at = n, !.user = u, !.secret = s]
  <2>1. q.step = "inserting"
    BY DEF Waiting
  <2>. HIDE DEF q
  <2>2. \E a : req' = [req EXCEPT ![r] = q] \/ req' = [req EXCEPT ![r] = Answered(q, a)]
    BY <1>1 DEF Register, Become, q
  <2>. QED  BY <1>0, <1>1, <2>1, <2>2, AnsweredStep DEF Register, Begins
<1>2. ASSUME NEW u \in Spellings, NEW s \in Secrets, Login(r, n, u, s) PROVE Begins(r)
  <2>. DEFINE q == [Waiting EXCEPT !.step = "verified", !.at = n, !.secret = s]
  <2>1. account' = account
    BY <1>2 DEF Login
  <2>2. ASSUME NEW a, Behind(r, n, Answered(q, a)) PROVE Begins(r)
    BY <2>1, <2>2, AnsweredStep, BehindBegins
  <2>3. ASSUME NEW v, account[v].lock # "on",
               Behind(r, n, [q EXCEPT !.user = v, !.right = (account[v].secret = s)])
        PROVE  Begins(r)
    <3>1. [q EXCEPT !.user = v, !.right = (account[v].secret = s)].user = v
      BY DEF Waiting
    <3>. QED  BY <2>1, <2>3, <3>1, BehindBegins
  <2>. HIDE DEF q
  <2>4. \/ \E a : Behind(r, n, Answered(q, a))
        \/ \E v : account[v].lock # "on"
                 /\ Behind(r, n, [q EXCEPT !.user = v, !.right = (account[v].secret = s)])
    BY <1>2, Zenon DEF Login, q
  <2>. QED  BY <2>2, <2>3, <2>4
<1>3. ASSUME NEW u \in Spellings, NEW s \in Secrets, ResetPassword(r, n, u, s) PROVE Begins(r)
  <2>. DEFINE q == [Waiting EXCEPT !.step = "resetting", !.at = n, !.secret = s]
  <2>1. account' = account
    BY <1>3 DEF ResetPassword
  <2>2. ASSUME NEW a, Behind(r, n, Answered(q, a)) PROVE Begins(r)
    BY <2>1, <2>2, AnsweredStep, BehindBegins
  <2>3. ASSUME NEW v, Behind(r, n, [q EXCEPT !.user = v]) PROVE Begins(r)
    <3>1. [q EXCEPT !.user = v].step = "resetting"
      BY DEF Waiting
    <3>. QED  BY <2>1, <2>3, <3>1, BehindBegins
  <2>. HIDE DEF q
  <2>4. (\E a : Behind(r, n, Answered(q, a))) \/ \E v : Behind(r, n, [q EXCEPT !.user = v])
    BY <1>3, Zenon DEF ResetPassword, q
  <2>. QED  BY <2>2, <2>3, <2>4
<1>4. ASSUME NEW t \in States, StartGoogle(r, n, t) PROVE Begins(r)
  BY <1>4, AnsweredStep, BehindBegins DEF StartGoogle
<1>5. ASSUME NEW t \in States, NEW c \in Codes, Callback(r, n, t, c) PROVE Begins(r)
  <2>. DEFINE q == [Waiting EXCEPT !.step = "deleting", !.at = n, !.state = t, !.code = c,
                                   !.right = (state[t] = "fresh")]
  <2>1. q.step = "deleting"
    BY DEF Waiting
  <2>. HIDE DEF q
  <2>2. account' = account /\ (Behind(r, n, q) \/ Behind(r, n, Answered(q, "refused")))
    BY <1>5 DEF Callback, q
  <2>. QED  BY <2>1, <2>2, AnsweredStep, BehindBegins
<1>. QED  BY <1>1, <1>2, <1>3, <1>4, <1>5

\* An answer, with the accounts as they were or as the step left them.
LEMMA AnswerGoes ==
  ASSUME IInv, NEW r \in Running, NEW a, Answer(r, a),
         \A u \in Users : account'[u] # NULL => Counted(r, u)
  PROVE  Goes(r)
<1>1. req \in [Requests -> Request] /\ r \in Requests
  BY DEF IInv, TypeOK, Running
<1>. QED  BY <1>1, AnsweredStep DEF Answer, Become, Goes

LEMMA StepGoes ==
  ASSUME IInv, NEW r \in Requests, Step(r)
  PROVE  Goes(r)
<1>0. /\ req \in [Requests -> Request] /\ account \in [Users -> User \cup {NULL}]
      /\ Facts(req[r], account, state)
  BY DEF IInv, TypeOK, AllFacts
<1>1. r \in Running
  BY DEF Step, InsertAccount, ClearGuard, RecordLogin, StorePassword, DeleteState, Exchange,
         FindUser, UpsertUser, Running
<1>2. ASSUME account' = account
      PROVE  \A u \in Users : account'[u] # NULL => Counted(r, u)
  BY <1>2 DEF Counted
<1>3. ASSUME InsertAccount(r) PROVE Goes(r)
  <2>1. CASE account[req[r].user] # NULL
    BY <1>1, <1>2, <1>3, <2>1, AnswerGoes DEF InsertAccount
  <2>2. CASE account[req[r].user] = NULL
    <3>1. account' = [account EXCEPT ![req[r].user] =
                        [secret |-> req[r].secret, attempts |-> 0, lock |-> "none"]]
          /\ req' = [req EXCEPT ![r].step = "clearing"]
      BY <1>3, <2>2 DEF InsertAccount
    <3>2. \A u \in Users : account'[u] # NULL => Counted(r, u)
      BY <1>0, <3>1 DEF Counted
    <3>3. req'[r].step = "clearing" /\ \A p \in Requests \ {r} : req'[p] = req[p]
      BY <1>0, <3>1 DEF Request
    <3>. QED  BY <1>1, <3>2, <3>3 DEF Goes
  <2>. QED  BY <2>1, <2>2
<1>4. ASSUME ClearGuard(r) PROVE Goes(r)
  BY <1>1, <1>2, <1>4, AnswerGoes DEF ClearGuard
<1>5. ASSUME RecordLogin(r) PROVE Goes(r)
  <2>. DEFINE w == req[r].user
  <2>1. w \in Users /\ account[w] # NULL /\ account[w] \in User /\ r \in Past(w)
    BY <1>0, <1>5 DEF RecordLogin, Facts, Past
  <2>2. \/ account' = [account EXCEPT ![w] = AfterRight(account[w])]
        \/ account' = [account EXCEPT ![w] = AfterWrong(account[w])]
    BY <1>5 DEF RecordLogin
  <2>3. \A u \in Users : account'[u] # NULL => Counted(r, u)
    <3>. SUFFICES ASSUME NEW u \in Users, account'[u] # NULL PROVE Counted(r, u)
      OBVIOUS
    <3>1. CASE u # w
      BY <1>0, <2>2, <3>1 DEF Counted
    <3>2. CASE u = w
      BY <1>0, <2>1, <2>2, <3>2, AfterLogin DEF Counted
    <3>. QED  BY <3>1, <3>2
  <2>4. \E a : Answer(r, a)
    BY <1>5 DEF RecordLogin
  <2>. QED  BY <1>1, <2>3, <2>4, AnswerGoes
<1>6. ASSUME StorePassword(r) PROVE Goes(r)
  <2>. DEFINE w == req[r].user
  <2>1. w \in Users /\ account[w] # NULL /\ account[w] \in User
    BY <1>0, <1>6 DEF StorePassword, Facts
  <2>2. account' = [account EXCEPT ![w] = [account[w] EXCEPT !.secret = req[r].secret]]
    BY <1>6 DEF StorePassword
  <2>3. /\ [account[w] EXCEPT !.secret = req[r].secret].lock = account[w].lock
        /\ [account[w] EXCEPT !.secret = req[r].secret].attempts = account[w].attempts
    BY <2>1 DEF User
  <2>4. \A u \in Users : account'[u] # NULL => Counted(r, u)
    BY <1>0, <2>1, <2>2, <2>3 DEF Counted
  <2>. QED  BY <1>1, <1>6, <2>4, AnswerGoes DEF StorePassword
<1>7. ASSUME DeleteState(r) PROVE Goes(r)
  <2>1. account' = account
    BY <1>7 DEF DeleteState
  <2>2. CASE Answer(r, "refused")
    BY <1>1, <1>2, <2>1, <2>2, AnswerGoes
  <2>3. CASE req' = [req EXCEPT ![r].step = "exchanging",
                                ![r].holds = (state[req[r].state] # "gone")]
    <3>1. req'[r].step = "exchanging" /\ \A p \in Requests \ {r} : req'[p] = req[p]
      BY <1>0, <2>3 DEF Request
    <3>. QED  BY <1>1, <1>2, <2>1, <3>1 DEF Goes
  <2>. QED  BY <1>7, <2>2, <2>3 DEF DeleteState
<1>8. ASSUME Exchange(r) PROVE Goes(r)
  <2>1. account' = account
    BY <1>8 DEF Exchange
  <2>2. CASE Answer(r, "failed")
    BY <1>1, <1>2, <2>1, <2>2, AnswerGoes
  <2>3. ASSUME NEW g \in Subs, req' = [req EXCEPT ![r].step = "finding", ![r].user = g]
        PROVE  Goes(r)
    <3>1. req'[r].step = "finding" /\ \A p \in Requests \ {r} : req'[p] = req[p]
      BY <1>0, <2>3 DEF Request
    <3>. QED  BY <1>1, <1>2, <2>1, <3>1 DEF Goes
  <2>. QED  BY <1>8, <2>2, <2>3 DEF Exchange
<1>9. ASSUME FindUser(r) PROVE Goes(r)
  <2>1. req'[r].step = "upserting" /\ \A p \in Requests \ {r} : req'[p] = req[p]
    BY <1>0, <1>9 DEF FindUser, Request
  <2>2. account' = account
    BY <1>9 DEF FindUser
  <2>. QED  BY <1>1, <1>2, <2>1, <2>2 DEF Goes
<1>10. ASSUME UpsertUser(r) PROVE Goes(r)
  <2>1. \A u \in Users : account'[u] # NULL => Counted(r, u)
    BY <1>0, <1>10 DEF UpsertUser, Counted
  <2>2. \E a : Answer(r, a)
    BY <1>10 DEF UpsertUser
  <2>. QED  BY <1>1, <2>1, <2>2, AnswerGoes
<1>. QED  BY <1>3, <1>4, <1>5, <1>6, <1>7, <1>8, <1>9, <1>10 DEF Step

LEMMA RestPasses ==
  ASSUME IInv,
         \/ \E n \in Instances : Restart(n)
         \/ \E u \in Users : LockLapses(u)
         \/ \E t \in States : StateExpires(t)
         \/ UNCHANGED vars
  PROVE  Passes
<1>0. account \in [Users -> User \cup {NULL}]
  BY DEF IInv, TypeOK
<1>1. ASSUME NEW n \in Instances, Restart(n) PROVE Passes
  BY <1>1, AnsweredStep DEF Restart, Passes
<1>2. ASSUME NEW u \in Users, LockLapses(u) PROVE Passes
  <2>1. account' = [account EXCEPT ![u] = [account[u] EXCEPT !.lock = "lapsed"]]
    BY <1>2 DEF LockLapses
  <2>2. [account[u] EXCEPT !.lock = "lapsed"].lock = "lapsed"
    BY <1>0, <1>2 DEF LockLapses, User
  <2>. QED  BY <1>0, <1>2, <2>1, <2>2 DEF LockLapses, Passes
<1>3. ASSUME UNCHANGED <<account, req>> PROVE Passes
  BY <1>3 DEF Passes
<1>. QED  BY <1>1, <1>2, <1>3 DEF StateExpires, vars

\* The sets counted are finite.
LEMMA PastCounts ==
  ASSUME NEW u
  PROVE  /\ IsFiniteSet(Running) /\ Cardinality(Running) \in Nat
         /\ IsFiniteSet(Past(u)) /\ Cardinality(Past(u)) \in Nat
         /\ Cardinality(Past(u)) <= Cardinality(Running)
<1>1. Running \subseteq Requests /\ Past(u) \subseteq Running
  BY DEF Past, Running
<1>. QED  BY <1>1, FS_Subset, FS_CardinalityType DEF AccountsAssumption

\* A set that gains at most r, and one that loses r.
LEMMA OneMore ==
  ASSUME NEW S, NEW T, NEW r, IsFiniteSet(S), T \subseteq S \cup {r}
  PROVE  Cardinality(T) \in Nat /\ Cardinality(T) <= Cardinality(S) + 1
<1>1. IsFiniteSet(S \cup {r}) /\ Cardinality(S \cup {r}) \in {Cardinality(S), Cardinality(S) + 1}
  BY FS_AddElement
<1>2. Cardinality(T) <= Cardinality(S \cup {r}) /\ IsFiniteSet(T)
  BY <1>1, FS_Subset
<1>. QED  BY <1>1, <1>2, FS_CardinalityType

LEMMA OneLess ==
  ASSUME NEW S, NEW T, NEW r \in S, IsFiniteSet(S), T \subseteq S \ {r}
  PROVE  Cardinality(T) \in Nat /\ Cardinality(T) <= Cardinality(S) - 1
<1>1. IsFiniteSet(S \ {r}) /\ Cardinality(S \ {r}) = Cardinality(S) - 1
  BY FS_RemoveElement
<1>2. Cardinality(T) <= Cardinality(S \ {r}) /\ IsFiniteSet(T)
  BY <1>1, FS_Subset
<1>. QED  BY <1>1, <1>2, FS_CardinalityType

LEMMA NoMore ==
  ASSUME NEW S, NEW T, IsFiniteSet(S), T \subseteq S
  PROVE  Cardinality(T) \in Nat /\ Cardinality(T) <= Cardinality(S)
  BY FS_Subset, FS_CardinalityType

LEMMA RunningStays ==
  ASSUME IInv, Cardinality(Running) <= MaxActive,
         (\E r \in Requests : Begins(r) \/ Goes(r)) \/ Passes
  PROVE  Cardinality(Running)' <= MaxActive
<1>0. IsFiniteSet(Running) /\ Cardinality(Running) \in Nat /\ MaxActive \in Nat
  BY PastCounts DEF AccountsAssumption
<1>1. ASSUME NEW r \in Requests, Begins(r) PROVE Cardinality(Running)' <= MaxActive
  <2>1. Running' \subseteq Running \cup {r}
    BY <1>1 DEF Begins, Running
  <2>2. Cardinality(Running) < MaxActive
    BY <1>1 DEF Begins, MayBegin
  <2>3. Cardinality(Running') \in Nat /\ Cardinality(Running') <= Cardinality(Running) + 1
    BY <1>0, <2>1, OneMore
  <2>. QED  BY <1>0, <2>2, <2>3
<1>2. ASSUME NEW r \in Requests, Goes(r) PROVE Cardinality(Running)' <= MaxActive
  <2>1. Running' \subseteq Running
    BY <1>2 DEF Goes, Running
  <2>2. Cardinality(Running') \in Nat /\ Cardinality(Running') <= Cardinality(Running)
    BY <1>0, <2>1, NoMore
  <2>. QED  BY <1>0, <2>2
<1>3. ASSUME Passes PROVE Cardinality(Running)' <= MaxActive
  <2>1. Running' \subseteq Running
    BY <1>3 DEF Passes, Running
  <2>2. Cardinality(Running') \in Nat /\ Cardinality(Running') <= Cardinality(Running)
    BY <1>0, <2>1, NoMore
  <2>. QED  BY <1>0, <2>2
<1>. QED  BY <1>1, <1>2, <1>3

LEMMA WithinStays ==
  ASSUME NEW k \in Nat, IInv, AllWithin(k), PastAtMost(k),
         (\E r \in Requests : Begins(r) \/ Goes(r)) \/ Passes,
         NEW u \in Users, account'[u] # NULL
  PROVE  Within(u, k)'
<1>0. /\ IsFiniteSet(Past(u)) /\ Cardinality(Past(u)) \in Nat /\ Limit \in Nat \ {0}
      /\ Cardinality(Past(u)) <= k
      /\ account[u] # NULL => account[u] \in User
  BY PastCounts DEF AccountsAssumption, PastAtMost, IInv, TypeOK
<1>1. ASSUME NEW r \in Requests, Begins(r) PROVE Within(u, k)'
  <2>1. account' = account /\ Within(u, k)
    BY <1>1 DEF Begins, AllWithin
  <2>2. ASSUME account[u].lock = "on"
        PROVE  account[u].attempts + Cardinality(Past(u))' < Limit + k
    <3>1. Past(u)' \subseteq Past(u)
      BY <1>1, <2>2 DEF Begins, Past
    <3>2. Cardinality(Past(u))' \in Nat /\ Cardinality(Past(u))' <= Cardinality(Past(u))
      BY <1>0, <3>1, NoMore
    <3>3. account[u].attempts \in Nat
      BY <1>0, <2>1 DEF User
    <3>. QED  BY <1>0, <2>1, <2>2, <3>2, <3>3 DEF Within
  <2>. QED  BY <2>1, <2>2 DEF Within
<1>2. ASSUME NEW r \in Requests, Goes(r) PROVE Within(u, k)'
  <2>1. Past(u)' \subseteq Past(u) \ {r}
    BY <1>2 DEF Goes, Past
  <2>2. Cardinality(Past(u))' \in Nat /\ Cardinality(Past(u))' <= Cardinality(Past(u))
    BY <1>0, <2>1, NoMore
  <2>3. CASE /\ account[u] # NULL
             /\ account'[u].lock = account[u].lock /\ account'[u].attempts = account[u].attempts
    <3>1. account[u].attempts \in Nat /\ Within(u, k)
      BY <1>0, <2>3 DEF User, AllWithin
    <3>. QED  BY <1>0, <2>2, <2>3, <3>1 DEF Within
  <2>4. CASE account'[u].lock = "none" /\ account'[u].attempts = 0
    BY <1>0, <2>4 DEF Within
  <2>5. CASE account[u] # NULL /\ r \in Past(u) /\ account'[u] = AfterWrong(account[u])
    <3>1. account[u] \in User /\ account[u].attempts \in Nat /\ Within(u, k)
      BY <1>0, <2>5 DEF User, AllWithin
    <3>2. /\ account'[u].attempts = account[u].attempts + 1
          /\ account'[u].lock = IF account[u].attempts + 1 >= Limit /\ account[u].lock = "none"
                                THEN "on" ELSE account[u].lock
      BY <2>5, <3>1, AfterLogin
    <3>3. Cardinality(Past(u))' <= Cardinality(Past(u)) - 1
      BY <1>0, <2>1, <2>5, OneLess
    <3>. QED  BY <1>0, <2>2, <3>1, <3>2, <3>3 DEF Within
  <2>6. Counted(r, u)
    BY <1>2 DEF Goes
  <2>. QED  BY <2>3, <2>4, <2>5, <2>6 DEF Counted
<1>3. ASSUME Passes PROVE Within(u, k)'
  <2>1. Past(u)' \subseteq Past(u)
    BY <1>3 DEF Passes, Past
  <2>2. Cardinality(Past(u))' \in Nat /\ Cardinality(Past(u))' <= Cardinality(Past(u))
    BY <1>0, <2>1, NoMore
  <2>3. CASE account'[u] = account[u]
    <3>1. account[u] \in User /\ account[u].attempts \in Nat /\ Within(u, k)
      BY <1>0, <2>3 DEF User, AllWithin
    <3>. QED  BY <1>0, <2>2, <2>3, <3>1 DEF Within
  <2>4. CASE account'[u].lock = "lapsed"
    BY <2>4 DEF Within
  <2>. QED  BY <1>3, <2>3, <2>4 DEF Passes
<1>. QED  BY <1>1, <1>2, <1>3

\* Any number k of overlapping logins gives a bound of its own.
THEOREM GuessesBelowCorrect ==
  ASSUME NEW k \in Nat
  PROVE  Spec /\ []PastAtMost(k) => []GuessesBelow(k)
<1>1. Init => AllWithin(k)
  BY DEF Init, AllWithin
<1>2. IInv /\ AllWithin(k) /\ PastAtMost(k) /\ [Next]_vars => AllWithin(k)'
  <2>. SUFFICES ASSUME IInv, AllWithin(k), PastAtMost(k), [Next]_vars,
                       NEW u \in Users, account'[u] # NULL
       PROVE  Within(u, k)'
    BY DEF AllWithin
  <2>1. (\E r \in Requests : Begins(r) \/ Goes(r)) \/ Passes
    BY RequestBegins, StepGoes, RestPasses DEF Next
  <2>. QED  BY <2>1, WithinStays
<1>3. IInv /\ AllWithin(k) /\ PastAtMost(k) => GuessesBelow(k)
  <2>. SUFFICES ASSUME IInv, AllWithin(k), PastAtMost(k), NEW u \in Users, account[u] # NULL,
                       account[u].lock # "lapsed"
       PROVE  account[u].attempts < Limit + k
    BY DEF GuessesBelow
  <2>1. account[u] \in User /\ Within(u, k)
    BY DEF IInv, TypeOK, AllWithin
  <2>2. account[u].lock \in {"none", "on"} /\ account[u].attempts \in Nat
    BY <2>1 DEF User
  <2>3. Cardinality(Past(u)) \in Nat /\ Limit \in Nat \ {0}
    BY PastCounts DEF AccountsAssumption
  <2>. QED  BY <2>1, <2>2, <2>3 DEF Within
<1>. QED  BY <1>1, <1>2, <1>3, Invariant, PTL DEF Spec

LEMMA RunningInvariant == Spec => []FewRun
<1>1. Init => FewRun
  <2>. SUFFICES ASSUME Init PROVE FewRun
    OBVIOUS
  <2>1. Running = {}
    BY DEF Init, Running, Waiting
  <2>2. Cardinality(Running) = 0
    BY <2>1, FS_EmptySet
  <2>. QED  BY <2>2 DEF FewRun, AccountsAssumption
<1>2. IInv /\ FewRun /\ [Next]_vars => FewRun'
  <2>. SUFFICES ASSUME IInv, FewRun, [Next]_vars PROVE FewRun'
    OBVIOUS
  <2>1. (\E r \in Requests : Begins(r) \/ Goes(r)) \/ Passes
    BY RequestBegins, StepGoes, RestPasses DEF Next
  <2>. QED  BY <2>1, RunningStays DEF FewRun
<1>. QED  BY <1>1, <1>2, Invariant, PTL DEF Spec

\* increment_login_attempts counts in the database, so requests that read the
\* account before it was locked are the only ones to fail beyond the limit of ten.
THEOREM GuessesStayBounded == Spec => []GuessesBounded
<1>. DEFINE k == MaxActive
<1>1. k \in Nat
  BY DEF AccountsAssumption
<1>2. FewRun => PastAtMost(k)
  <2>. SUFFICES ASSUME FewRun, NEW u \in Users PROVE Cardinality(Past(u)) <= k
    BY DEF PastAtMost
  <2>1. /\ Cardinality(Running) \in Nat /\ Cardinality(Past(u)) \in Nat
        /\ Cardinality(Past(u)) <= Cardinality(Running)
    BY PastCounts
  <2>. QED  BY <1>1, <2>1 DEF FewRun
<1>3. IInv /\ GuessesBelow(k) => GuessesBounded
  <2>. SUFFICES ASSUME IInv, GuessesBelow(k), NEW u \in Users, account[u] # NULL,
                       account[u].lock # "lapsed"
       PROVE  account[u].attempts <= Limit - 1 + MaxActive
    BY DEF GuessesBounded
  <2>1. account[u].attempts \in Nat /\ Limit \in Nat /\ MaxActive \in Nat
    BY DEF IInv, TypeOK, User, AccountsAssumption
  <2>. QED  BY <2>1 DEF GuessesBelow
<1>. HIDE DEF k
<1>. QED  BY <1>1, <1>2, <1>3, GuessesBelowCorrect, Invariant, RunningInvariant, PTL

-----------------------------------------------------------------------------
(* What changes an account, and the request that changes it.               *)

\* Accounts are created by an insertion, or by a callback for a Google subject;
\* a password changes by a reset.
LEMMA AccountChange ==
  ASSUME IInv, [Next]_vars, NEW u \in Users, account'[u] # account[u]
  PROVE  \/ \E r \in Requests : /\ InsertAccount(r) /\ u = req[r].user
                                /\ account[u] = NULL
         \/ u \in Subs /\ account[u] = NULL
         \/ \E r \in Requests : StorePassword(r) /\ u = req[r].user
         \/ account[u] # NULL /\ account'[u].secret = account[u].secret
<1>0. /\ account \in [Users -> User \cup {NULL}]
      /\ \A r \in Requests : Facts(req[r], account, state)
  BY DEF IInv, TypeOK, AllFacts
<1>1. ASSUME NEW r \in Requests, InsertAccount(r) PROVE u = req[r].user /\ account[u] = NULL
  BY <1>0, <1>1 DEF InsertAccount
<1>2. ASSUME NEW r \in Requests, StorePassword(r) PROVE u = req[r].user
  BY <1>0, <1>2 DEF StorePassword
<1>3. ASSUME NEW r \in Requests, RecordLogin(r)
      PROVE  account[u] # NULL /\ account'[u].secret = account[u].secret
  <2>. DEFINE w == req[r].user
  <2>1. w \in Users /\ account[w] # NULL /\ account[w] \in User
    BY <1>0, <1>3 DEF RecordLogin, Facts
  <2>2. \/ account' = [account EXCEPT ![w] = AfterRight(account[w])]
        \/ account' = [account EXCEPT ![w] = AfterWrong(account[w])]
    BY <1>3 DEF RecordLogin
  <2>3. u = w
    BY <1>0, <2>2
  <2>4. AfterRight(account[w]).secret = account[w].secret
        /\ AfterWrong(account[w]).secret = account[w].secret
    BY <2>1 DEF AfterRight, AfterWrong, User
  <2>. QED  BY <1>0, <2>1, <2>2, <2>3, <2>4
<1>4. ASSUME NEW v \in Users, LockLapses(v)
      PROVE  account[u] # NULL /\ account'[u].secret = account[u].secret
  BY <1>0, <1>4 DEF LockLapses, User
<1>5. ASSUME NEW r \in Requests, UpsertUser(r) PROVE u \in Subs /\ account[u] = NULL
  <2>1. req[r].user \in Subs
    BY <1>0, <1>5 DEF UpsertUser, Facts
  <2>. QED  BY <1>0, <1>5, <2>1 DEF UpsertUser, Users
<1>6. ASSUME NEW r \in Requests,
             ClearGuard(r) \/ DeleteState(r) \/ Exchange(r) \/ FindUser(r)
      PROVE  FALSE
  BY <1>6 DEF ClearGuard, DeleteState, Exchange, FindUser
<1>7. ASSUME NEW r \in Requests, Step(r)
      PROVE  \/ InsertAccount(r) \/ StorePassword(r)
             \/ u \in Subs /\ account[u] = NULL
             \/ account[u] # NULL /\ account'[u].secret = account[u].secret
  BY <1>3, <1>5, <1>6, <1>7 DEF Step
<1>8. ASSUME NEW r \in Requests, NEW n \in Instances,
             \/ \E v \in Spellings, s \in Secrets :
                  Register(r, n, v, s) \/ Login(r, n, v, s) \/ ResetPassword(r, n, v, s)
             \/ \E t \in States : StartGoogle(r, n, t) \/ \E c \in Codes : Callback(r, n, t, c)
      PROVE  FALSE
  BY <1>8 DEF Register, Login, ResetPassword, StartGoogle, Callback
<1>9. ASSUME \/ \E n \in Instances : Restart(n)
             \/ \E t \in States : StateExpires(t)
             \/ UNCHANGED vars
      PROVE  FALSE
  BY <1>9 DEF Restart, StateExpires, vars
<1>. QED  BY <1>1, <1>2, <1>4, <1>7, <1>8, <1>9 DEF Next

\* What a request has just read when it is about to insert, or to sign in.
Fresh(q) ==
  \/ q.step = "inserting" /\ \A v \in Spellings : account[v] = NULL
  \/ q.step = "verified" /\ q.right = (account[q.user].secret = q.secret)
  \/ q.step \notin {"inserting", "verified"}

LEMMA BehindFresh ==
  ASSUME IInv, NEW r \in Requests, NEW n, NEW q, Fresh(q), Behind(r, n, q), account' = account,
         NEW p \in Requests, req'[p] # req[p]
  PROVE  account' = account /\ Fresh(req'[p])
<1>1. req' = [req EXCEPT ![r] = q] \/ req' = [req EXCEPT ![r] = Answered(q, "guarded")]
  BY DEF Behind, Become
<1>2. req \in [Requests -> Request]
  BY DEF IInv, TypeOK
<1>3. req'[p] = q \/ req'[p] = Answered(q, "guarded")
  BY <1>1, <1>2
<1>. QED  BY <1>3, AnsweredStep DEF Fresh

LEMMA ReadsAreFresh ==
  ASSUME IInv, [Next]_vars, NEW p \in Requests, req'[p] # req[p]
  PROVE  \/ account' = account /\ Fresh(req'[p])
         \/ req'[p].step \notin {"inserting", "verified"}
<1>. DEFINE Goal == \/ account' = account /\ Fresh(req'[p])
                    \/ req'[p].step \notin {"inserting", "verified"}
<1>0. req \in [Requests -> Request]
  BY DEF IInv, TypeOK
<1>1. ASSUME NEW r \in Requests, NEW n \in Instances, NEW u \in Spellings, NEW s \in Secrets,
             Register(r, n, u, s)
      PROVE  Goal
  <2>. DEFINE q == [Waiting EXCEPT !.step = "inserting", !.at = n, !.user = u, !.secret = s]
  <2>1. q.step = "inserting"
    BY DEF Waiting
  <2>. HIDE DEF q
  <2>2. \/ Found(u) = {} /\ req' = [req EXCEPT ![r] = q]
        \/ \E a : req' = [req EXCEPT ![r] = Answered(q, a)]
    BY <1>1 DEF Register, Become, q
  <2>3. account' = account
    BY <1>1 DEF Register
  <2>4. Found(u) = {} => Fresh(q)
    BY <2>1 DEF Found, Fresh
  <2>. QED  BY <1>0, <2>2, <2>3, <2>4, AnsweredStep
<1>2. ASSUME NEW r \in Requests, NEW n \in Instances, NEW u \in Spellings, NEW s \in Secrets,
             Login(r, n, u, s)
      PROVE  Goal
  <2>. DEFINE q == [Waiting EXCEPT !.step = "verified", !.at = n, !.secret = s]
  <2>1. account' = account
    BY <1>2 DEF Login
  <2>2. ASSUME NEW a, Behind(r, n, Answered(q, a)) PROVE Goal
    <3>1. Fresh(Answered(q, a))
      BY AnsweredStep DEF Fresh
    <3>. QED  BY <2>1, <2>2, <3>1, BehindFresh
  <2>3. ASSUME NEW v,
               Behind(r, n, [q EXCEPT !.user = v, !.right = (account[v].secret = s)])
        PROVE  Goal
    <3>. DEFINE w == [q EXCEPT !.user = v, !.right = (account[v].secret = s)]
    <3>1. w.step = "verified" /\ w.user = v /\ w.secret = s
          /\ w.right = (account[v].secret = s)
      BY DEF Waiting
    <3>. HIDE DEF w
    <3>2. Fresh(w)
      BY <3>1 DEF Fresh
    <3>3. Behind(r, n, w)
      BY <2>3 DEF w
    <3>. QED  BY <2>1, <3>2, <3>3, BehindFresh
  <2>. HIDE DEF q
  <2>4. \/ \E a : Behind(r, n, Answered(q, a))
        \/ \E v : Behind(r, n, [q EXCEPT !.user = v, !.right = (account[v].secret = s)])
    BY <1>2, Zenon DEF Login, q
  <2>. QED  BY <2>2, <2>3, <2>4
<1>3. ASSUME NEW r \in Requests, NEW n \in Instances, NEW u \in Spellings, NEW s \in Secrets,
             ResetPassword(r, n, u, s)
      PROVE  Goal
  <2>. DEFINE q == [Waiting EXCEPT !.step = "resetting", !.at = n, !.secret = s]
  <2>1. account' = account
    BY <1>3 DEF ResetPassword
  <2>2. ASSUME NEW a, Behind(r, n, Answered(q, a)) PROVE Goal
    <3>1. Fresh(Answered(q, a))
      BY AnsweredStep DEF Fresh
    <3>. QED  BY <2>1, <2>2, <3>1, BehindFresh
  <2>3. ASSUME NEW v, Behind(r, n, [q EXCEPT !.user = v]) PROVE Goal
    <3>1. [q EXCEPT !.user = v].step = "resetting"
      BY DEF Waiting
    <3>2. Fresh([q EXCEPT !.user = v])
      BY <3>1 DEF Fresh
    <3>. QED  BY <2>1, <2>3, <3>2, BehindFresh
  <2>. HIDE DEF q
  <2>4. (\E a : Behind(r, n, Answered(q, a))) \/ \E v : Behind(r, n, [q EXCEPT !.user = v])
    BY <1>3, Zenon DEF ResetPassword, q
  <2>. QED  BY <2>2, <2>3, <2>4
<1>4. ASSUME NEW r \in Requests, NEW n \in Instances, NEW t \in States,
             StartGoogle(r, n, t)
      PROVE  Goal
  <2>. DEFINE q == Answered([Waiting EXCEPT !.at = n, !.state = t], "ok")
  <2>1. Fresh(q)
    BY AnsweredStep DEF Fresh
  <2>2. account' = account /\ Behind(r, n, q)
    BY <1>4 DEF StartGoogle
  <2>. QED  BY <2>1, <2>2, BehindFresh
<1>5. ASSUME NEW r \in Requests, NEW n \in Instances, NEW t \in States, NEW c \in Codes,
             Callback(r, n, t, c)
      PROVE  Goal
  <2>. DEFINE q == [Waiting EXCEPT !.step = "deleting", !.at = n, !.state = t, !.code = c,
                                   !.right = (state[t] = "fresh")]
  <2>1. Fresh(q) /\ Fresh(Answered(q, "refused"))
    BY AnsweredStep DEF Fresh, Waiting
  <2>. HIDE DEF q
  <2>2. account' = account /\ (Behind(r, n, q) \/ Behind(r, n, Answered(q, "refused")))
    BY <1>5 DEF Callback, q
  <2>. QED  BY <2>1, <2>2, BehindFresh
<1>6. ASSUME NEW r \in Requests, Step(r) PROVE Goal
  <2>1. ASSUME NEW a, Answer(r, a) PROVE Goal
    BY <1>0, <2>1, AnsweredStep DEF Answer, Become
  <2>2. ASSUME req'[r].step \notin {"inserting", "verified"},
               \A x \in Requests \ {r} : req'[x] = req[x]
        PROVE  Goal
    BY <2>2
  <2>. HIDE DEF Goal
  <2>3. CASE InsertAccount(r)
    <3>1. CASE req' = [req EXCEPT ![r].step = "clearing"]
      <4>1. req'[r].step = "clearing" /\ \A x \in Requests \ {r} : req'[x] = req[x]
        BY <1>0, <3>1 DEF Request
      <4>. QED  BY <2>2, <4>1
    <3>. QED  BY <2>1, <2>3, <3>1 DEF InsertAccount
  <2>4. CASE DeleteState(r)
    <3>1. CASE req' = [req EXCEPT ![r].step = "exchanging",
                                  ![r].holds = (state[req[r].state] # "gone")]
      <4>1. req'[r].step = "exchanging" /\ \A x \in Requests \ {r} : req'[x] = req[x]
        BY <1>0, <3>1 DEF Request
      <4>. QED  BY <2>2, <4>1
    <3>. QED  BY <2>1, <2>4, <3>1 DEF DeleteState
  <2>5. CASE Exchange(r)
    <3>1. CASE \E g \in Subs : req' = [req EXCEPT ![r].step = "finding", ![r].user = g]
      <4>1. req'[r].step = "finding" /\ \A x \in Requests \ {r} : req'[x] = req[x]
        BY <1>0, <3>1 DEF Request
      <4>. QED  BY <2>2, <4>1
    <3>. QED  BY <2>1, <2>5, <3>1 DEF Exchange
  <2>6. CASE FindUser(r)
    <3>1. req' = [req EXCEPT ![r].step = "upserting",
                             ![r].known = (account[req[r].user] # NULL)]
      BY <2>6 DEF FindUser
    <3>2. req'[r].step = "upserting" /\ \A x \in Requests \ {r} : req'[x] = req[x]
      BY <1>0, <3>1 DEF Request
    <3>. QED  BY <2>2, <3>2
  <2>7. CASE ClearGuard(r) \/ RecordLogin(r) \/ StorePassword(r) \/ UpsertUser(r)
    BY <2>1, <2>7 DEF ClearGuard, RecordLogin, StorePassword, UpsertUser
  <2>. QED  BY <1>6, <2>3, <2>4, <2>5, <2>6, <2>7 DEF Step
<1>7. ASSUME \/ \E n \in Instances : Restart(n)
             \/ \E u \in Users : LockLapses(u)
             \/ \E t \in States : StateExpires(t)
             \/ UNCHANGED vars
      PROVE  Goal
  <2>1. Passes
    BY <1>7, RestPasses
  <2>. QED  BY <2>1 DEF Passes
<1>. HIDE DEF Goal
<1>8. Goal
  BY <1>1, <1>2, <1>3, <1>4, <1>5, <1>6, <1>7, Zenon DEF Next
<1>. QED  BY <1>8 DEF Goal

\* What makes OneSpelling inductive: an insertion under way has found no other
\* spelling, and there is none yet.
SpellingFree ==
  \A r \in Requests :
    req[r].step = "inserting" => \A v \in Spellings \ {req[r].user} : account[v] = NULL

\* get_by_username compares lower(username), the unique constraint does not: only
\* registrations of two spellings under way together can leave two accounts that
\* it cannot tell apart.
THEOREM OneSpellingUnlessRivals == Spec /\ []NoRivalSpellings => []OneSpelling
<1>1. Init => OneSpelling /\ SpellingFree
  BY DEF Init, OneSpelling, SpellingFree, Waiting, Users
<1>2. IInv /\ OneSpelling /\ SpellingFree /\ NoRivalSpellings /\ [Next]_vars
      => (OneSpelling /\ SpellingFree)'
  <2>. SUFFICES ASSUME IInv, OneSpelling, SpellingFree, NoRivalSpellings, [Next]_vars
       PROVE  (OneSpelling /\ SpellingFree)'
    OBVIOUS
  <2>0. /\ req \in [Requests -> Request] /\ Spellings \cap Subs = {}
        /\ \A r \in Requests : Facts(req[r], account, state)
    BY DEF IInv, TypeOK, AllFacts, AccountsAssumption
  <2>1. ASSUME NEW u \in Spellings, account[u] = NULL, account'[u] # NULL
        PROVE  \E r \in Requests : InsertAccount(r) /\ u = req[r].user
    <3>1. \/ \E r \in Requests : InsertAccount(r) /\ u = req[r].user
          \/ \E r \in Requests : StorePassword(r) /\ u = req[r].user
      BY <2>0, <2>1, AccountChange DEF Users
    <3>2. ASSUME NEW r \in Requests, StorePassword(r), u = req[r].user PROVE FALSE
      BY <2>0, <2>1, <3>2 DEF StorePassword, Facts
    <3>. QED  BY <3>1, <3>2
  <2>2. OneSpelling'
    <3>. SUFFICES ASSUME NEW u \in Spellings, NEW v \in Spellings,
                         account'[u] # NULL, account'[v] # NULL, u # v
         PROVE  FALSE
      BY DEF OneSpelling
    <3>1. ASSUME NEW r \in Requests, InsertAccount(r), NEW x \in Spellings, x # req[r].user
          PROVE  account'[x] = NULL
      <4>1. req[r].step = "inserting"
        BY <3>1 DEF InsertAccount
      <4>2. account[x] = NULL
        BY <3>1, <4>1 DEF SpellingFree
      <4>3. account'[x] = account[x]
        BY <3>1, <2>1, <4>2 DEF InsertAccount, IInv, TypeOK, Users
      <4>. QED  BY <4>2, <4>3
    <3>2. account[u] # NULL /\ account[v] # NULL
      BY <2>1, <3>1
    <3>. QED  BY <3>2 DEF OneSpelling
  <2>3. SpellingFree'
    <3>. SUFFICES ASSUME NEW p \in Requests, req'[p].step = "inserting",
                         NEW v \in Spellings, v # req'[p].user
         PROVE  account'[v] = NULL
      BY DEF SpellingFree
    <3>1. CASE req'[p] = req[p]
      <4>1. account[v] = NULL
        BY <3>1 DEF SpellingFree
      <4>2. ASSUME NEW r \in Requests, InsertAccount(r), v = req[r].user PROVE FALSE
        BY <3>1, <4>2 DEF InsertAccount, NoRivalSpellings
      <4>. QED  BY <2>1, <4>1, <4>2
    <3>2. CASE req'[p] # req[p]
      <4>1. account' = account /\ Fresh(req'[p])
        BY <3>2, ReadsAreFresh
      <4>. QED  BY <4>1 DEF Fresh
    <3>. QED  BY <3>1, <3>2
  <2>. QED  BY <2>2, <2>3
<1>. QED  BY <1>1, <1>2, Invariant, PTL DEF Spec

\* login compares the password before it waits for the row and never again: only
\* a reset that overlaps it can make the comparison wrong.
THEOREM PasswordCurrentUnlessReset == Spec /\ []NoResetWhileVerified => []PasswordIsCurrent
<1>1. Init => PasswordIsCurrent
  BY DEF Init, PasswordIsCurrent, Waiting
<1>2. IInv /\ PasswordIsCurrent /\ NoResetWhileVerified /\ [Next]_vars => PasswordIsCurrent'
  <2>. SUFFICES ASSUME IInv, PasswordIsCurrent, NoResetWhileVerified, [Next]_vars,
                       NEW p \in Requests, req'[p].step = "verified"
       PROVE  req'[p].right = (account'[req'[p].user].secret = req'[p].secret)
    BY DEF PasswordIsCurrent
  <2>1. CASE req'[p] # req[p]
    <3>1. account' = account /\ Fresh(req'[p])
      BY <2>1, ReadsAreFresh
    <3>. QED  BY <3>1 DEF Fresh
  <2>2. CASE req'[p] = req[p]
    <3>. DEFINE u == req[p].user
    <3>1. req[p].step = "verified" /\ u \in Users /\ account[u] # NULL
      BY <2>2 DEF IInv, AllFacts, Facts
    <3>2. ASSUME NEW r \in Requests, StorePassword(r) PROVE u # req[r].user
      BY <3>1, <3>2 DEF StorePassword, NoResetWhileVerified
    <3>3. account'[u] = account[u] \/ account'[u].secret = account[u].secret
      BY <3>1, <3>2, AccountChange
    <3>4. account'[u].secret = account[u].secret
      BY <3>3
    <3>. QED  BY <2>2, <3>1, <3>4 DEF PasswordIsCurrent
  <2>. QED  BY <2>1, <2>2
<1>. QED  BY <1>1, <1>2, Invariant, PTL DEF Spec
=============================================================================
