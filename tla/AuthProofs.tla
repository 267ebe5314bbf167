----------------------------- MODULE AuthProofs -----------------------------
(***************************************************************************)
(* For any users, requests, lifetimes and both backends: accounts stay     *)
(* unique, access tokens outlive their sessions, revoked ones included, by *)
(* at most a deadline and a token's lifetime, what was refusable on        *)
(* arrival is refused, and all of it implements AccessPolicy.              *)
(***************************************************************************)
EXTENDS AuthSessions, TLAPS

LEMMA AuthConstants ==
  /\ AccessTTL \in Nat /\ RefreshTTL \in Nat /\ RefreshTTL > 0
  /\ Timeout \in Nat /\ MaxTime \in Nat
  /\ Attempts \subseteq Credentials
  /\ Nothing \notin Account /\ Nothing \notin Session
  /\ Expired \notin Session /\ Expired # Nothing
  /\ Nothing \notin Member /\ Nothing \notin Errand
  /\ Nothing \notin Lease /\ Expired \notin Lease
BY AuthAssumption, AttemptsAssumption, NothingAssumption

USE AuthConstants

\* What a process that is about to make a store call has in its hands.
Serving(p) ==
  /\ pc[p] = "create" => call[p] \in Attempts /\ call[p].op = "register"
  /\ pc[p] = "email" => call[p] \in Attempts /\ call[p].op = "login"
  /\ pc[p] \in {"sign", "date", "save"} => /\ call[p] \in Attempts
                                          /\ work[p] \in Grant
                                          /\ Known(work[p].user)
  /\ pc[p] = "sign" => work[p].exp = 0
  /\ pc[p] \in {"sign", "date"} => work[p].expires = 0
  /\ pc[p] \in {"date", "save"} => 0 < work[p].exp /\ work[p].exp <= clock + AccessTTL
  /\ pc[p] = "save" => 0 < work[p].expires /\ work[p].exp < work[p].expires + AccessTTL
  /\ pc[p] = "session" => call[p] \in ByCookie /\ Minted(call[p].token)
  /\ pc[p] = "revoke" => call[p] \in ByCookie /\ call[p].op = "logout" /\ work[p] \in Grant
                         /\ Known(work[p].user) /\ Minted(call[p].token)
                         /\ ends[call[p].token] <= work[p].expires
                         /\ Durable
  /\ pc[p] = "access" => call[p] \in ByAccess /\ Known(call[p].access.user)
  /\ pc[p] = "user" => /\ call[p] \in ByCookie \cup ByAccess
                       /\ call[p].op # "logout"
                       /\ work[p] \in Grant
                       /\ Known(work[p].user)
                       /\ call[p].op = "refresh" => /\ since[p] < work[p].expires
                                                    /\ Minted(call[p].token)
                                                    /\ since[p] <= ends[call[p].token]

Timely(p) == pc[p] # "idle" => since[p] <= clock /\ clock <= since[p] + Timeout

Shut(email) ==
  \E u \in Accounts : /\ Known(u)
                      /\ users[u].email = email
                      /\ users[u].removed \/ users[u].status # "active"

\* What made a barred request refusable still does when it is looked at.
StillBarred(p) ==
  p \in barred =>
    /\ pc[p] \in {"email", "session", "access", "user"}
    /\ pc[p] = "email" => Shut(call[p].email)
    /\ pc[p] = "session" => /\ call[p].op = "refresh"
                            /\ \/ ~Usable(call[p].token)
                               \/ ~Present(sessions[call[p].token].user)
    /\ pc[p] = "access" => clock >= call[p].access.exp \/ ~Present(call[p].access.user)
    /\ pc[p] = "user" => ~Present(work[p].user)

SessionsOwned == \A t \in Tokens : Held(t) => Known(sessions[t].user)

GrantsFit ==
  \A g \in granted : Known(g.user) /\ g.exp < g.expires + Timeout + AccessTTL

\* The ghosts fit the keys: a session ends when it expires, unless it is marked or
\* dropped, which it is only at or after its end.
SessionsEnd ==
  \A t \in Tokens :
    /\ Held(t) => ends[t] <= sessions[t].expires
    /\ Found(t) => ends[t] = sessions[t].expires
    /\ Minted(t) /\ ~Found(t) => ends[t] <= clock
    /\ ~Minted(t) => last[t] = 0
    /\ last[t] <= clock + AccessTTL
    /\ last[t] <= ends[t] + Timeout + AccessTTL

\* Only Redis forgets keys.
NothingForgotten == ~Durable => \A t \in Tokens : sessions[t] # Expired

StoresOK == UniqueAccounts /\ SessionsOwned /\ GrantsFit /\ NothingForgotten /\ SessionsEnd

AuthInv ==
  /\ AuthTypeOK
  /\ StoresOK
  /\ \A p \in Procs : Serving(p) /\ Timely(p) /\ StillBarred(p)

LEMMA AuthInitInv == AuthInit => AuthInv
<1> SUFFICES ASSUME AuthInit PROVE AuthInv
  OBVIOUS
<1>1. AuthTypeOK
  <2>1. clock \in 0 .. MaxTime
    BY DEF AuthInit
  <2>2. pc \in [Procs -> Points] /\ since \in [Procs -> Nat]
    BY DEF AuthInit, Points
  <2> QED
    BY <2>1, <2>2 DEF AuthInit, AuthTypeOK
<1>2. StoresOK
  BY DEF AuthInit, StoresOK, UniqueAccounts, SessionsOwned, GrantsFit, NothingForgotten,
         SessionsEnd, Known, Held, Found, Minted
<1>3. \A p \in Procs : Serving(p) /\ Timely(p) /\ StillBarred(p)
  BY DEF AuthInit, Serving, Timely, StillBarred
<1> QED
  BY <1>1, <1>2, <1>3 DEF AuthInv

-----------------------------------------------------------------------------
(* What the stores do to those who do not take the step *)

\* Accounts stay known and never come back, sessions never become usable again
\* and end only now or when they were to, and time does not go back.
Ages ==
  /\ \A u \in Accounts : Known(u) => /\ Known(u)'
                                     /\ Present(u)' => Present(u)
                                     /\ users'[u].email = users[u].email
                                     /\ users[u].removed => users'[u].removed
                                     /\ users[u].status # "active" =>
                                          users'[u].status # "active"
  /\ \A t \in Tokens : Minted(t) => /\ Minted(t)'
                                    /\ Usable(t)' => /\ Usable(t)
                                                     /\ sessions'[t].user = sessions[t].user
                                    /\ ends'[t] <= ends[t]
                                    /\ ends'[t] = ends[t] \/ clock <= ends'[t]
  /\ clock <= clock'

\* A process that does not move itself keeps what it holds.
Still(p) ==
  /\ pc'[p] = pc[p] /\ call'[p] = call[p] /\ work'[p] = work[p]
  /\ since'[p] = since[p] /\ (p \in barred' <=> p \in barred)

LEMMA StillKeeps ==
  ASSUME AuthInv, AuthTypeOK', NEW p \in Procs, Ages, Still(p),
         pc[p] # "idle" => clock' <= since[p] + Timeout
  PROVE  Serving(p)' /\ Timely(p)' /\ StillBarred(p)'
<1>1. /\ Serving(p) /\ Timely(p) /\ StillBarred(p) /\ SessionsOwned
      /\ clock \in Nat /\ clock' \in Nat /\ since[p] \in Nat
  BY DEF AuthInv, AuthTypeOK, StoresOK
<1>2. Timely(p)'
  BY <1>1 DEF Ages, Still, Timely
<1>3. Serving(p)'
  <2>1. pc[p] \in {"date", "save"} => work[p].exp <= clock' + AccessTTL
    BY <1>1 DEF Serving, Ages, Grant
  <2>2. ASSUME call[p] \in ByCookie, Minted(call[p].token)
        PROVE  /\ sessions'[call[p].token] # Nothing
               /\ \A n \in Nat : ends[call[p].token] <= n => ends'[call[p].token] <= n
               /\ pc[p] # "idle" /\ since[p] <= ends[call[p].token] =>
                    since[p] <= ends'[call[p].token]
    <3>1. PICK t \in Tokens : t = call[p].token
      BY <2>2 DEF ByCookie
    <3>2. /\ sessions'[t] # Nothing /\ ends[t] \in Nat /\ ends'[t] \in Nat
          /\ ends'[t] <= ends[t]
          /\ ends'[t] = ends[t] \/ clock <= ends'[t]
      BY <2>2, <3>1 DEF Ages, Minted, AuthInv, AuthTypeOK
    <3>3. pc[p] # "idle" => since[p] <= clock
      BY <1>1 DEF Timely
    <3> QED
      BY <1>1, <3>1, <3>2, <3>3
  <2>3. pc[p] = "revoke" => Serving(p)'
    BY <1>1, <2>2 DEF Ages, Still, Serving, Grant, Durable, Minted
  <2>4. pc[p] = "user" /\ call[p].op = "refresh" => Serving(p)'
    BY <1>1, <2>2 DEF Ages, Still, Serving, Grant, ByAccess, ByCookie, Minted
  <2> QED
    BY <1>1, <2>1, <2>3, <2>4 DEF Ages, Still, Serving, Grant, ByAccess, ByCookie
<1>4. ASSUME p \in barred PROVE StillBarred(p)'
  <2>1. CASE pc[p] = "email"
    <3>1. PICK u \in Accounts : /\ Known(u)
                                /\ users[u].email = call[p].email
                                /\ users[u].removed \/ users[u].status # "active"
      BY <1>1, <1>4, <2>1 DEF StillBarred, Shut
    <3>2. /\ Known(u)' /\ users'[u].email = call[p].email
          /\ users'[u].removed \/ users'[u].status # "active"
      BY <3>1 DEF Ages
    <3>3. Shut(call[p].email)'
      BY <3>2 DEF Shut, Still
    <3> QED
      BY <1>4, <2>1, <3>3 DEF StillBarred, Still
  <2>2. CASE pc[p] = "session"
    <3>1. call[p] \in ByCookie /\ call[p].token \in Tokens /\ Minted(call[p].token)
      BY <1>1, <2>2 DEF Serving, ByCookie
    <3>2. Usable(call[p].token) => Known(sessions[call[p].token].user)
                                   /\ sessions[call[p].token].user \in Accounts
      BY <1>1, <3>1 DEF Usable, SessionsOwned, Held, Session, AuthInv, AuthTypeOK
    <3> QED
      BY <1>1, <1>4, <2>2, <3>1, <3>2 DEF StillBarred, Still, Ages
  <2>3. CASE pc[p] = "access"
    <3>1. /\ call[p].access.user \in Accounts /\ Known(call[p].access.user)
          /\ call[p].access.exp \in Nat
      BY <1>1, <2>3 DEF Serving, ByAccess, Grant
    <3> QED
      BY <1>1, <1>4, <2>3, <3>1 DEF StillBarred, Still, Ages
  <2>4. CASE pc[p] = "user"
    <3>1. work[p].user \in Accounts /\ Known(work[p].user)
      BY <1>1, <2>4 DEF Serving, Grant
    <3> QED
      BY <1>1, <1>4, <2>4, <3>1 DEF StillBarred, Still, Ages
  <2> QED
    BY <1>1, <1>4, <2>1, <2>2, <2>3, <2>4 DEF StillBarred
<1>5. ASSUME p \notin barred PROVE StillBarred(p)'
  BY <1>5 DEF StillBarred, Still
<1> QED
  BY <1>2, <1>3, <1>4, <1>5

\* What a step leaves of the tables, whoever takes it.
TablesFine ==
  /\ users \in [Accounts -> Account \cup {Nothing}]
  /\ sessions \in [Tokens -> Session \cup {Nothing, Expired}]
  /\ granted \subseteq Grant
  /\ last \in [Tokens -> Nat]
  /\ ends \in [Tokens -> Nat]
  /\ StoresOK

Answers == {Ok, ErrConflict, ErrUnauthorized, ErrInternal}

\* A process that answers holds nothing any more.
LEMMA AnswerKeeps ==
  ASSUME AuthInv, NEW p \in Procs, NEW answer \in Answers, Respond(p, answer),
         Ages, TablesFine'
  PROVE  AuthInv'
<1>1. AuthTypeOK'
  BY DEF AuthInv, AuthTypeOK, Respond, TablesFine, Answers, Points
<1>2. ASSUME NEW q \in Procs, q # p
      PROVE  Serving(q)' /\ Timely(q)' /\ StillBarred(q)'
  <2>1. Still(q) /\ clock' = clock
    BY <1>2 DEF Respond, Still, AuthInv, AuthTypeOK
  <2>2. pc[q] # "idle" => clock' <= since[q] + Timeout
    BY <2>1 DEF AuthInv, Timely
  <2> QED
    BY <1>1, <2>1, <2>2, StillKeeps
<1>3. pc'[p] = "idle" /\ p \notin barred'
  BY DEF Respond, AuthInv, AuthTypeOK
<1>4. Serving(p)' /\ Timely(p)' /\ StillBarred(p)'
  BY <1>3 DEF Serving, Timely, StillBarred
<1> QED
  BY <1>1, <1>2, <1>4 DEF AuthInv, TablesFine

\* A process that goes on to its next store call.
LEMMA ProceedKeeps ==
  ASSUME AuthInv, NEW p \in Procs, pc[p] # "idle",
         NEW point \in Points, NEW grant \in Grant,
         Proceed(p, point, grant), Ages, TablesFine', Serving(p)', StillBarred(p)'
  PROVE  AuthInv'
<1>1. AuthTypeOK'
  BY DEF AuthInv, AuthTypeOK, Proceed, TablesFine
<1>2. ASSUME NEW q \in Procs, q # p
      PROVE  Serving(q)' /\ Timely(q)' /\ StillBarred(q)'
  <2>1. Still(q) /\ clock' = clock
    BY <1>2 DEF Proceed, Still, AuthInv, AuthTypeOK
  <2>2. pc[q] # "idle" => clock' <= since[q] + Timeout
    BY <2>1 DEF AuthInv, Timely
  <2> QED
    BY <1>1, <2>1, <2>2, StillKeeps
<1>3. Timely(p)'
  BY DEF Proceed, Timely, AuthInv
<1> QED
  BY <1>1, <1>2, <1>3 DEF AuthInv, TablesFine

\* Tables that are not written are as fine as before.
LEMMA Untouched ==
  ASSUME AuthInv, UNCHANGED <<stores, given, clock>>
  PROVE  Ages /\ TablesFine'
<1>1. clock \in Nat
  BY DEF AuthInv, AuthTypeOK
<1>2. Ages
  BY <1>1 DEF stores, given, Ages, Known, Present, Minted, Usable, Held, AuthInv, AuthTypeOK
<1>3. TablesFine'
  BY DEF stores, given, TablesFine, AuthInv, AuthTypeOK, StoresOK, UniqueAccounts,
         SessionsOwned, GrantsFit, NothingForgotten, SessionsEnd, Known, Held, Found, Minted
<1> QED
  BY <1>2, <1>3

LEMMA RefuseKeeps ==
  ASSUME AuthInv, NEW p \in Procs, NEW answer \in Answers, Refuse(p, answer)
  PROVE  AuthInv'
<1>1. Respond(p, answer) /\ UNCHANGED <<stores, given, clock>>
  BY DEF Refuse, Respond
<1> QED
  BY <1>1, Untouched, AnswerKeeps

-----------------------------------------------------------------------------
(* The invariant, one lemma per kind of step *)

LEMMA BeginKeeps ==
  ASSUME AuthInv, NEW p \in Procs, NEW req, Begin(p, req),
         \/ req \in Attempts
         \/ req \in ByCookie /\ Minted(req.token)
         \/ \E g \in granted : req = [op |-> "me", access |-> g]
  PROVE  AuthInv'
<1>1. req \in Attempts \cup ByCookie \cup ByAccess
  BY DEF ByAccess, AuthInv, AuthTypeOK
<1>2. req \in ByAccess => req.access \in granted
  BY DEF ByAccess, ByCookie, Credentials
<1>3. Ages /\ TablesFine'
  BY Untouched DEF Begin, stores, given
<1>4. FirstCall(req.op) \in Points \ {"idle"}
  BY <1>1 DEF FirstCall, Points, ByAccess, ByCookie, Credentials
<1>5. AuthTypeOK'
  BY <1>1, <1>3, <1>4 DEF AuthInv, AuthTypeOK, Begin, TablesFine
<1>6. ASSUME NEW q \in Procs, q # p
      PROVE  Serving(q)' /\ Timely(q)' /\ StillBarred(q)'
  <2>1. Still(q) /\ clock' = clock
    BY <1>6 DEF Begin, Still, AuthInv, AuthTypeOK
  <2>2. pc[q] # "idle" => clock' <= since[q] + Timeout
    BY <2>1 DEF AuthInv, Timely
  <2> QED
    BY <1>3, <1>5, <2>1, <2>2, StillKeeps
<1>7. /\ pc[p] = "idle" /\ pc'[p] = FirstCall(req.op) /\ call'[p] = req
      /\ since'[p] = clock /\ clock' = clock /\ clock \in Nat
      /\ users' = users /\ sessions' = sessions
  BY DEF Begin, AuthInv, AuthTypeOK
<1>8. Serving(p)'
  <2>1. req \in ByAccess => Known(req.access.user)
    BY <1>2 DEF AuthInv, StoresOK, GrantsFit
  <2> QED
    BY <1>1, <1>7, <2>1 DEF Serving, FirstCall, ByAccess, ByCookie, Credentials, Minted,
       Known
<1>9. Timely(p)'
  BY <1>7 DEF Timely
<1>10. StillBarred(p)'
  <2>1. p \in barred' => Refusable(req)
    BY <1>7 DEF Begin, StillBarred, AuthInv
  <2>2. Refusable(req) => req.op \in {"login", "refresh", "me"}
    BY <1>1 DEF Refusable, ByAccess, ByCookie, Credentials
  <2>3. CASE req.op = "login"
    BY <1>7, <2>1, <2>3 DEF StillBarred, Refusable, FirstCall, Shut, Known
  <2>4. CASE req.op = "refresh"
    BY <1>7, <2>1, <2>4 DEF StillBarred, Refusable, FirstCall, Usable, Held, Present, Known
  <2>5. CASE req.op = "me"
    BY <1>7, <2>1, <2>5 DEF StillBarred, Refusable, FirstCall, Present, Known
  <2> QED
    BY <2>1, <2>2, <2>3, <2>4, <2>5 DEF StillBarred
<1> QED
  BY <1>3, <1>5, <1>6, <1>8, <1>9, <1>10 DEF AuthInv, TablesFine

LEMMA CreateUserKeeps ==
  ASSUME AuthInv, NEW p \in Procs, CreateUser(p)
  PROVE  AuthInv'
<1>1. CASE Refuse(p, ErrConflict)
  BY <1>1, RefuseKeeps DEF Answers
<1>2. CASE ~Refuse(p, ErrConflict)
  <2>1. /\ pc[p] = "create" /\ call[p] \in Credentials /\ call[p] \in Attempts
        /\ call[p].op = "register" /\ clock \in Nat /\ p \notin barred
    BY DEF CreateUser, AuthInv, Serving, StillBarred, AuthTypeOK
  <2>2. PICK u \in Accounts :
          /\ ~Known(u)
          /\ users' = [users EXCEPT ![u] = NewAccount(call[p])]
          /\ UNCHANGED <<sessions, given>>
          /\ Proceed(p, "sign", Opening(u)) \/ Respond(p, ErrInternal)
    BY <1>2 DEF CreateUser
  <2>3. \A v \in Accounts : Known(v) => /\ users[v].email # call[p].email
                                       /\ users[v].handle # call[p].handle
    BY <1>2 DEF CreateUser
  <2>4. NewAccount(call[p]) \in Account /\ NewAccount(call[p]) # Nothing
    <3>1. /\ call[p].email \in Emails /\ call[p].handle \in Handles
          /\ call[p].password \in Passwords
      BY <2>1 DEF Credentials
    <3>2. NewAccount(call[p]) \in Account
      BY <3>1 DEF NewAccount, Account
    <3> QED
      BY <3>2
  <2>5. /\ users \in [Accounts -> Account \cup {Nothing}] /\ clock' = clock
        /\ UNCHANGED <<sessions, granted, last, ends>> /\ ends \in [Tokens -> Nat]
    BY <2>2 DEF AuthInv, AuthTypeOK, Proceed, Respond, given
  <2>6. /\ users' \in [Accounts -> Account \cup {Nothing}]
        /\ users'[u] = NewAccount(call[p])
        /\ \A v \in Accounts : v # u => users'[v] = users[v]
    BY <2>2, <2>4, <2>5
  <2>7. Ages
    BY <2>1, <2>2, <2>5, <2>6 DEF Ages, Known, Present, Minted, Usable, Held
  <2>8. TablesFine'
    <3>1. UniqueAccounts'
      BY <2>3, <2>6 DEF UniqueAccounts, Known, NewAccount, AuthInv, StoresOK
    <3>2. (SessionsOwned /\ GrantsFit /\ NothingForgotten)'
      BY <2>4, <2>5, <2>6 DEF AuthInv, AuthTypeOK, StoresOK, SessionsOwned, GrantsFit,
         NothingForgotten, Held, Known, Session, Grant
    <3>3. SessionsEnd'
      BY <2>5 DEF AuthInv, StoresOK, SessionsEnd, Held, Found, Minted
    <3> QED
      BY <2>5, <2>6, <3>1, <3>2, <3>3 DEF TablesFine, StoresOK, AuthInv, AuthTypeOK
  <2>9. CASE Proceed(p, "sign", Opening(u))
    <3>1. /\ Opening(u) \in Grant /\ Opening(u).user = u
          /\ Opening(u).exp = 0 /\ Opening(u).expires = 0
      BY <2>1 DEF Opening, Grant
    <3>2. /\ pc'[p] = "sign" /\ call'[p] = call[p] /\ work'[p] = Opening(u)
          /\ p \notin barred'
      BY <2>1, <2>9 DEF Proceed, AuthInv, AuthTypeOK
    <3>3. Serving(p)' /\ StillBarred(p)'
      BY <2>1, <2>4, <2>5, <2>6, <3>1, <3>2 DEF Serving, StillBarred, Known
    <3> QED
      BY <2>1, <2>7, <2>8, <2>9, <3>1, <3>3, ProceedKeeps DEF Points
  <2>10. CASE Respond(p, ErrInternal)
    BY <2>7, <2>8, <2>10, AnswerKeeps DEF Answers
  <2> QED
    BY <2>2, <2>9, <2>10
<1> QED
  BY <1>1, <1>2

LEMMA FindByEmailKeeps ==
  ASSUME AuthInv, NEW p \in Procs, FindByEmail(p)
  PROVE  AuthInv'
<1>1. CASE Refuse(p, ErrUnauthorized)
  BY <1>1, RefuseKeeps DEF Answers
<1>2. CASE ~Refuse(p, ErrUnauthorized)
  <2>1. PICK u \in Accounts : MayLogIn(u, call[p]) /\ Proceed(p, "sign", Opening(u))
    BY <1>2 DEF FindByEmail
  <2>2. UNCHANGED <<stores, given, clock>>
    BY <1>2, <2>1 DEF FindByEmail, Proceed
  <2>3. /\ pc[p] = "email" /\ call[p] \in Attempts /\ clock \in Nat
    BY DEF FindByEmail, AuthInv, Serving, AuthTypeOK
  <2>4. p \notin barred
    BY <2>1, <2>3 DEF AuthInv, StillBarred, Shut, MayLogIn, Present, StoresOK, UniqueAccounts
  <2>5. /\ Opening(u) \in Grant /\ Opening(u).user = u
        /\ Opening(u).exp = 0 /\ Opening(u).expires = 0
    BY <2>3 DEF Opening, Grant
  <2>6. /\ pc'[p] = "sign" /\ call'[p] = call[p] /\ work'[p] = Opening(u)
        /\ p \notin barred' /\ clock' = clock /\ users' = users
    BY <2>1, <2>2, <2>4 DEF Proceed, AuthInv, AuthTypeOK, stores
  <2>7. Serving(p)' /\ StillBarred(p)'
    BY <2>1, <2>3, <2>5, <2>6 DEF Serving, StillBarred, Known, MayLogIn, Present
  <2> QED
    BY <2>1, <2>2, <2>3, <2>5, <2>7, Untouched, ProceedKeeps DEF Points
<1> QED
  BY <1>1, <1>2

LEMMA SignKeeps ==
  ASSUME AuthInv, NEW p \in Procs, Sign(p)
  PROVE  AuthInv'
<1> DEFINE signed == [work[p] EXCEPT !.exp = clock + AccessTTL]
<1>1. pc[p] = "sign" /\ Proceed(p, "date", signed) /\ UNCHANGED <<stores, given, clock>>
  BY DEF Sign, Proceed
<1>2. /\ call[p] \in Attempts /\ work[p] \in Grant /\ Known(work[p].user)
      /\ clock \in Nat /\ p \notin barred /\ work[p].expires = 0
  BY <1>1 DEF AuthInv, AuthTypeOK, Serving, StillBarred
<1>3. AccessTTL > 0
  BY AuthAssumption
<1>4. /\ signed \in Grant /\ signed.user = work[p].user /\ signed.expires = 0
      /\ 0 < signed.exp /\ signed.exp = clock + AccessTTL
  BY <1>2, <1>3 DEF Grant
<1> HIDE DEF signed
<1>5. /\ pc'[p] = "date" /\ call'[p] = call[p] /\ work'[p] = signed
      /\ p \notin barred' /\ clock' = clock /\ users' = users
  BY <1>1, <1>2 DEF Proceed, AuthInv, AuthTypeOK, stores
<1>6. Serving(p)' /\ StillBarred(p)'
  BY <1>2, <1>4, <1>5 DEF Serving, StillBarred, Known
<1> QED
  BY <1>1, <1>4, <1>6, Untouched, ProceedKeeps DEF Points

LEMMA DateKeeps ==
  ASSUME AuthInv, NEW p \in Procs, Date(p)
  PROVE  AuthInv'
<1> DEFINE dated == [work[p] EXCEPT !.expires = clock + RefreshTTL]
<1>1. pc[p] = "date" /\ Proceed(p, "save", dated) /\ UNCHANGED <<stores, given, clock>>
  BY DEF Date, Proceed
<1>2. /\ call[p] \in Attempts /\ work[p] \in Grant /\ Known(work[p].user)
      /\ clock \in Nat /\ p \notin barred
      /\ 0 < work[p].exp /\ work[p].exp <= clock + AccessTTL
  BY <1>1 DEF AuthInv, AuthTypeOK, Serving, StillBarred
<1>3. /\ dated \in Grant /\ dated.user = work[p].user /\ dated.exp = work[p].exp
      /\ dated.expires = clock + RefreshTTL
  BY <1>2 DEF Grant
<1>4. dated.exp \in Nat /\ dated.exp < dated.expires + AccessTTL /\ 0 < dated.expires
  BY <1>2, <1>3 DEF Grant
<1> HIDE DEF dated
<1>5. /\ pc'[p] = "save" /\ call'[p] = call[p] /\ work'[p] = dated
      /\ p \notin barred' /\ clock' = clock /\ users' = users
  BY <1>1, <1>2 DEF Proceed, AuthInv, AuthTypeOK, stores
<1>6. Serving(p)' /\ StillBarred(p)'
  BY <1>2, <1>3, <1>4, <1>5 DEF Serving, StillBarred, Known
<1> QED
  BY <1>1, <1>3, <1>6, Untouched, ProceedKeeps DEF Points

LEMMA SaveKeeps ==
  ASSUME AuthInv, NEW p \in Procs, Save(p)
  PROVE  AuthInv'
<1> DEFINE row == [user |-> work[p].user, expires |-> work[p].expires, revoked |-> FALSE]
           grant == work[p]
<1>1. CASE Refuse(p, ErrUnauthorized)
  BY <1>1, RefuseKeeps DEF Answers
<1>2. CASE ~Refuse(p, ErrUnauthorized)
  <2>1. PICK t \in Tokens :
          /\ ~Minted(t)
          /\ sessions' = [sessions EXCEPT ![t] = row]
          /\ ends' = [ends EXCEPT ![t] = grant.expires]
          /\ \/ /\ Respond(p, Ok) /\ granted' = granted \cup {grant}
                /\ last' = [last EXCEPT ![t] = grant.exp]
             \/ Respond(p, ErrInternal) /\ granted' = granted /\ last' = last
    BY <1>2 DEF Save, Give
  <2>2. /\ pc[p] = "save" /\ work[p] \in Grant /\ Known(work[p].user)
        /\ clock \in Nat /\ clock' = clock /\ users' = users
    BY <1>2, <2>1 DEF Save, AuthInv, Serving, AuthTypeOK, Respond
  <2>3. /\ row \in Session /\ row.user = grant.user /\ row.expires = grant.expires
        /\ ~row.revoked /\ grant \in Grant /\ Known(grant.user)
    BY <2>2 DEF Grant, Session
  <2>4. /\ grant.expires \in Nat /\ grant.exp \in Nat
        /\ grant.exp <= clock + AccessTTL
        /\ grant.exp < grant.expires + Timeout + AccessTTL
    BY <2>2 DEF Grant, AuthInv, Serving
  <2> HIDE DEF row, grant
  <2>5. /\ sessions' \in [Tokens -> Session \cup {Nothing, Expired}]
        /\ sessions'[t] = row /\ ends'[t] = grant.expires
        /\ ends' \in [Tokens -> Nat] /\ last' \in [Tokens -> Nat]
        /\ last'[t] \in {last[t], grant.exp}
        /\ \A u \in Tokens : u # t => /\ sessions'[u] = sessions[u]
                                      /\ ends'[u] = ends[u] /\ last'[u] = last[u]
    BY <2>1, <2>3, <2>4 DEF AuthInv, AuthTypeOK
  <2>6. Ages
    BY <2>1, <2>2, <2>5 DEF Ages, Known, Present, Minted, Usable, Held, AuthInv, AuthTypeOK
  <2>7. (UniqueAccounts /\ SessionsOwned /\ NothingForgotten)'
    BY <2>2, <2>3, <2>5 DEF AuthInv, StoresOK, UniqueAccounts, SessionsOwned,
       NothingForgotten, Known, Held
  <2>8. GrantsFit' /\ granted' \subseteq Grant
    BY <2>1, <2>2, <2>3, <2>4 DEF AuthInv, AuthTypeOK, StoresOK, GrantsFit, Known
  <2>9. SessionsEnd'
    <3>1. last[t] = 0
      BY <2>1 DEF AuthInv, StoresOK, SessionsEnd
    <3>2. /\ last'[t] <= clock + AccessTTL
          /\ last'[t] <= ends'[t] + Timeout + AccessTTL
      BY <2>2, <2>4, <2>5, <3>1
    <3> QED
      BY <2>2, <2>3, <2>4, <2>5, <3>2 DEF AuthInv, StoresOK, SessionsEnd, Held, Found, Minted
  <2>10. TablesFine'
    BY <2>2, <2>5, <2>7, <2>8, <2>9 DEF TablesFine, StoresOK, AuthInv, AuthTypeOK
  <2> QED
    BY <2>1, <2>6, <2>10, AnswerKeeps DEF Answers
<1> QED
  BY <1>1, <1>2

LEMMA FindSessionKeeps ==
  ASSUME AuthInv, NEW p \in Procs, FindSession(p)
  PROVE  AuthInv'
<1> DEFINE t == call[p].token
           read == [user |-> sessions[t].user, exp |-> 0, expires |-> sessions[t].expires]
<1>1. CASE Refuse(p, ErrUnauthorized)
  BY <1>1, RefuseKeeps DEF Answers
<1>2. CASE ~Refuse(p, ErrUnauthorized)
  <2>1. /\ pc[p] = "session" /\ call[p].op = "refresh"
        /\ Found(t) /\ NotExpired(sessions[t].expires)
        /\ Proceed(p, "user", read)
        /\ UNCHANGED <<stores, given, clock>>
    BY <1>2 DEF FindSession, Proceed
  <2>2. /\ call[p] \in ByCookie /\ t \in Tokens /\ clock \in Nat /\ since[p] <= clock
        /\ since[p] \in Nat
    BY <2>1 DEF AuthInv, Serving, ByCookie, AuthTypeOK, Timely
  <2>3. /\ sessions[t] \in Session /\ Held(t)
        /\ Known(sessions[t].user)
    BY <2>1, <2>2 DEF AuthInv, StoresOK, SessionsOwned, Found, Held, AuthTypeOK
  <2>4. /\ read \in Grant /\ read.user = sessions[t].user /\ since[p] < read.expires
        /\ since[p] <= ends[t] /\ Minted(t)
    BY <2>1, <2>2, <2>3 DEF Grant, Session, NotExpired, AuthInv, StoresOK, SessionsEnd, Held,
       Minted
  <2>5. p \in barred => ~Present(sessions[t].user)
    BY <2>1, <2>2 DEF AuthInv, StillBarred, Usable, Found, NotExpired
  <2>6. /\ pc'[p] = "user" /\ call'[p] = call[p] /\ work'[p] = read /\ users' = users
        /\ since'[p] = since[p] /\ (p \in barred' <=> p \in barred)
        /\ ends' = ends /\ sessions' = sessions /\ call[p].token = t
    BY <2>1 DEF Proceed, AuthInv, AuthTypeOK, stores, given
  <2> HIDE DEF read, t
  <2>7. Serving(p)' /\ StillBarred(p)'
    BY <2>1, <2>2, <2>3, <2>4, <2>5, <2>6 DEF Serving, StillBarred, Known, Present, Minted
  <2> QED
    BY <2>1, <2>4, <2>7, Untouched, ProceedKeeps DEF Points
<1> QED
  BY <1>1, <1>2

LEMMA FindUserForRefreshKeeps ==
  ASSUME AuthInv, NEW p \in Procs, FindUserForRefresh(p)
  PROVE  AuthInv'
<1> DEFINE grant == [work[p] EXCEPT !.exp = clock + AccessTTL]
           t == call[p].token
<1>1. CASE Refuse(p, ErrUnauthorized)
  BY <1>1, RefuseKeeps DEF Answers
<1>2. CASE ~Refuse(p, ErrUnauthorized)
  <2>1. /\ pc[p] = "user" /\ call[p].op = "refresh"
        /\ Respond(p, Ok) /\ granted' = granted \cup {grant}
        /\ last' = [last EXCEPT ![t] = grant.exp]
        /\ UNCHANGED <<users, sessions, ends, clock>>
    BY <1>2 DEF FindUserForRefresh, Give, Respond, stores
  <2>2. /\ work[p] \in Grant /\ Known(work[p].user) /\ since[p] < work[p].expires
        /\ clock <= since[p] + Timeout /\ clock \in Nat /\ since[p] \in Nat
        /\ t \in Tokens /\ since[p] <= ends[t] /\ sessions[t] # Nothing
    BY <2>1 DEF Minted, AuthInv, Serving, Timely, AuthTypeOK, ByCookie, ByAccess
  <2>3. /\ grant \in Grant /\ grant.user = work[p].user
        /\ grant.exp < grant.expires + Timeout + AccessTTL
        /\ grant.exp = clock + AccessTTL
    BY <2>2 DEF Grant
  <2> HIDE DEF grant, t
  <2>4. Ages
    BY <2>1, <2>2 DEF Ages, Known, Present, Minted, Usable, Held, AuthInv, AuthTypeOK
  <2>5. /\ last' \in [Tokens -> Nat] /\ last'[t] = clock + AccessTTL
        /\ \A u \in Tokens : u # t => last'[u] = last[u]
    BY <2>1, <2>2, <2>3 DEF AuthInv, AuthTypeOK
  <2>6. ends[t] \in Nat /\ clock + AccessTTL <= ends[t] + Timeout + AccessTTL
    BY <2>2 DEF AuthInv, AuthTypeOK
  <2>7. SessionsEnd'
    BY <2>1, <2>2, <2>5, <2>6 DEF AuthInv, StoresOK, SessionsEnd, Held, Found, Minted
  <2>8. TablesFine'
    BY <2>1, <2>2, <2>3, <2>5, <2>7 DEF TablesFine, AuthInv, AuthTypeOK, StoresOK,
       UniqueAccounts, SessionsOwned, GrantsFit, NothingForgotten, Known, Held
  <2> QED
    BY <2>1, <2>4, <2>8, AnswerKeeps DEF Answers
<1> QED
  BY <1>1, <1>2

LEMMA FindForLogoutKeeps ==
  ASSUME AuthInv, NEW p \in Procs, FindForLogout(p)
  PROVE  AuthInv'
<1> DEFINE t == call[p].token
           read == [user |-> sessions[t].user, exp |-> 0, expires |-> sessions[t].expires]
<1>1. CASE Refuse(p, Ok)
  BY <1>1, RefuseKeeps DEF Answers
<1>2. CASE ~Refuse(p, Ok)
  <2>1. /\ Durable /\ pc[p] = "session" /\ call[p].op = "logout" /\ Found(t)
        /\ Proceed(p, "revoke", read)
        /\ UNCHANGED <<stores, given, clock>>
    BY <1>2 DEF FindForLogout, Proceed
  <2>2. call[p] \in ByCookie /\ t \in Tokens /\ p \notin barred
    BY <2>1 DEF AuthInv, Serving, ByCookie, StillBarred
  <2>3. sessions[t] \in Session /\ Known(sessions[t].user)
    BY <2>1, <2>2 DEF AuthInv, StoresOK, SessionsOwned, Found, Held, AuthTypeOK
  <2>4. /\ read \in Grant /\ read.user = sessions[t].user /\ sessions'[t] # Nothing
        /\ read.expires = sessions[t].expires
    BY <2>1, <2>3 DEF Grant, Session, Found, Held, stores
  <2>5. /\ pc'[p] = "revoke" /\ call'[p] = call[p] /\ work'[p] = read /\ users' = users
        /\ p \notin barred' /\ ends' = ends
    BY <2>1, <2>2 DEF Proceed, AuthInv, AuthTypeOK, stores, given
  <2> HIDE DEF read, t
  <2>6. Minted(call[p].token)' /\ ends'[call[p].token] <= read.expires
    BY <2>1, <2>2, <2>4, <2>5 DEF Minted, Found, t, AuthInv, StoresOK, SessionsEnd
  <2>7. Serving(p)' /\ StillBarred(p)'
    BY <2>1, <2>2, <2>3, <2>4, <2>5, <2>6 DEF Serving, StillBarred, Known
  <2> QED
    BY <2>1, <2>4, <2>7, Untouched, ProceedKeeps DEF Points
<1> QED
  BY <1>1, <1>2

\* A session that is marked or dropped is of no more use than before.
LEMMA RetiredKeeps ==
  ASSUME AuthInv, NEW t \in Tokens, Minted(t),
         NEW row \in Session \cup {Expired},
         NEW end \in Nat, end <= ends[t], end <= clock, end = ends[t] \/ end = clock,
         row \in Session => row.revoked /\ Known(row.user) /\ end <= row.expires,
         row = Expired => Durable,
         sessions' = [sessions EXCEPT ![t] = row],
         ends' = [ends EXCEPT ![t] = end],
         UNCHANGED <<users, granted, last, clock>>
  PROVE  Ages /\ TablesFine'
<1>1. /\ sessions' \in [Tokens -> Session \cup {Nothing, Expired}]
      /\ ends' \in [Tokens -> Nat]
      /\ sessions'[t] = row /\ ends'[t] = end
      /\ \A u \in Tokens : u # t => sessions'[u] = sessions[u] /\ ends'[u] = ends[u]
      /\ clock \in Nat /\ ends[t] \in Nat
  BY DEF AuthInv, AuthTypeOK
<1>2. Ages
  BY <1>1 DEF Ages, Known, Present, Minted, Usable, Held, AuthInv, AuthTypeOK
<1>3. SessionsEnd'
  <2>1. /\ last[t] \in Nat /\ last[t] <= clock + AccessTTL
        /\ last[t] <= ends[t] + Timeout + AccessTTL
    BY DEF AuthInv, AuthTypeOK, StoresOK, SessionsEnd
  <2>2. last[t] <= end + Timeout + AccessTTL
    BY <1>1, <2>1
  <2>3. ~Found(t)' /\ (Held(t)' => end <= sessions'[t].expires)
    BY <1>1 DEF Found, Held
  <2> QED
    BY <1>1, <2>1, <2>2, <2>3 DEF AuthInv, StoresOK, SessionsEnd, Held, Found, Minted
<1>4. (UniqueAccounts /\ SessionsOwned /\ GrantsFit /\ NothingForgotten)'
  BY <1>1 DEF AuthInv, AuthTypeOK, StoresOK, UniqueAccounts, SessionsOwned,
     GrantsFit, NothingForgotten, Known, Held, Durable
<1>5. TablesFine'
  BY <1>1, <1>3, <1>4 DEF TablesFine, AuthInv, AuthTypeOK, StoresOK
<1> QED
  BY <1>2, <1>5

\* Where the end of a session is moved to when it is revoked.
Ending(t) == IF clock < ends[t] THEN clock ELSE ends[t]

LEMMA Ends ==
  ASSUME AuthInv, NEW t \in Tokens, End(t)
  PROVE  /\ ends' = [ends EXCEPT ![t] = Ending(t)]
         /\ Ending(t) \in Nat /\ Ending(t) <= ends[t] /\ Ending(t) <= clock
         /\ Ending(t) = ends[t] \/ Ending(t) = clock
         /\ ends \in [Tokens -> Nat]
BY DEF AuthInv, AuthTypeOK, End, Ending

LEMMA RevokeKeeps ==
  ASSUME AuthInv, NEW p \in Procs, Revoke(p)
  PROVE  AuthInv'
<1> DEFINE t == call[p].token
           row == [user |-> work[p].user, expires |-> work[p].expires, revoked |-> TRUE]
<1>1. /\ Respond(p, Ok) /\ UNCHANGED <<users, granted, last, clock>>
      /\ \/ TooLate(p) /\ sessions' = sessions
         \/ sessions' = [sessions EXCEPT ![t] = row]
      /\ End(t)
  BY DEF Revoke, Respond
<1>2. /\ call[p] \in ByCookie /\ work[p] \in Grant /\ Known(work[p].user)
      /\ Minted(t) /\ ends[t] <= work[p].expires /\ t \in Tokens /\ clock \in Nat
  BY DEF Revoke, AuthInv, AuthTypeOK, Serving, ByCookie
<1>3. /\ row \in Session /\ row.revoked /\ row.user = work[p].user
      /\ row.expires = work[p].expires /\ work[p].expires \in Nat
  BY <1>2 DEF Grant, Session
<1> HIDE DEF row, t
<1>4. CASE sessions' = [sessions EXCEPT ![t] = row]
  <2>1. sessions' = [sessions EXCEPT ![t] = row]
    BY <1>4
  <2>2. row \in Session \cup {Expired} /\ row # Expired /\ Known(row.user)
    BY <1>2, <1>3
  <2>3. /\ ends' = [ends EXCEPT ![t] = Ending(t)]
        /\ Ending(t) \in Nat /\ Ending(t) <= ends[t] /\ Ending(t) <= clock
        /\ Ending(t) = ends[t] \/ Ending(t) = clock
        /\ ends[t] \in Nat
    BY <1>1, <1>2, Ends
  <2>4. Ending(t) <= row.expires
    BY <1>2, <1>3, <2>3
  <2>5. Ages /\ TablesFine'
    BY <1>1, <1>2, <1>3, <2>1, <2>2, <2>3, <2>4, RetiredKeeps
  <2> QED
    BY <1>1, <2>5, AnswerKeeps DEF Answers
<1>5. CASE TooLate(p) /\ sessions' = sessions
  <2>1. sessions' = sessions /\ ends' = [ends EXCEPT ![t] = Ending(t)]
        /\ ends \in [Tokens -> Nat]
    BY <1>1, <1>2, <1>5, Ends
  <2>2. Ending(t) = ends[t]
    BY <1>2, <1>3, <1>5, <2>1 DEF Ending, TooLate
  <2>3. ends' = ends
    BY <2>1, <2>2
  <2>4. UNCHANGED <<stores, given, clock>>
    BY <1>1, <2>1, <2>3 DEF stores, given
  <2> QED
    BY <1>1, <2>4, Untouched, AnswerKeeps DEF Answers
<1> QED
  BY <1>1, <1>4, <1>5

LEMMA MemRevokeKeeps ==
  ASSUME AuthInv, NEW p \in Procs, MemRevoke(p)
  PROVE  AuthInv'
<1> DEFINE t == call[p].token
           row == [sessions[t] EXCEPT !.revoked = TRUE]
<1>1. /\ ~Durable /\ pc[p] = "session" /\ Respond(p, Ok) /\ End(t)
      /\ UNCHANGED <<users, granted, last, clock>>
      /\ sessions' = [sessions EXCEPT ![t] = row]
  BY DEF MemRevoke, Respond
<1>2. call[p] \in ByCookie /\ Minted(t)
  BY <1>1 DEF AuthInv, Serving
<1>3. t \in Tokens /\ Held(t) /\ sessions[t] \in Session /\ Known(sessions[t].user)
  BY <1>1, <1>2 DEF ByCookie, Minted, Held, AuthInv, AuthTypeOK, StoresOK, SessionsOwned,
     NothingForgotten
<1>4. /\ row \in Session /\ row.revoked /\ row.user = sessions[t].user
      /\ row.expires = sessions[t].expires /\ row.expires \in Nat
  BY <1>3 DEF Session
<1>5. ends[t] <= row.expires
  BY <1>3, <1>4 DEF AuthInv, StoresOK, SessionsEnd
<1> HIDE DEF row, t
<1>6. row \in Session \cup {Expired} /\ row # Expired /\ Known(row.user)
  BY <1>3, <1>4
<1>7. /\ ends' = [ends EXCEPT ![t] = Ending(t)]
      /\ Ending(t) \in Nat /\ Ending(t) <= ends[t] /\ Ending(t) <= clock
      /\ Ending(t) = ends[t] \/ Ending(t) = clock
      /\ ends[t] \in Nat
  BY <1>1, <1>3, Ends
<1>8. Ending(t) <= row.expires
  BY <1>4, <1>5, <1>7
<1>9. Ages /\ TablesFine'
  BY <1>1, <1>2, <1>3, <1>4, <1>6, <1>7, <1>8, RetiredKeeps
<1> QED
  BY <1>1, <1>9, AnswerKeeps DEF Answers

LEMMA ParseAccessKeeps ==
  ASSUME AuthInv, NEW p \in Procs, ParseAccess(p)
  PROVE  AuthInv'
<1>1. CASE Refuse(p, ErrUnauthorized)
  BY <1>1, RefuseKeeps DEF Answers
<1>2. CASE ~Refuse(p, ErrUnauthorized)
  <2>1. /\ pc[p] = "access" /\ clock < call[p].access.exp
        /\ Proceed(p, "user", call[p].access)
        /\ UNCHANGED <<stores, given, clock>>
    BY <1>2 DEF ParseAccess, Proceed
  <2>2. /\ call[p] \in ByAccess /\ call[p].op = "me"
        /\ call[p].access \in Grant /\ Known(call[p].access.user)
        /\ call[p].access.exp \in Nat /\ clock \in Nat
    BY <2>1 DEF AuthInv, Serving, ByAccess, Grant, AuthTypeOK
  <2>3. p \in barred => ~Present(call[p].access.user)
    BY <2>1, <2>2 DEF AuthInv, StillBarred
  <2>4. /\ pc'[p] = "user" /\ call'[p] = call[p] /\ work'[p] = call[p].access
        /\ users' = users /\ (p \in barred' <=> p \in barred)
    BY <2>1 DEF Proceed, AuthInv, AuthTypeOK, stores
  <2>5. Serving(p)' /\ StillBarred(p)'
    BY <2>2, <2>3, <2>4 DEF Serving, StillBarred, Known, Present
  <2> QED
    BY <2>1, <2>2, <2>5, Untouched, ProceedKeeps DEF Points
<1> QED
  BY <1>1, <1>2

\* What a failed call is answered with, and that it is never a success for a
\* credential that was refusable.
LEMMA FaultAnswers ==
  ASSUME AuthInv, NEW p \in Procs, pc[p] \notin {"idle", "sign", "date", "access"}
  PROVE  /\ FaultAnswer(p) \in Answers
         /\ p \in barred => FaultAnswer(p) # Ok
<1>1. pc[p] \in {"create", "email", "save", "session", "revoke", "user"}
  BY DEF AuthInv, AuthTypeOK, Points
<1>2. Serving(p) /\ StillBarred(p)
  BY DEF AuthInv
<1>3. CASE call[p].op = "logout"
  <2>1. pc[p] \in {"session", "revoke"}
    BY <1>1, <1>2, <1>3 DEF Serving, Credentials
  <2>2. FaultAnswer(p) = Ok
    BY <1>3, <2>1 DEF FaultAnswer
  <2> QED
    BY <1>2, <1>3, <2>1, <2>2 DEF StillBarred, Answers
<1>4. CASE call[p].op # "logout"
  <2>1. CASE pc[p] = "email"
    <3>1. call[p].op = "login"
      BY <1>2, <2>1 DEF Serving
    <3> QED
      BY <2>1, <3>1 DEF FaultAnswer, Answers, Ok, ErrUnauthorized
  <2>2. CASE pc[p] \in {"create", "save"}
    <3>1. call[p].op # "refresh" /\ p \notin barred
      BY <1>2, <2>2 DEF Serving, StillBarred, Credentials
    <3> QED
      BY <1>4, <2>2, <3>1 DEF FaultAnswer, Answers
  <2>3. CASE pc[p] = "session"
    <3>1. call[p].op = "refresh"
      BY <1>2, <1>4, <2>3 DEF Serving, ByCookie
    <3> QED
      BY <2>3, <3>1 DEF FaultAnswer, Answers, Ok, ErrUnauthorized
  <2>4. CASE pc[p] = "user"
    BY <1>4, <2>4 DEF FaultAnswer, Answers, Ok, ErrUnauthorized, ErrInternal
  <2> QED
    BY <1>1, <1>2, <1>4, <2>1, <2>2, <2>3, <2>4 DEF Serving
<1> QED
  BY <1>3, <1>4

LEMMA StoreFaultKeeps ==
  ASSUME AuthInv, NEW p \in Procs, StoreFault(p)
  PROVE  AuthInv'
BY FaultAnswers, RefuseKeeps DEF StoreFault

LEMMA FindUserForAccessKeeps ==
  ASSUME AuthInv, NEW p \in Procs, FindUserForAccess(p)
  PROVE  AuthInv'
BY RefuseKeeps DEF FindUserForAccess, Answers

\* A step of the environment: every process stays where it is.
LEMMA OutsideKeeps ==
  ASSUME AuthInv, UNCHANGED handlers, Ages, TablesFine', clock' \in 0 .. MaxTime,
         \A p \in Procs : pc[p] # "idle" => clock' <= since[p] + Timeout
  PROVE  AuthInv'
<1>1. AuthTypeOK'
  BY DEF handlers, AuthInv, AuthTypeOK, TablesFine
<1>2. ASSUME NEW p \in Procs PROVE Serving(p)' /\ Timely(p)' /\ StillBarred(p)'
  <2>1. Still(p)
    BY DEF handlers, Still
  <2> QED
    BY <1>1, <2>1, StillKeeps
<1> QED
  BY <1>1, <1>2 DEF AuthInv, TablesFine

LEMMA InTime ==
  ASSUME AuthInv
  PROVE  /\ clock \in 0 .. MaxTime
         /\ \A p \in Procs : pc[p] # "idle" => clock <= since[p] + Timeout
BY DEF AuthInv, AuthTypeOK, Timely

LEMMA TickKeeps ==
  ASSUME AuthInv, Tick
  PROVE  AuthInv'
<1>1. clock \in Nat /\ clock' = clock + 1 /\ clock' \in 0 .. MaxTime
  BY DEF AuthInv, AuthTypeOK, Tick
<1>2. Ages
  BY <1>1 DEF Tick, handlers, given, Ages, Known, Present, Minted, Usable, Held, Session,
     AuthInv, AuthTypeOK
<1>3. TablesFine'
  <2>1. UNCHANGED <<users, sessions, granted, last, ends>>
    BY DEF Tick, handlers, given
  <2>2. SessionsEnd'
    BY <1>1, <2>1 DEF AuthInv, AuthTypeOK, StoresOK, SessionsEnd, Held, Found, Minted
  <2> QED
    BY <2>1, <2>2 DEF TablesFine, AuthInv, AuthTypeOK, StoresOK, UniqueAccounts,
       SessionsOwned, GrantsFit, NothingForgotten, Known, Held
<1>4. \A p \in Procs : pc[p] # "idle" => clock' <= since[p] + Timeout
  BY <1>1 DEF Tick, AuthInv, AuthTypeOK
<1>5. UNCHANGED handlers
  BY DEF Tick
<1> QED
  BY <1>1, <1>2, <1>3, <1>4, <1>5, OutsideKeeps

LEMMA EvictKeeps ==
  ASSUME AuthInv, NEW t \in Tokens, Evict(t)
  PROVE  AuthInv'
<1>1. UNCHANGED <<users, granted, last, clock>> /\ UNCHANGED handlers /\ ends' = ends
  BY DEF Evict, handlers, given
<1>2. Expired \in Session \cup {Expired} /\ Expired \notin Session /\ Minted(t) /\ Durable
  BY DEF Evict, Held, Minted
<1>3. sessions[t] \in Session /\ ends \in [Tokens -> Nat] /\ clock \in Nat
  BY DEF Evict, Held, AuthInv, AuthTypeOK
<1>4. ends[t] \in Nat /\ ends[t] <= clock
  BY <1>3 DEF Evict, AuthInv, StoresOK, SessionsEnd, Session
<1>5. /\ ends' = [ends EXCEPT ![t] = ends[t]]
      /\ sessions' = [sessions EXCEPT ![t] = Expired]
  BY <1>1, <1>3 DEF Evict
<1>6. Ages /\ TablesFine'
  <2> DEFINE end == ends[t]
  <2>1. /\ end \in Nat /\ end <= ends[t] /\ end <= clock /\ end = ends[t]
        /\ ends' = [ends EXCEPT ![t] = end]
    BY <1>4, <1>5
  <2> HIDE DEF end
  <2> QED
    BY <1>1, <1>2, <1>5, <2>1, RetiredKeeps
<1> QED
  BY <1>1, <1>6, InTime, OutsideKeeps

\* An operator suspends or removes an account.
LEMMA AccountKeeps ==
  ASSUME AuthInv, NEW u \in Accounts, Known(u), NEW row \in Account,
         row.email = users[u].email, row.handle = users[u].handle,
         users[u].removed => row.removed,
         users[u].status # "active" => row.status # "active",
         users' = [users EXCEPT ![u] = row],
         UNCHANGED <<sessions, clock>>, UNCHANGED handlers
  PROVE  AuthInv'
<1>1. /\ users' \in [Accounts -> Account \cup {Nothing}]
      /\ users'[u] = row /\ row # Nothing
      /\ \A v \in Accounts : v # u => users'[v] = users[v]
      /\ clock \in Nat /\ UNCHANGED <<granted, last, ends>> /\ ends \in [Tokens -> Nat]
  BY DEF AuthInv, AuthTypeOK, handlers, given
<1>2. Ages
  BY <1>1 DEF Ages, Known, Present, Minted, Usable, Held
<1>3. UniqueAccounts'
  BY <1>1 DEF UniqueAccounts, Known, AuthInv, StoresOK
<1>4. (SessionsOwned /\ GrantsFit /\ NothingForgotten /\ SessionsEnd)'
  BY <1>1 DEF AuthInv, AuthTypeOK, StoresOK, SessionsOwned, GrantsFit, NothingForgotten,
     SessionsEnd, Held, Found, Minted, Known, Session, Grant
<1>5. TablesFine'
  BY <1>1, <1>3, <1>4 DEF TablesFine, StoresOK, AuthInv, AuthTypeOK
<1> QED
  BY <1>2, <1>5, InTime, OutsideKeeps

LEMMA OperatorKeeps ==
  ASSUME AuthInv, NEW u \in Accounts, Suspend(u) \/ Remove(u)
  PROVE  AuthInv'
<1>1. Known(u) /\ users[u] \in Account /\ UNCHANGED <<sessions, clock>> /\ UNCHANGED handlers
  BY DEF Suspend, Remove, Present, Known, AuthInv, AuthTypeOK
<1>2. CASE Suspend(u)
  <2> DEFINE row == [users[u] EXCEPT !.status = "suspended"]
  <2>1. /\ row \in Account /\ row.email = users[u].email /\ row.handle = users[u].handle
        /\ row.removed = users[u].removed /\ row.status # "active"
    BY <1>1 DEF Account
  <2>2. users' = [users EXCEPT ![u] = row]
    BY <1>2 DEF Suspend
  <2> HIDE DEF row
  <2> QED
    BY <1>1, <2>1, <2>2, AccountKeeps
<1>3. CASE Remove(u)
  <2> DEFINE row == [users[u] EXCEPT !.removed = TRUE]
  <2>1. /\ row \in Account /\ row.email = users[u].email /\ row.handle = users[u].handle
        /\ row.removed /\ row.status = users[u].status
    BY <1>1 DEF Account
  <2>2. users' = [users EXCEPT ![u] = row]
    BY <1>3 DEF Remove
  <2> HIDE DEF row
  <2> QED
    BY <1>1, <2>1, <2>2, AccountKeeps
<1> QED
  BY <1>2, <1>3

LEMMA AuthStutter ==
  ASSUME AuthInv, UNCHANGED authVars
  PROVE  AuthInv'
<1>1. UNCHANGED <<stores, given, clock>> /\ UNCHANGED handlers
  BY DEF authVars, stores, handlers, given
<1> QED
  BY <1>1, Untouched, InTime, OutsideKeeps

LEMMA AuthStep == AuthInv /\ [AuthNext]_authVars => AuthInv'
<1> SUFFICES ASSUME AuthInv, [AuthNext]_authVars PROVE AuthInv'
  OBVIOUS
<1>1. ASSUME NEW p \in Procs, BeginCredentials(p) PROVE AuthInv'
  BY <1>1, BeginKeeps DEF BeginCredentials
<1>2. ASSUME NEW p \in Procs, BeginByCookie(p) PROVE AuthInv'
  BY <1>2, BeginKeeps DEF BeginByCookie
<1>3. ASSUME NEW p \in Procs, BeginByAccess(p) PROVE AuthInv'
  BY <1>3, BeginKeeps DEF BeginByAccess
<1>4. ASSUME NEW p \in Procs, Advance(p) PROVE AuthInv'
  BY <1>4, CreateUserKeeps, FindByEmailKeeps, SignKeeps, DateKeeps, SaveKeeps, FindSessionKeeps,
     FindUserForRefreshKeeps, FindForLogoutKeeps, RevokeKeeps, MemRevokeKeeps,
     ParseAccessKeeps, FindUserForAccessKeeps, StoreFaultKeeps
     DEF Advance
<1>5. CASE Tick \/ (\E t \in Tokens : Evict(t))
           \/ \E u \in Accounts : Suspend(u) \/ Remove(u)
  BY <1>5, TickKeeps, EvictKeeps, OperatorKeeps
<1> QED
  BY <1>1, <1>2, <1>3, <1>4, <1>5, AuthStutter DEF AuthNext

-----------------------------------------------------------------------------
(* The theorems *)

\* What every handler holds fits the tables and the clock.
THEOREM AuthInvariant == AuthSpec => []AuthInv
BY AuthInitInv, AuthStep, PTL DEF AuthSpec

\* Every variable keeps its type.
THEOREM AuthTypes == AuthSpec => []AuthTypeOK
<1>1. AuthInv => AuthTypeOK
  BY DEF AuthInv
<1> QED
  BY <1>1, AuthInvariant, PTL

\* No race of registrations, and no removal, gives an email or a handle to two
\* accounts: PostgresUserStore.CreateUser inserts under unique constraints.
THEOREM AccountsStayUnique == AuthSpec => []UniqueAccounts
<1>1. AuthInv => UniqueAccounts
  BY DEF AuthInv, StoresOK
<1> QED
  BY <1>1, AuthInvariant, PTL

\* Service.Refresh may be delayed between its reads of Redis, the clock and
\* Postgres, but not beyond the deadline: what it signs expires soon enough.
THEOREM AccessStaysBounded == AuthSpec => []AccessBounded
<1>1. AuthInv => AccessBounded
  BY DEF AuthInv, StoresOK, GrantsFit, SessionsEnd, AccessBounded
<1> QED
  BY <1>1, AuthInvariant, PTL

\* The last step of a request that was refusable when it came.
LEMMA BarredRefused ==
  ASSUME AuthInv, NEW p \in Procs, p \in barred, Advance(p), pc'[p] = "idle"
  PROVE  resp'[p] # Ok
<1>1. /\ Serving(p) /\ StillBarred(p) /\ AuthTypeOK /\ UniqueAccounts
      /\ pc[p] \in {"email", "session", "access", "user"}
  BY DEF AuthInv, StoresOK, StillBarred
<1>2. ASSUME NEW answer, Respond(p, answer) PROVE resp'[p] = answer
  BY <1>1, <1>2 DEF Respond, AuthTypeOK
<1>3. CASE FindByEmail(p)
  <2>1. \A u \in Accounts : ~MayLogIn(u, call[p])
    BY <1>1, <1>3 DEF FindByEmail, StillBarred, Shut, MayLogIn, Present, UniqueAccounts
  <2> QED
    BY <1>2, <1>3, <2>1 DEF FindByEmail, Refuse, Ok, ErrUnauthorized
<1>4. CASE FindSession(p)
  <2>1. Proceed(p, "user", work'[p]) => pc'[p] # "idle"
    BY <1>1 DEF Proceed, AuthTypeOK
  <2> QED
    BY <1>1, <1>2, <1>4, <2>1 DEF FindSession, Refuse, Proceed, Ok, ErrUnauthorized,
       AuthTypeOK
<1>5. CASE FindUserForRefresh(p)
  BY <1>1, <1>2, <1>5 DEF FindUserForRefresh, StillBarred, Refuse, Ok, ErrUnauthorized
<1>6. CASE ParseAccess(p)
  BY <1>1, <1>2, <1>6 DEF ParseAccess, Refuse, Proceed, Ok, ErrUnauthorized, AuthTypeOK
<1>7. CASE FindUserForAccess(p)
  BY <1>1, <1>2, <1>7 DEF FindUserForAccess, StillBarred, Refuse, Ok, ErrUnauthorized
<1>8. CASE StoreFault(p)
  BY <1>2, <1>8, FaultAnswers DEF StoreFault, Refuse
<1>9. CASE FindForLogout(p) \/ MemRevoke(p)
  BY <1>1, <1>9 DEF FindForLogout, MemRevoke, StillBarred
<1> QED
  BY <1>1, <1>3, <1>4, <1>5, <1>6, <1>7, <1>8, <1>9
     DEF Advance, CreateUser, Sign, Date, Save, Revoke

\* A step that moves one process leaves the others where they are.
LEMMA OthersWait ==
  ASSUME AuthInv, AuthNext, NEW p \in Procs, pc[p] # "idle", pc'[p] = "idle"
  PROVE  Advance(p)
<1>1. ASSUME NEW q \in Procs, NEW req, Begin(q, req) PROVE FALSE
  <2>1. q = p \/ pc'[p] = pc[p]
    BY <1>1 DEF Begin, AuthInv, AuthTypeOK
  <2> QED
    BY <1>1, <2>1 DEF Begin
<1>2. ASSUME NEW q \in Procs, Advance(q), q # p PROVE FALSE
  <2>1. \/ \E answer : Respond(q, answer)
        \/ \E point, grant : Proceed(q, point, grant)
    BY <1>2 DEF Advance, CreateUser, FindByEmail, Sign, Date, Save, FindSession, FindUserForRefresh,
       FindForLogout, Revoke, MemRevoke, ParseAccess, FindUserForAccess, StoreFault, Refuse
  <2>2. pc'[p] = pc[p]
    BY <1>2, <2>1 DEF Respond, Proceed, AuthInv, AuthTypeOK
  <2> QED
    BY <2>2
<1>3. ~UNCHANGED pc
  OBVIOUS
<1>4. \E q \in Procs : Advance(q)
  BY <1>1, <1>3 DEF AuthNext, BeginCredentials, BeginByCookie, BeginByAccess, Tick, Evict,
     Suspend, Remove, handlers
<1> QED
  BY <1>2, <1>4

\* Service.Login, Refresh and AuthenticateAccessToken read one thing after the
\* other: none honours what was refusable before the first of these reads.
THEOREM BarredStayRefused == AuthSpec => BarredNeverServed
<1> DEFINE Step == \A p \in Procs : p \in barred /\ pc'[p] = "idle" => resp'[p] # Ok
<1>1. AuthInv /\ [AuthNext]_authVars => [Step]_authVars
  <2> SUFFICES ASSUME AuthInv, AuthNext, NEW p \in Procs, p \in barred, pc'[p] = "idle"
               PROVE  resp'[p] # Ok
    OBVIOUS
  <2>1. pc[p] # "idle"
    BY DEF AuthInv, StillBarred
  <2> QED
    BY <2>1, OthersWait, BarredRefused
<1> QED
  BY <1>1, AuthInvariant, PTL DEF AuthSpec, BarredNeverServed

\* On MemoryRefreshStore a logout that is answered has revoked the session: the
\* run on Redis shows that it need not have there.
THEOREM MemoryLogoutRevokes == ASSUME ~Durable PROVE AuthSpec => LogoutRevokes
<1> DEFINE Step == \A p \in Procs :
                     /\ pc[p] # "idle"
                     /\ pc'[p] = "idle"
                     /\ call[p].op = "logout"
                     => call[p].token \notin UsableTokens'
<1>1. AuthInv /\ [AuthNext]_authVars => [Step]_authVars
  <2> SUFFICES ASSUME AuthInv, AuthNext, NEW p \in Procs,
                      pc[p] # "idle", pc'[p] = "idle", call[p].op = "logout"
               PROVE  call[p].token \notin UsableTokens'
    OBVIOUS
  <2>1. Advance(p)
    BY OthersWait
  <2>2. Serving(p) /\ AuthTypeOK
    BY DEF AuthInv
  <2>3. pc[p] = "session"
    <3>1. pc[p] # "revoke" /\ pc[p] # "user"
      BY <2>2 DEF Serving
    <3>2. pc[p] \notin {"create", "email", "sign", "date", "save", "access"}
      BY <2>2 DEF Serving, Credentials, ByAccess
    <3> QED
      BY <2>2, <3>1, <3>2 DEF AuthTypeOK, Points
  <2>4. MemRevoke(p)
    BY <2>1, <2>3 DEF Advance, CreateUser, FindByEmail, Sign, Date, Save, FindSession,
       FindUserForRefresh, FindForLogout, Revoke, ParseAccess, FindUserForAccess, StoreFault
  <2>5. call[p].token \in Tokens /\ sessions[call[p].token] \in Session
    BY <2>2, <2>3 DEF Serving, ByCookie, Minted, AuthTypeOK, AuthInv, StoresOK,
       NothingForgotten
  <2>6. sessions'[call[p].token].revoked
    BY <2>2, <2>4, <2>5 DEF MemRevoke, AuthTypeOK, Session
  <2> QED
    BY <2>6 DEF UsableTokens, Usable
<1> QED
  BY <1>1, AuthInvariant, PTL DEF AuthSpec, LogoutRevokes

-----------------------------------------------------------------------------
(* The refinement: every step is one of the policy or leaves it alone *)

LEMMA PolicyStart == ASSUME AuthInit PROVE Policy!PolicyInit
BY DEF AuthInit, Policy!PolicyInit, MembersOf, MemberOf, Known, LeasesOf, LeaseOf, Usable,
   Held, Minted, ErrandsOf, ErrandOf, Decided

\* Only the errand of the process that moves changes.
LEMMA ErrandMoves ==
  ASSUME NEW p \in Procs,
         \A q \in Procs : q # p => /\ pc'[q] = pc[q] /\ call'[q] = call[q]
                                   /\ work'[q] = work[q] /\ since'[q] = since[q]
  PROVE  ErrandsOf' = [ErrandsOf EXCEPT ![p] = ErrandOf(p)']
BY DEF ErrandsOf, ErrandOf, Decided

LEMMA RespondMoves ==
  ASSUME AuthInv, NEW p \in Procs, NEW answer, Respond(p, answer)
  PROVE  ErrandsOf' = [ErrandsOf EXCEPT ![p] = Nothing] /\ clock' = clock
<1>1. \A q \in Procs : q # p => /\ pc'[q] = pc[q] /\ call'[q] = call[q]
                                /\ work'[q] = work[q] /\ since'[q] = since[q]
  BY DEF Respond, AuthInv, AuthTypeOK
<1>2. ErrandOf(p)' = Nothing
  BY DEF Respond, AuthInv, AuthTypeOK, ErrandOf, Decided
<1> QED
  BY <1>1, <1>2, ErrandMoves DEF Respond

LEMMA ProceedMoves ==
  ASSUME AuthInv, NEW p \in Procs, NEW point, NEW grant, Proceed(p, point, grant)
  PROVE  /\ ErrandsOf' = [ErrandsOf EXCEPT ![p] = ErrandOf(p)']
         /\ pc'[p] = point /\ work'[p] = grant /\ call'[p] = call[p]
         /\ since'[p] = since[p] /\ clock' = clock
<1>1. \A q \in Procs : q # p => /\ pc'[q] = pc[q] /\ call'[q] = call[q]
                                /\ work'[q] = work[q] /\ since'[q] = since[q]
  BY DEF Proceed, AuthInv, AuthTypeOK
<1> QED
  BY <1>1, ErrandMoves DEF Proceed, AuthInv, AuthTypeOK

LEMMA TablesSame ==
  ASSUME UNCHANGED <<users, sessions, clock>>
  PROVE  MembersOf' = MembersOf /\ LeasesOf' = LeasesOf
BY DEF MembersOf, MemberOf, Known, Standing, LeasesOf, LeaseOf, Usable, Held, Minted

\* A process without a decision, or that drops the one it took.
LEMMA Forgets ==
  ASSUME NEW p \in Procs, ErrandsOf' = [ErrandsOf EXCEPT ![p] = Nothing],
         UNCHANGED <<users, sessions, clock, granted>>
  PROVE  Policy!PolicyNext
<1>1. MembersOf' = MembersOf /\ LeasesOf' = LeasesOf
  BY TablesSame
<1>2. Policy!Forget(p)
  BY <1>1 DEF Policy!Forget, Policy!Take
<1> QED
  BY <1>2 DEF Policy!PolicyNext

LEMMA RefuseForgets ==
  ASSUME AuthInv, NEW p \in Procs, NEW answer, Refuse(p, answer)
  PROVE  Policy!PolicyNext
<1>1. Respond(p, answer) /\ UNCHANGED <<users, sessions, granted>>
  BY DEF Refuse, stores, given
<1> QED
  BY <1>1, RespondMoves, Forgets

\* A store call that decides nothing.
LEMMA ProceedForgets ==
  ASSUME AuthInv, NEW p \in Procs, NEW point, NEW grant, Proceed(p, point, grant),
         UNCHANGED <<stores, given>>,
         point = "revoke" \/ (point = "user" /\ call[p].op # "refresh")
  PROVE  Policy!PolicyNext
<1>1. ErrandOf(p)' = Nothing
  BY ProceedMoves DEF ErrandOf, Decided
<1> QED
  BY <1>1, ProceedMoves, Forgets DEF stores, given

LEMMA BeginForgets ==
  ASSUME AuthInv, NEW p \in Procs, NEW req, Begin(p, req),
         req.op \in {"register", "login", "refresh", "logout", "me"}
  PROVE  Policy!PolicyNext
<1>1. \A q \in Procs : q # p => /\ pc'[q] = pc[q] /\ call'[q] = call[q]
                                /\ work'[q] = work[q] /\ since'[q] = since[q]
  BY DEF Begin, AuthInv, AuthTypeOK
<1>2. pc'[p] \in {"create", "email", "session", "access"}
  BY DEF Begin, FirstCall, AuthInv, AuthTypeOK
<1>3. ErrandOf(p)' = Nothing
  BY <1>2 DEF ErrandOf, Decided
<1> QED
  BY <1>1, <1>3, ErrandMoves, Forgets DEF Begin, given

\* The deadline of a request is as long away as the policy allows.
LEMMA DeadlineAhead ==
  ASSUME AuthInv, NEW p \in Procs, pc[p] # "idle"
  PROVE  /\ since[p] + Timeout \in clock .. clock + Timeout
         /\ clock <= since[p] + Timeout
BY DEF AuthInv, AuthTypeOK, Timely

\* The policy's records, and never its Nothing, where there is an account, a
\* usable session or a decision.
LEMMA MembersAre ==
  ASSUME AuthInv, NEW u \in Accounts, Known(u)
  PROVE  MembersOf[u] \in Member /\ MembersOf[u] # Nothing
<1>1. users[u] \in Account
  BY DEF AuthInv, AuthTypeOK, Known
<1>2. MemberOf(u) \in Member
  BY <1>1 DEF MemberOf, Standing, Member, Account
<1> QED
  BY <1>2 DEF MembersOf

LEMMA LeasesAre ==
  ASSUME AuthInv, NEW t \in Tokens
  PROVE  /\ Policy!Lives(t) <=> Usable(t)
         /\ LeasesOf[t] = Nothing <=> ~Minted(t)
         /\ Usable(t) => LeasesOf[t] = [user |-> sessions[t].user,
                                       expires |-> sessions[t].expires]
<1>1. Usable(t) => LeaseOf(t) \in Lease /\ Minted(t)
  BY DEF Usable, Held, Minted, LeaseOf, Lease, Session, AuthInv, AuthTypeOK
<1>2. Usable(t) => LeaseOf(t) = [user |-> sessions[t].user, expires |-> sessions[t].expires]
  BY DEF LeaseOf
<1>3. ~Usable(t) => LeaseOf(t) = IF Minted(t) THEN Expired ELSE Nothing
  BY DEF LeaseOf
<1>4. LeasesOf[t] = LeaseOf(t)
  BY DEF LeasesOf
<1> QED
  BY <1>1, <1>2, <1>3, <1>4 DEF Policy!Lives

LEMMA ErrandsAre ==
  ASSUME AuthInv, NEW p \in Procs, Decided(p)
  PROVE  ErrandsOf[p] # Nothing /\ ErrandsOf[p] = ErrandOf(p)
<1>1. /\ work[p] \in Grant /\ since[p] + Timeout \in Nat
  BY DEF Decided, AuthInv, AuthTypeOK, Serving
<1>2. ErrandOf(p) \in Errand
  BY <1>1 DEF ErrandOf, Errand, Grant
<1> QED
  BY <1>2 DEF ErrandsOf

LEMMA CreateUserEnrolls ==
  ASSUME AuthInv, NEW p \in Procs, CreateUser(p)
  PROVE  Policy!PolicyNext
<1>1. CASE Refuse(p, ErrConflict)
  BY <1>1, RefuseForgets
<1>2. CASE ~Refuse(p, ErrConflict)
  <2>1. /\ pc[p] = "create" /\ call[p] \in Credentials /\ clock \in Nat
        /\ call[p].email \in Emails /\ call[p].handle \in Handles
    BY DEF CreateUser, AuthInv, Serving, AuthTypeOK, Credentials
  <2>2. PICK u \in Accounts :
          /\ ~Known(u)
          /\ users' = [users EXCEPT ![u] = NewAccount(call[p])]
          /\ UNCHANGED <<sessions, given>>
          /\ Proceed(p, "sign", Opening(u)) \/ Respond(p, ErrInternal)
    BY <1>2 DEF CreateUser
  <2>3. \A v \in Accounts : Known(v) => /\ users[v].email # call[p].email
                                       /\ users[v].handle # call[p].handle
    BY <1>2 DEF CreateUser
  <2>4. clock' = clock
    BY <2>2, RespondMoves, ProceedMoves
  <2>5. LeasesOf' = LeasesOf /\ granted' = granted
    BY <2>2, <2>4 DEF LeasesOf, LeaseOf, Usable, Held, Minted, given
  <2>6. NewAccount(call[p]) # Nothing
    <3>1. call[p].password \in Passwords
      BY <2>1 DEF Credentials
    <3>2. NewAccount(call[p]) \in Account
      BY <2>1, <3>1 DEF NewAccount, Account
    <3> QED
      BY <3>2
  <2>7. MembersOf' = [MembersOf EXCEPT ![u] = [email |-> call[p].email,
                                               handle |-> call[p].handle,
                                               standing |-> "active"]]
    <3>1. /\ users'[u] = NewAccount(call[p])
          /\ \A v \in Accounts : v # u => users'[v] = users[v]
      BY <2>2 DEF AuthInv, AuthTypeOK
    <3>2. MemberOf(u)' = [email |-> call[p].email, handle |-> call[p].handle,
                          standing |-> "active"]
      BY <2>6, <3>1 DEF MemberOf, Known, Standing, NewAccount
    <3>3. \A v \in Accounts : v # u => MemberOf(v)' = MemberOf(v)
      BY <3>1 DEF MemberOf, Known, Standing
    <3> QED
      BY <3>2, <3>3 DEF MembersOf
  <2>8. /\ MembersOf[u] = Nothing
        /\ \A v \in Accounts : MembersOf[v] # Nothing => /\ MembersOf[v].email # call[p].email
                                                        /\ MembersOf[v].handle # call[p].handle
    BY <2>2, <2>3 DEF MembersOf, MemberOf
  <2>9. \/ ErrandsOf' = ErrandsOf
        \/ \E by \in clock .. clock + Timeout :
             ErrandsOf' = [ErrandsOf EXCEPT ![p] = Policy!ToOpen(u, by)]
    <3>1. CASE Proceed(p, "sign", Opening(u))
      <4>1. ErrandOf(p)' = Policy!ToOpen(u, since[p] + Timeout)
        BY <3>1, ProceedMoves DEF ErrandOf, Decided, Policy!ToOpen, Opening
      <4> QED
        BY <2>1, <3>1, <4>1, ProceedMoves, DeadlineAhead
    <3>2. CASE Respond(p, ErrInternal)
      <4>1. ErrandsOf[p] = Nothing
        BY <2>1 DEF ErrandsOf, ErrandOf, Decided
      <4> QED
        BY <3>2, <4>1, RespondMoves DEF ErrandsOf
    <3> QED
      BY <2>2, <3>1, <3>2
  <2>10. Policy!Enroll(p, u)
    BY <2>1, <2>4, <2>5, <2>7, <2>8, <2>9 DEF Policy!Enroll, Policy!Take
  <2> QED
    BY <2>10 DEF Policy!PolicyNext
<1> QED
  BY <1>1, <1>2

LEMMA FindByEmailAdmits ==
  ASSUME AuthInv, NEW p \in Procs, FindByEmail(p)
  PROVE  Policy!PolicyNext
<1>1. CASE Refuse(p, ErrUnauthorized)
  BY <1>1, RefuseForgets
<1>2. CASE ~Refuse(p, ErrUnauthorized)
  <2>1. PICK u \in Accounts : MayLogIn(u, call[p]) /\ Proceed(p, "sign", Opening(u))
    BY <1>2 DEF FindByEmail
  <2>2. pc[p] = "email" /\ UNCHANGED <<users, sessions, granted, clock>>
    BY <1>2, <2>1 DEF FindByEmail, Proceed, stores, given
  <2>3. ErrandOf(p)' = Policy!ToOpen(u, since[p] + Timeout)
    BY <2>1, ProceedMoves DEF ErrandOf, Decided, Policy!ToOpen, Opening
  <2>4. \E by \in clock .. clock + Timeout : Policy!Take(p, Policy!ToOpen(u, by))
    BY <2>1, <2>2, <2>3, ProceedMoves, DeadlineAhead DEF Policy!Take
  <2>5. MembersOf[u] # Nothing /\ MembersOf[u].standing = "active"
    BY <2>1, MembersAre DEF MayLogIn, Present, MemberOf, MembersOf, Standing
  <2>6. Policy!Admit(p, u)
    BY <2>2, <2>4, <2>5, TablesSame DEF Policy!Admit
  <2> QED
    BY <2>6 DEF Policy!PolicyNext
<1> QED
  BY <1>1, <1>2

\* The errand of a process that is about to sign or to save.
LEMMA OpeningErrand ==
  ASSUME AuthInv, NEW p \in Procs, pc[p] \in {"sign", "date", "save"}
  PROVE  /\ Policy!Acts(p, "open")
         /\ ErrandsOf[p] = ErrandOf(p)
         /\ ErrandsOf[p].user = work[p].user /\ ErrandsOf[p].exp = work[p].exp
         /\ ErrandsOf[p].expires = work[p].expires
<1>1. Decided(p)
  BY DEF Decided
<1>2. ErrandsOf[p] # Nothing /\ ErrandsOf[p] = ErrandOf(p)
  BY <1>1, ErrandsAre
<1>3. clock <= since[p] + Timeout
  BY DeadlineAhead
<1> QED
  BY <1>1, <1>2, <1>3 DEF ErrandOf, Policy!Acts

LEMMA SignSigns ==
  ASSUME AuthInv, NEW p \in Procs, Sign(p)
  PROVE  Policy!PolicyNext
<1> DEFINE signed == [work[p] EXCEPT !.exp = clock + AccessTTL]
<1>1. /\ pc[p] = "sign" /\ Proceed(p, "date", signed)
      /\ UNCHANGED <<users, sessions, granted>>
  BY DEF Sign, stores, given
<1>2. work[p] \in Grant /\ work[p].exp = 0
  BY <1>1 DEF AuthInv, Serving
<1>3. /\ Policy!Acts(p, "open") /\ ErrandsOf[p] = ErrandOf(p)
      /\ ~Policy!Signed(ErrandsOf[p])
  BY <1>1, <1>2, OpeningErrand DEF Policy!Signed
<1>4. /\ signed.user = work[p].user /\ signed.exp = clock + AccessTTL
      /\ signed.expires = work[p].expires
  BY <1>2 DEF Grant
<1> HIDE DEF signed
<1>5. /\ ErrandsOf' = [ErrandsOf EXCEPT ![p] = ErrandOf(p)']
      /\ pc'[p] = "date" /\ work'[p] = signed /\ since'[p] = since[p] /\ clock' = clock
  BY <1>1, ProceedMoves
<1>6. ErrandOf(p)' = [ErrandsOf[p] EXCEPT !.exp = clock + AccessTTL]
  BY <1>1, <1>3, <1>4, <1>5 DEF ErrandOf, Decided
<1>7. Policy!Sign(p)
  BY <1>1, <1>3, <1>5, <1>6, TablesSame DEF Policy!Sign, Policy!Take
<1> QED
  BY <1>7 DEF Policy!PolicyNext

LEMMA DateDates ==
  ASSUME AuthInv, NEW p \in Procs, Date(p)
  PROVE  Policy!PolicyNext
<1> DEFINE dated == [work[p] EXCEPT !.expires = clock + RefreshTTL]
<1>1. /\ pc[p] = "date" /\ Proceed(p, "save", dated)
      /\ UNCHANGED <<users, sessions, granted>>
  BY DEF Date, stores, given
<1>2. work[p] \in Grant /\ work[p].expires = 0 /\ 0 < work[p].exp
  BY <1>1 DEF AuthInv, Serving
<1>3. /\ Policy!Acts(p, "open") /\ ErrandsOf[p] = ErrandOf(p)
      /\ Policy!Signed(ErrandsOf[p]) /\ ~Policy!Dated(ErrandsOf[p])
  BY <1>1, <1>2, OpeningErrand DEF Policy!Signed, Policy!Dated, Grant
<1>4. /\ dated.user = work[p].user /\ dated.exp = work[p].exp
      /\ dated.expires = clock + RefreshTTL
  BY <1>2 DEF Grant
<1> HIDE DEF dated
<1>5. /\ ErrandsOf' = [ErrandsOf EXCEPT ![p] = ErrandOf(p)']
      /\ pc'[p] = "save" /\ work'[p] = dated /\ since'[p] = since[p] /\ clock' = clock
  BY <1>1, ProceedMoves
<1>6. ErrandOf(p)' = [ErrandsOf[p] EXCEPT !.expires = clock + RefreshTTL]
  BY <1>1, <1>3, <1>4, <1>5 DEF ErrandOf, Decided
<1>7. Policy!Date(p)
  BY <1>1, <1>3, <1>5, <1>6, TablesSame DEF Policy!Date, Policy!Take
<1> QED
  BY <1>7 DEF Policy!PolicyNext

LEMMA SaveOpens ==
  ASSUME AuthInv, NEW p \in Procs, Save(p)
  PROVE  Policy!PolicyNext
<1> DEFINE row == [user |-> work[p].user, expires |-> work[p].expires, revoked |-> FALSE]
           lease == [user |-> work[p].user, expires |-> work[p].expires]
<1>1. CASE Refuse(p, ErrUnauthorized)
  BY <1>1, RefuseForgets
<1>2. CASE ~Refuse(p, ErrUnauthorized)
  <2>1. PICK t \in Tokens :
          /\ ~Minted(t)
          /\ sessions' = [sessions EXCEPT ![t] = row]
          /\ \/ Respond(p, Ok) /\ granted' = granted \cup {work[p]}
             \/ Respond(p, ErrInternal) /\ granted' = granted
    BY <1>2 DEF Save, Give
  <2>2. /\ pc[p] = "save" /\ work[p] \in Grant /\ clock \in Nat /\ 0 < work[p].expires
    BY <1>2 DEF Save, AuthInv, AuthTypeOK, Serving
  <2>3. /\ users' = users /\ clock' = clock
        /\ ErrandsOf' = [ErrandsOf EXCEPT ![p] = Nothing]
    BY <1>2, <2>1, RespondMoves DEF Save
  <2>4. /\ Policy!Acts(p, "open") /\ ErrandsOf[p].user = work[p].user
        /\ ErrandsOf[p].exp = work[p].exp /\ ErrandsOf[p].expires = work[p].expires
    BY <2>2, OpeningErrand
  <2>5. Policy!Dated(ErrandsOf[p])
    BY <2>2, <2>4 DEF Policy!Dated, Grant
  <2>6. LeasesOf[t] = Nothing
    BY <2>1, LeasesAre
  <2>7. LeasesOf' = [LeasesOf EXCEPT ![t] = IF clock < lease.expires THEN lease
                                                                     ELSE Expired]
    <3>1. /\ row \in Session /\ row.user = lease.user /\ row.expires = lease.expires
          /\ lease = [user |-> row.user, expires |-> row.expires] /\ ~row.revoked
      BY <2>2 DEF Grant, Session
    <3> HIDE DEF row, lease
    <3>2. sessions'[t] = row /\ \A u \in Tokens : u # t => sessions'[u] = sessions[u]
      BY <2>1 DEF AuthInv, AuthTypeOK
    <3>3. Minted(t)' /\ (Usable(t)' <=> clock < lease.expires)
      BY <2>3, <3>1, <3>2 DEF Usable, Held, Minted
    <3>4. LeaseOf(t)' = IF clock < lease.expires THEN lease ELSE Expired
      BY <3>1, <3>2, <3>3 DEF LeaseOf
    <3>5. \A u \in Tokens : u # t => LeaseOf(u)' = LeaseOf(u)
      BY <2>3, <3>2 DEF LeaseOf, Usable, Held, Minted
    <3> QED
      BY <3>4, <3>5 DEF LeasesOf
  <2>8. \/ granted' = granted
        \/ granted' = granted \cup {[user |-> lease.user, exp |-> ErrandsOf[p].exp,
                                     expires |-> lease.expires]}
    BY <2>1, <2>2, <2>4 DEF Grant
  <2>9. MembersOf' = MembersOf
    BY <2>3 DEF MembersOf, MemberOf, Known, Standing
  <2>10. Policy!Open(p, t)
    BY <2>3, <2>4, <2>5, <2>6, <2>7, <2>8, <2>9 DEF Policy!Open, Policy!Take
  <2> QED
    BY <2>10 DEF Policy!PolicyNext
<1> QED
  BY <1>1, <1>2

LEMMA FindSessionInspects ==
  ASSUME AuthInv, NEW p \in Procs, FindSession(p)
  PROVE  Policy!PolicyNext
<1> DEFINE t == call[p].token
           read == [user |-> sessions[t].user, exp |-> 0, expires |-> sessions[t].expires]
<1>1. CASE Refuse(p, ErrUnauthorized)
  BY <1>1, RefuseForgets
<1>2. CASE ~Refuse(p, ErrUnauthorized)
  <2>1. /\ pc[p] = "session" /\ call[p].op = "refresh"
        /\ Usable(t) /\ Proceed(p, "user", read)
        /\ UNCHANGED <<users, sessions, granted>>
    BY <1>2 DEF FindSession, Found, NotExpired, Usable, stores, given
  <2>2. t \in Tokens
    BY <2>1 DEF AuthInv, Serving, ByCookie
  <2>3. ErrandOf(p)' = Policy!ToRenew(t, since[p] + Timeout)
    <3> HIDE DEF t
    <3>0. LeasesOf[t] = [user |-> sessions[t].user, expires |-> sessions[t].expires]
      BY <2>1, <2>2, LeasesAre
    <3>1. /\ LeasesOf[t].user = sessions[t].user
          /\ LeasesOf[t].expires = sessions[t].expires
      BY <3>0
    <3>2. /\ pc'[p] = "user" /\ work'[p] = read /\ call'[p].op = "refresh"
          /\ since'[p] = since[p]
      BY <2>1, ProceedMoves
    <3> QED
      BY <3>1, <3>2 DEF ErrandOf, Decided, Policy!ToRenew
  <2>4. \E by \in clock .. clock + Timeout : Policy!Take(p, Policy!ToRenew(t, by))
    BY <2>1, <2>3, ProceedMoves, DeadlineAhead DEF Policy!Take
  <2>5. Policy!Lives(t)
    BY <2>1, <2>2, LeasesAre
  <2>6. clock' = clock
    BY <2>1, ProceedMoves
  <2>7. Policy!Inspect(p, t)
    BY <2>1, <2>4, <2>5, <2>6, TablesSame DEF Policy!Inspect
  <2> QED
    BY <2>2, <2>7 DEF Policy!PolicyNext
<1> QED
  BY <1>1, <1>2

LEMMA FindUserForRefreshRenews ==
  ASSUME AuthInv, NEW p \in Procs, FindUserForRefresh(p)
  PROVE  Policy!PolicyNext
<1>1. CASE Refuse(p, ErrUnauthorized)
  BY <1>1, RefuseForgets
<1>2. CASE ~Refuse(p, ErrUnauthorized)
  <2>1. /\ pc[p] = "user" /\ call[p].op = "refresh" /\ Present(work[p].user)
        /\ Respond(p, Ok)
        /\ granted' = granted \cup {[work[p] EXCEPT !.exp = clock + AccessTTL]}
        /\ UNCHANGED <<users, sessions>>
    BY <1>2 DEF FindUserForRefresh, Give, stores
  <2>2. work[p] \in Grant /\ work[p].user \in Accounts
    BY <2>1 DEF AuthInv, Serving, Grant
  <2>3. Decided(p)
    BY <2>1 DEF Decided
  <2>4. /\ ErrandsOf[p] # Nothing /\ ErrandsOf[p].purpose = "renew"
        /\ ErrandsOf[p].user = work[p].user /\ ErrandsOf[p].expires = work[p].expires
        /\ clock <= ErrandsOf[p].by
    <3>1. ErrandsOf[p] # Nothing /\ ErrandsOf[p] = ErrandOf(p)
      BY <2>3, ErrandsAre
    <3> QED
      BY <2>1, <2>3, <3>1, DeadlineAhead DEF ErrandOf
  <2>5. MembersOf[ErrandsOf[p].user].standing # "removed"
    <3>1. users[work[p].user] \in Account /\ Known(work[p].user)
      BY <2>1, <2>2 DEF Present, Known, AuthInv, AuthTypeOK
    <3>2. MemberOf(work[p].user).standing # "removed"
      BY <2>1, <3>1 DEF MemberOf, Standing, Present, Account
    <3> QED
      BY <2>2, <2>4, <3>2 DEF MembersOf
  <2>6. granted' = granted \cup {[user |-> ErrandsOf[p].user, exp |-> clock + AccessTTL,
                                  expires |-> ErrandsOf[p].expires]}
    BY <2>1, <2>2, <2>4 DEF Grant
  <2>7. clock' = clock /\ ErrandsOf' = [ErrandsOf EXCEPT ![p] = Nothing]
    BY <2>1, RespondMoves
  <2>8. Policy!Renew(p)
    BY <2>1, <2>4, <2>5, <2>6, <2>7, TablesSame DEF Policy!Renew, Policy!Acts, Policy!Take
  <2> QED
    BY <2>8 DEF Policy!PolicyNext
<1> QED
  BY <1>1, <1>2

\* A session that is marked or dropped: it ends, unless it has ended before.
LEMMA RetiredRevokes ==
  ASSUME AuthInv, NEW t \in Tokens, Minted(t), NEW row \in Session \cup {Expired},
         row \in Session => row.revoked,
         sessions' = [sessions EXCEPT ![t] = row],
         UNCHANGED <<users, granted, clock>>, ErrandsOf' = ErrandsOf
  PROVE  Policy!PolicyNext \/ UNCHANGED <<MembersOf, LeasesOf, ErrandsOf, granted, clock>>
<1>1. /\ sessions'[t] = row
      /\ \A u \in Tokens : u # t => sessions'[u] = sessions[u]
  BY DEF AuthInv, AuthTypeOK
<1>2. LeaseOf(t)' = Expired
  BY <1>1 DEF LeaseOf, Usable, Held, Minted
<1>3. \A u \in Tokens : u # t => LeaseOf(u)' = LeaseOf(u)
  BY <1>1 DEF LeaseOf, Usable, Held, Minted
<1>4. LeasesOf' = [LeasesOf EXCEPT ![t] = Expired]
  BY <1>2, <1>3 DEF LeasesOf
<1>5. MembersOf' = MembersOf
  BY DEF MembersOf, MemberOf, Known, Standing
<1>6. CASE Usable(t)
  <2>1. Policy!Revoke(t)
    BY <1>4, <1>5, <1>6, LeasesAre DEF Policy!Revoke
  <2> QED
    BY <2>1 DEF Policy!PolicyNext
<1>7. CASE ~Usable(t)
  <2>1. LeaseOf(t) = Expired
    BY <1>7 DEF LeaseOf
  <2>2. LeasesOf' = LeasesOf
    BY <1>4, <2>1 DEF LeasesOf
  <2> QED
    BY <1>5, <2>2
<1> QED
  BY <1>6, <1>7

\* A process that answers without having decided anything.
LEMMA NothingDecided ==
  ASSUME AuthInv, NEW p \in Procs, NEW answer, Respond(p, answer), ~Decided(p)
  PROVE  ErrandsOf' = ErrandsOf
<1>1. ErrandsOf[p] = Nothing
  BY DEF ErrandsOf, ErrandOf
<1> QED
  BY <1>1, RespondMoves DEF ErrandsOf

LEMMA RevokeRevokes ==
  ASSUME AuthInv, NEW p \in Procs, Revoke(p)
  PROVE  Policy!PolicyNext \/ UNCHANGED <<MembersOf, LeasesOf, ErrandsOf, granted, clock>>
<1> DEFINE t == call[p].token
           row == [user |-> work[p].user, expires |-> work[p].expires, revoked |-> TRUE]
<1>1. /\ pc[p] = "revoke" /\ Respond(p, Ok) /\ UNCHANGED <<users, granted, clock>>
      /\ \/ sessions' = sessions
         \/ sessions' = [sessions EXCEPT ![t] = row]
  BY DEF Revoke, Respond
<1>2. t \in Tokens /\ Minted(t) /\ row \in Session /\ row.revoked
  BY <1>1 DEF AuthInv, Serving, ByCookie, Grant, Session
<1> HIDE DEF row, t
<1>3. row \in Session \cup {Expired}
  BY <1>2
<1>4. ErrandsOf' = ErrandsOf
  BY <1>1, NothingDecided DEF Decided
<1>5. CASE sessions' = sessions
  BY <1>1, <1>4, <1>5, TablesSame
<1>6. CASE sessions' # sessions
  BY <1>1, <1>2, <1>3, <1>4, <1>6, RetiredRevokes
<1> QED
  BY <1>5, <1>6

LEMMA MemRevokeRevokes ==
  ASSUME AuthInv, NEW p \in Procs, MemRevoke(p)
  PROVE  Policy!PolicyNext \/ UNCHANGED <<MembersOf, LeasesOf, ErrandsOf, granted, clock>>
<1> DEFINE t == call[p].token
           row == [sessions[t] EXCEPT !.revoked = TRUE]
<1>1. /\ ~Durable /\ pc[p] = "session" /\ Respond(p, Ok)
      /\ UNCHANGED <<users, granted, clock>>
      /\ sessions' = [sessions EXCEPT ![t] = row]
  BY DEF MemRevoke, Respond
<1>2. t \in Tokens /\ Minted(t)
  BY <1>1 DEF AuthInv, Serving, ByCookie
<1>3. sessions[t] \in Session
  BY <1>1, <1>2 DEF Minted, AuthInv, AuthTypeOK, StoresOK, NothingForgotten
<1>4. row \in Session /\ row.revoked
  BY <1>3 DEF Session
<1> HIDE DEF row, t
<1>5. row \in Session \cup {Expired}
  BY <1>4
<1>6. ErrandsOf' = ErrandsOf
  BY <1>1, NothingDecided DEF Decided
<1> QED
  BY <1>1, <1>2, <1>4, <1>5, <1>6, RetiredRevokes

LEMMA HandlersSame == ASSUME UNCHANGED handlers PROVE ErrandsOf' = ErrandsOf
BY DEF handlers, ErrandsOf, ErrandOf, Decided

LEMMA EvictRevokes ==
  ASSUME AuthInv, NEW t \in Tokens, Evict(t)
  PROVE  Policy!PolicyNext \/ UNCHANGED <<MembersOf, LeasesOf, ErrandsOf, granted, clock>>
<1>1. /\ sessions' = [sessions EXCEPT ![t] = Expired] /\ Minted(t)
      /\ UNCHANGED <<users, granted, clock>> /\ UNCHANGED handlers
  BY DEF Evict, Held, Minted, handlers, given
<1>2. Expired \in Session \cup {Expired} /\ Expired \notin Session
  OBVIOUS
<1> QED
  BY <1>1, <1>2, HandlersSame, RetiredRevokes

LEMMA TickPasses ==
  ASSUME AuthInv, Tick
  PROVE  Policy!PolicyNext
<1>1. /\ clock \in Nat /\ clock' = clock + 1
      /\ UNCHANGED <<users, sessions, granted>> /\ ErrandsOf' = ErrandsOf
  BY HandlersSame DEF Tick, AuthInv, AuthTypeOK, handlers, given
<1>2. MembersOf' = MembersOf
  BY <1>1 DEF MembersOf, MemberOf, Known, Standing
<1>3. ASSUME NEW t \in Tokens
      PROVE  LeaseOf(t)' = IF Policy!Lives(t) /\ LeasesOf[t].expires <= clock + 1
                           THEN Expired ELSE LeasesOf[t]
  <2>1. CASE Usable(t)
    <3>1. /\ Policy!Lives(t) /\ Minted(t) /\ Held(t) /\ ~sessions[t].revoked
          /\ LeasesOf[t] = [user |-> sessions[t].user, expires |-> sessions[t].expires]
      BY <2>1, LeasesAre DEF Usable, Held, Minted
    <3>2. LeasesOf[t].expires = sessions[t].expires /\ sessions[t].expires \in Nat
      BY <3>1 DEF Held, Session, AuthInv, AuthTypeOK
    <3>3. Usable(t)' <=> ~(sessions[t].expires <= clock + 1)
      BY <1>1, <3>1, <3>2 DEF Usable, Held
    <3> QED
      BY <1>1, <3>1, <3>2, <3>3 DEF LeaseOf, Minted
  <2>2. CASE ~Usable(t)
    <3>1. ~Usable(t)'
      BY <1>1, <2>2 DEF Usable, Held, Session, AuthInv, AuthTypeOK
    <3>2. ~Policy!Lives(t) /\ LeasesOf[t] = LeaseOf(t)
      BY <2>2, LeasesAre DEF LeasesOf
    <3> QED
      BY <1>1, <2>2, <3>1, <3>2 DEF LeaseOf, Minted
  <2> QED
    BY <2>1, <2>2
<1>4. LeasesOf' = [t \in Tokens |-> IF Policy!Lives(t) /\ LeasesOf[t].expires <= clock + 1
                                    THEN Expired ELSE LeasesOf[t]]
  BY <1>3 DEF LeasesOf
<1>5. Policy!Pass
  BY <1>1, <1>2, <1>4 DEF Policy!Pass
<1> QED
  BY <1>5 DEF Policy!PolicyNext

LEMMA OperatorDemotes ==
  ASSUME AuthInv, NEW u \in Accounts, Suspend(u) \/ Remove(u)
  PROVE  Policy!PolicyNext \/ UNCHANGED <<MembersOf, LeasesOf, ErrandsOf, granted, clock>>
<1> DEFINE row == IF Suspend(u) THEN [users[u] EXCEPT !.status = "suspended"]
                                ELSE [users[u] EXCEPT !.removed = TRUE]
           standing == IF row.removed THEN "removed" ELSE "suspended"
<1>1. /\ Known(u) /\ users[u] \in Account
      /\ UNCHANGED <<sessions, granted, clock>> /\ ErrandsOf' = ErrandsOf
  BY HandlersSame DEF Suspend, Remove, Present, Known, AuthInv, AuthTypeOK, handlers, given
<1>2. /\ row \in Account /\ row.email = users[u].email /\ row.handle = users[u].handle
      /\ row.removed \/ row.status = "suspended"
      /\ users[u].removed => row.removed
  BY <1>1 DEF Account
<1>3. /\ users'[u] = row
      /\ \A v \in Accounts : v # u => users'[v] = users[v]
  BY DEF Suspend, Remove, AuthInv, AuthTypeOK
<1> HIDE DEF row
<1>4. LeasesOf' = LeasesOf
  BY <1>1 DEF LeasesOf, LeaseOf, Usable, Held, Minted
<1>5. MemberOf(u)' = [MemberOf(u) EXCEPT !.standing = standing]
  <2>1. row # Nothing
    BY <1>2
  <2>2. MemberOf(u)' = [email |-> users[u].email, handle |-> users[u].handle,
                        standing |-> standing]
    BY <1>2, <1>3, <2>1 DEF MemberOf, Known, Standing
  <2> QED
    BY <1>1, <2>2 DEF MemberOf
<1>6. \A v \in Accounts : v # u => MemberOf(v)' = MemberOf(v)
  BY <1>3 DEF MemberOf, Known, Standing
<1>7. MembersOf' = [MembersOf EXCEPT ![u].standing = standing]
  BY <1>5, <1>6 DEF MembersOf
<1>8. CASE users[u].removed
  <2>1. standing = "removed" /\ MemberOf(u).standing = "removed"
    BY <1>1, <1>2, <1>8 DEF MemberOf, Standing
  <2>2. [MemberOf(u) EXCEPT !.standing = standing] = MemberOf(u)
    BY <1>1, <2>1 DEF MemberOf
  <2>3. MembersOf' = MembersOf
    BY <1>5, <1>6, <2>2 DEF MembersOf
  <2> QED
    BY <1>1, <1>4, <2>3
<1>9. CASE ~users[u].removed
  <2>1. MembersOf[u] # Nothing
    BY <1>1, MembersAre
  <2>2. MembersOf[u].standing # "removed"
    BY <1>1, <1>9 DEF MembersOf, MemberOf, Standing, Account
  <2>3. Policy!Demote(u, standing)
    BY <1>1, <1>4, <1>7, <2>1, <2>2 DEF Policy!Demote
  <2> QED
    BY <2>3 DEF Policy!PolicyNext
<1> QED
  BY <1>8, <1>9

\* The handlers of auth.Service, on Postgres and Redis or on the memory stores,
\* with their races, failures, deadlines and lost answers, implement the policy.
THEOREM AuthImplementsPolicy == AuthSpec => ImplementsPolicy
<1> DEFINE Same == UNCHANGED <<MembersOf, LeasesOf, ErrandsOf, granted, clock>>
<1>1. AuthInit => Policy!PolicyInit
  BY PolicyStart
<1>2. AuthInv /\ [AuthNext]_authVars => [Policy!PolicyNext]_(Policy!policyVars)
  <2> SUFFICES ASSUME AuthInv, [AuthNext]_authVars PROVE Policy!PolicyNext \/ Same
    BY DEF Policy!policyVars
  <2>1. ASSUME NEW p \in Procs,
               BeginCredentials(p) \/ BeginByCookie(p) \/ BeginByAccess(p)
        PROVE  Policy!PolicyNext
    <3>1. CASE BeginCredentials(p)
      <4>1. PICK req \in Attempts : Begin(p, req)
        BY <3>1 DEF BeginCredentials
      <4>2. req.op \in {"register", "login"}
        BY DEF Credentials
      <4> QED
        BY <4>1, <4>2, BeginForgets
    <3>2. CASE BeginByCookie(p)
      BY <3>2, BeginForgets DEF BeginByCookie, ByCookie
    <3>3. CASE BeginByAccess(p)
      <4>1. PICK g \in granted : Begin(p, [op |-> "me", access |-> g])
        BY <3>3 DEF BeginByAccess
      <4>2. [op |-> "me", access |-> g].op = "me"
        OBVIOUS
      <4> QED
        BY <4>1, <4>2, BeginForgets
    <3> QED
      BY <2>1, <3>1, <3>2, <3>3
  <2>2. ASSUME NEW p \in Procs, FindForLogout(p) PROVE Policy!PolicyNext
    BY <2>2, RefuseForgets, ProceedForgets DEF FindForLogout
  <2>3. ASSUME NEW p \in Procs, ParseAccess(p) PROVE Policy!PolicyNext
    <3>1. call[p].op # "refresh"
      BY <2>3 DEF ParseAccess, AuthInv, Serving, ByAccess
    <3> QED
      BY <2>3, <3>1, RefuseForgets, ProceedForgets DEF ParseAccess
  <2>4. ASSUME NEW p \in Procs, Advance(p) PROVE Policy!PolicyNext \/ Same
    BY <2>2, <2>3, <2>4, CreateUserEnrolls, FindByEmailAdmits, SignSigns, DateDates, SaveOpens,
       FindSessionInspects, FindUserForRefreshRenews, RevokeRevokes, MemRevokeRevokes,
       RefuseForgets
       DEF Advance, FindUserForAccess, StoreFault
  <2>5. CASE UNCHANGED authVars
    <3>1. UNCHANGED <<users, sessions, granted, clock>> /\ UNCHANGED handlers
      BY <2>5 DEF authVars, handlers, given
    <3> QED
      BY <3>1, TablesSame, HandlersSame
  <2> QED
    BY <2>1, <2>4, <2>5, TickPasses, EvictRevokes, OperatorDemotes DEF AuthNext
<1> QED
  BY <1>1, <1>2, AuthInvariant, PTL DEF AuthSpec, ImplementsPolicy, Policy!PolicySpec
=============================================================================
