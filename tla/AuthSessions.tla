---------------------------- MODULE AuthSessions ----------------------------
(***************************************************************************)
(* auth.Service and its handlers, on Postgres users and Redis sessions or  *)
(* on the memory stores: register, login, refresh, logout and me.  Handler *)
(* goroutines are processes whose steps are store calls, and newSession's  *)
(* readings of the clock between two of them; a clock runs beside them,    *)
(* keys expire in Redis, and an operator may suspend or delete an account  *)
(* in Postgres.                                                            *)
(*                                                                         *)
(* Emails and Handles are distinct as citext compares them.  A password is *)
(* its own hash: verifyPassword accepts exactly the hashed password.       *)
(***************************************************************************)
EXTENDS Naturals, FiniteSets

CONSTANTS
  Backend,     \* "durable": Postgres and Redis, or "memory"
  Procs,       \* handler goroutines
  Accounts,    \* the user ids that randomID hands out
  Tokens,      \* the refresh tokens that newRefreshToken hands out
  Emails, Handles, Passwords,
  Attempts,    \* the register and login requests that clients may send
  AccessTTL,   \* lifetime of an access token
  RefreshTTL,  \* lifetime of a refresh session
  Timeout,     \* the request deadline of requestTimeoutMiddleware
  MaxTime,     \* bound on the clock
  Nothing,     \* no account, no key, no request
  Expired      \* what is left of a key that Redis dropped after its time

ASSUME AuthAssumption ==
  /\ Backend \in {"durable", "memory"}
  /\ AccessTTL \in Nat \ {0}
  /\ RefreshTTL \in Nat \ {0}
  /\ Timeout \in Nat
  /\ MaxTime \in Nat

Account == [email : Emails, handle : Handles, password : Passwords,
            status : {"active", "suspended"}, removed : BOOLEAN]

Session == [user : Accounts, expires : Nat, revoked : BOOLEAN]

\* An access token, with the expiry of the session it was issued under.
Grant == [user : Accounts, exp : Nat, expires : Nat]

Credentials == [op : {"register", "login"}, email : Emails, handle : Handles,
                password : Passwords]
ASSUME AttemptsAssumption == Attempts \subseteq Credentials

\* What AccessPolicy makes of accounts, sessions and half-served requests.
Member == [email : Emails, handle : Handles,
           standing : {"active", "suspended", "removed"}]

Lease == [user : Accounts, expires : Nat]

Errand == [purpose : {"open", "renew"}, user : Accounts, exp : Nat, expires : Nat,
           by : Nat]

ASSUME NothingAssumption ==
  /\ Nothing \notin Account \cup Session \cup Member \cup Lease \cup Errand
  /\ Expired \notin Session \cup Lease \cup {Nothing}

ByCookie    == [op : {"refresh", "logout"}, token : Tokens]
ByAccess    == [op : {"me"}, access : Grant]

VARIABLES
  users,       \* the users table: the account under each id, or Nothing
  sessions,    \* the Redis keys refresh:<token>: a Session, Nothing or Expired
  clock,       \* the time that now() reads
  pc,          \* the store call each process is about to make, or "sign", "date"
  call,        \* the request each process serves, or Nothing
  work,        \* what each process has read: a Grant in the making
  since,       \* when each process began its request
  resp,        \* how each process answered its latest request
  granted,     \* ghost: the access tokens that clients were given
  last,        \* ghost: when the latest access token of each session runs out
  ends,        \* ghost: when each session ends, by its expiry or its revocation
  barred       \* ghost: the processes whose request was refusable when it came

authVars == <<users, sessions, clock, pc, call, work, since, resp, granted, last, ends,
              barred>>
stores == <<users, sessions>>
given == <<granted, last, ends>>

\* Calls of Postgres and Redis may fail; those of the memory stores do not, and
\* nothing but the service ever touches these.
Durable == Backend = "durable"

Points == {"idle", "create", "email", "sign", "date", "save", "session", "revoke",
           "access", "user"}

Ok              == "ok"
ErrConflict     == "conflict"
ErrUnauthorized == "unauthorized"
ErrInternal     == "internal"
None            == "none"

Known(u)   == users[u] # Nothing
Present(u) == Known(u) /\ ~users[u].removed         \* deleted_at IS NULL
Minted(t)  == sessions[t] # Nothing
Held(t)    == sessions[t] \notin {Nothing, Expired}

\* The session is in Redis, neither revoked nor past its expiry.
Usable(t) == Held(t) /\ ~sessions[t].revoked /\ clock < sessions[t].expires

AuthInit ==
  /\ users = [u \in Accounts |-> Nothing]
  /\ sessions = [t \in Tokens |-> Nothing]
  /\ clock = 0
  /\ pc = [p \in Procs |-> "idle"]
  /\ call = [p \in Procs |-> Nothing]
  /\ work = [p \in Procs |-> Nothing]
  /\ since = [p \in Procs |-> 0]
  /\ resp = [p \in Procs |-> None]
  /\ granted = {}
  /\ last = [t \in Tokens |-> 0]
  /\ ends = [t \in Tokens |-> 0]
  /\ barred = {}

-----------------------------------------------------------------------------

Respond(p, answer) ==
  /\ pc' = [pc EXCEPT ![p] = "idle"]
  /\ call' = [call EXCEPT ![p] = Nothing]
  /\ work' = [work EXCEPT ![p] = Nothing]
  /\ since' = [since EXCEPT ![p] = 0]
  /\ resp' = [resp EXCEPT ![p] = answer]
  /\ barred' = barred \ {p}
  /\ UNCHANGED clock

Proceed(p, point, grant) ==
  /\ pc' = [pc EXCEPT ![p] = point]
  /\ work' = [work EXCEPT ![p] = grant]
  /\ UNCHANGED <<call, since, resp, barred, clock>>

Refuse(p, answer) == Respond(p, answer) /\ UNCHANGED <<stores, given>>

FirstCall(op) ==
  CASE op = "register" -> "create"
    [] op = "login" -> "email"
    [] op \in {"refresh", "logout"} -> "session"
    [] op = "me" -> "access"

\* What the credential of a request stood for when the request arrived.
Refusable(req) ==
  CASE req.op = "login" ->
         \E u \in Accounts : /\ Known(u)
                             /\ users[u].email = req.email
                             /\ users[u].removed \/ users[u].status # "active"
    [] req.op = "refresh" ->
         ~Usable(req.token) \/ ~Present(sessions[req.token].user)
    [] req.op = "me" ->
         clock >= req.access.exp \/ ~Present(req.access.user)
    [] OTHER -> FALSE

Begin(p, req) ==
  /\ pc[p] = "idle"
  /\ pc' = [pc EXCEPT ![p] = FirstCall(req.op)]
  /\ call' = [call EXCEPT ![p] = req]
  /\ since' = [since EXCEPT ![p] = clock]
  /\ resp' = [resp EXCEPT ![p] = None]
  /\ barred' = IF Refusable(req) THEN barred \cup {p} ELSE barred
  /\ UNCHANGED <<users, sessions, clock, work, given>>

\* Tokens and Accounts bound the sessions and accounts of a behaviour: when
\* the last is used up, a request that still needs one can only fail.
BeginCredentials(p) ==
  \E req \in Attempts :
    /\ \E t \in Tokens : ~Minted(t)
    /\ req.op = "register" => \E u \in Accounts : ~Known(u)
    /\ Begin(p, req)

\* Cookies and access tokens come from earlier sessions.
BeginByCookie(p) == \E req \in ByCookie : Minted(req.token) /\ Begin(p, req)

BeginByAccess(p) == \E g \in granted : Begin(p, [op |-> "me", access |-> g])

\* newSession is to give this account an access token and a session, neither of
\* which is dated yet.
Opening(u) == [user |-> u, exp |-> 0, expires |-> 0]

\* The row that a registration inserts, the columns' defaults included.
NewAccount(req) ==
  [email |-> req.email, handle |-> req.handle, password |-> req.password,
   status |-> "active", removed |-> FALSE]

\* Fault: handles are not compared.
CreateUserByEmail(p) ==
  /\ pc[p] = "create"
  /\ LET taken == \E u \in Accounts : Known(u) /\ users[u].email = call[p].email IN
     \/ taken /\ Refuse(p, ErrConflict)
     \/ /\ ~taken
        /\ \E u \in {v \in Accounts : ~Known(v)} :
             /\ users' = [users EXCEPT ![u] = NewAccount(call[p])]
             /\ UNCHANGED <<sessions, given>>
             /\ Proceed(p, "sign", Opening(u)) \/ (Durable /\ Respond(p, ErrInternal))

\* The unique constraints cover removed accounts too.  The row may be there
\* although the call failed: then the account has no session.
CreateUser(p) ==
  /\ pc[p] = "create"
  /\ LET taken == \E u \in Accounts : /\ Known(u)
                                      /\ \/ users[u].email = call[p].email
                                         \/ users[u].handle = call[p].handle
     IN
     \/ taken /\ Refuse(p, ErrConflict)
     \/ /\ ~taken
        /\ \E u \in {v \in Accounts : ~Known(v)} :
             /\ users' = [users EXCEPT ![u] = NewAccount(call[p])]
             /\ UNCHANGED <<sessions, given>>
             /\ Proceed(p, "sign", Opening(u)) \/ (Durable /\ Respond(p, ErrInternal))

\* Fault: the status is not looked at.
MayLogInAnyStatus(u, req) ==
  Present(u) /\ users[u].email = req.email /\ users[u].password = req.password

\* The account that a login's email and password open.
MayLogIn(u, req) ==
  /\ Present(u)
  /\ users[u].email = req.email
  /\ users[u].status = "active"
  /\ users[u].password = req.password

FindByEmail(p) ==
  /\ pc[p] = "email"
  /\ \/ /\ \A u \in Accounts : ~MayLogIn(u, call[p])
        /\ Refuse(p, ErrUnauthorized)
     \/ /\ \E u \in Accounts : MayLogIn(u, call[p]) /\ Proceed(p, "sign", Opening(u))
        /\ UNCHANGED <<stores, given>>

\* An access token for the session of a refresh token.
Give(t, grant) ==
  /\ granted' = granted \cup {grant}
  /\ last' = [last EXCEPT ![t] = grant.exp]

\* A session that ends for good, unless it has ended before.
End(t) == ends' = [ends EXCEPT ![t] = IF clock < @ THEN clock ELSE @]

\* newSession reads the clock to sign the access token, some time after the
\* password was checked,
Sign(p) ==
  /\ pc[p] = "sign"
  /\ Proceed(p, "date", [work[p] EXCEPT !.exp = clock + AccessTTL])
  /\ UNCHANGED <<stores, given>>

\* and once more to date the session, some time before it is saved.
Date(p) ==
  /\ pc[p] = "date"
  /\ Proceed(p, "save", [work[p] EXCEPT !.expires = clock + RefreshTTL])
  /\ UNCHANGED <<stores, given>>

\* RedisRefreshStore.Save has no time to give a session that is over.
TooLate(p) == Durable /\ clock >= work[p].expires

\* The session may be over by the time that Redis sets it, and it may be saved
\* although the call failed: then nobody holds it.
Save(p) ==
  /\ pc[p] = "save"
  /\ \/ TooLate(p) /\ Refuse(p, ErrUnauthorized)
     \/ /\ \E t \in {u \in Tokens : ~Minted(u)} :
             /\ sessions' = [sessions EXCEPT ![t] = [user |-> work[p].user,
                                                     expires |-> work[p].expires,
                                                     revoked |-> FALSE]]
             /\ ends' = [ends EXCEPT ![t] = work[p].expires]
             /\ \/ /\ Respond(p, Ok)
                   /\ Give(t, work[p])
                \/ /\ Durable
                   /\ Respond(p, ErrInternal)
                   /\ UNCHANGED <<granted, last>>
        /\ UNCHANGED users

\* Fault: a revoked session is found like any other.
FoundRevoked(t) == Held(t)

\* RedisRefreshStore.Find knows no time: Redis drops keys when it comes to it.
Found(t) == Held(t) /\ ~sessions[t].revoked

\* Fault: Refresh relies on Redis to have dropped what has expired.
NotExpiredForRedis(expires) == TRUE

NotExpired(expires) == clock < expires

FindSession(p) ==
  /\ pc[p] = "session"
  /\ call[p].op = "refresh"
  /\ LET t == call[p].token IN
     \/ /\ ~(Found(t) /\ NotExpired(sessions[t].expires))
        /\ Refuse(p, ErrUnauthorized)
     \/ /\ Found(t)
        /\ NotExpired(sessions[t].expires)
        /\ Proceed(p, "user", [user |-> sessions[t].user, exp |-> 0,
                               expires |-> sessions[t].expires])
        /\ UNCHANGED <<stores, given>>

\* Refresh asks for the row only, not for its status, and signs with a second
\* reading of the clock.
FindUserForRefresh(p) ==
  /\ pc[p] = "user"
  /\ call[p].op = "refresh"
  /\ \/ ~Present(work[p].user) /\ Refuse(p, ErrUnauthorized)
     \/ /\ Present(work[p].user)
        /\ Respond(p, Ok)
        /\ Give(call[p].token, [work[p] EXCEPT !.exp = clock + AccessTTL])
        /\ UNCHANGED <<stores, ends>>

\* The logout handler drops Revoke's error and always answers 204.
FindForLogout(p) ==
  /\ Durable
  /\ pc[p] = "session"
  /\ call[p].op = "logout"
  /\ LET t == call[p].token IN
     \/ ~Found(t) /\ Refuse(p, Ok)
     \/ /\ Found(t)
        /\ Proceed(p, "revoke", [user |-> sessions[t].user, exp |-> 0,
                                 expires |-> sessions[t].expires])
        /\ UNCHANGED <<stores, given>>

\* Revoke writes back the session it read, for what is left of its time: it
\* writes nothing if nothing is left when it looks, some time before Redis does.
Revoke(p) ==
  /\ pc[p] = "revoke"
  /\ Respond(p, Ok)
  /\ \/ TooLate(p) /\ UNCHANGED sessions
     \/ sessions' = [sessions EXCEPT ![call[p].token] =
                       [user |-> work[p].user, expires |-> work[p].expires,
                        revoked |-> TRUE]]
  /\ End(call[p].token)
  /\ UNCHANGED <<users, granted, last>>

\* Fault: the mark is set on a copy of the session that is not put back.
MemRevokeCopy(p) ==
  /\ ~Durable
  /\ pc[p] = "session"
  /\ call[p].op = "logout"
  /\ Refuse(p, Ok)

\* MemoryRefreshStore finds and marks the session under one lock.
MemRevoke(p) ==
  /\ ~Durable
  /\ pc[p] = "session"
  /\ call[p].op = "logout"
  /\ Respond(p, Ok)
  /\ sessions' = [sessions EXCEPT ![call[p].token].revoked = TRUE]
  /\ End(call[p].token)
  /\ UNCHANGED <<users, granted, last>>

\* parseAccessToken; signatures and claims are those of a token we issued.
ParseAccess(p) ==
  /\ pc[p] = "access"
  /\ \/ clock >= call[p].access.exp /\ Refuse(p, ErrUnauthorized)
     \/ /\ clock < call[p].access.exp
        /\ Proceed(p, "user", call[p].access)
        /\ UNCHANGED <<stores, given>>

FindUserForAccess(p) ==
  /\ pc[p] = "user"
  /\ call[p].op = "me"
  /\ Refuse(p, IF Present(work[p].user) THEN Ok ELSE ErrUnauthorized)

\* How a store call that fails without effect is answered: Login and Refresh
\* take every error for bad credentials, logout takes none for an error.
FaultAnswer(p) ==
  CASE call[p].op = "logout" -> Ok
    [] call[p].op # "logout" /\ pc[p] = "email" -> ErrUnauthorized
    [] call[p].op = "refresh" -> ErrUnauthorized
    [] call[p].op # "refresh" /\ pc[p] \in {"create", "save", "user"} -> ErrInternal

StoreFault(p) ==
  /\ Durable
  /\ pc[p] \notin {"idle", "sign", "date", "access"}
  /\ Refuse(p, FaultAnswer(p))

Advance(p) ==
  \/ CreateUser(p)
  \/ FindByEmail(p)
  \/ Sign(p)
  \/ Date(p)
  \/ Save(p)
  \/ FindSession(p)
  \/ FindUserForRefresh(p)
  \/ FindForLogout(p)
  \/ Revoke(p)
  \/ MemRevoke(p)
  \/ ParseAccess(p)
  \/ FindUserForAccess(p)
  \/ StoreFault(p)

-----------------------------------------------------------------------------
(* The environment *)

handlers == <<pc, call, work, since, resp, given, barred>>

\* A request whose deadline is reached makes no further call, so that time
\* passes only as far as every running request's deadline.
Tick ==
  /\ clock < MaxTime
  /\ \A p \in Procs : pc[p] # "idle" => clock < since[p] + Timeout
  /\ clock' = clock + 1
  /\ UNCHANGED <<users, sessions, handlers>>

\* Redis drops a key some time after its ttl has run out.
Evict(t) ==
  /\ Durable
  /\ Held(t)
  /\ clock >= sessions[t].expires
  /\ sessions' = [sessions EXCEPT ![t] = Expired]
  /\ UNCHANGED <<users, clock, handlers>>

\* The columns status and deleted_at are set outside this program.
Suspend(u) ==
  /\ Durable
  /\ Known(u)
  /\ users[u].status = "active"
  /\ users' = [users EXCEPT ![u].status = "suspended"]
  /\ UNCHANGED <<sessions, clock, handlers>>

Remove(u) ==
  /\ Durable
  /\ Present(u)
  /\ users' = [users EXCEPT ![u].removed = TRUE]
  /\ UNCHANGED <<sessions, clock, handlers>>

AuthNext ==
  \/ \E p \in Procs : \/ BeginCredentials(p)
                      \/ BeginByCookie(p)
                      \/ BeginByAccess(p)
                      \/ Advance(p)
  \/ Tick
  \/ \E t \in Tokens : Evict(t)
  \/ \E u \in Accounts : Suspend(u) \/ Remove(u)

AuthSpec == AuthInit /\ [][AuthNext]_authVars

-----------------------------------------------------------------------------
(* Correctness *)

AuthTypeOK ==
  /\ users \in [Accounts -> Account \cup {Nothing}]
  /\ sessions \in [Tokens -> Session \cup {Nothing, Expired}]
  /\ clock \in 0 .. MaxTime
  /\ pc \in [Procs -> Points]
  /\ call \in [Procs -> Attempts \cup ByCookie \cup ByAccess \cup {Nothing}]
  /\ work \in [Procs -> Grant \cup {Nothing}]
  /\ since \in [Procs -> Nat]
  /\ resp \in [Procs -> {None, Ok, ErrConflict, ErrUnauthorized, ErrInternal}]
  /\ granted \subseteq Grant
  /\ last \in [Tokens -> Nat]
  /\ ends \in [Tokens -> Nat]
  /\ barred \subseteq Procs

\* Two registrations never end up with one email or one handle, and the email
\* and handle of a removed account are never given away.
UniqueAccounts ==
  \A u, v \in Accounts : u # v /\ Known(u) /\ Known(v) =>
    /\ users[u].email # users[v].email
    /\ users[u].handle # users[v].handle

\* However a refresh is delayed between its reads of Redis, of the clock and of
\* Postgres, an access token outlives the session it was issued under by no more
\* than a request's deadline and a token's lifetime: by less, if the session has
\* expired, and not by more either, if a logout has revoked it meanwhile.
AccessBounded ==
  /\ \A g \in granted : g.exp < g.expires + Timeout + AccessTTL
  /\ \A t \in Tokens : last[t] <= ends[t] + Timeout + AccessTTL

\* A credential that was no good when the request arrived - a revoked or
\* expired session, a suspended account's password, a removed account's token -
\* is never honoured, whatever happens while the request runs.
BarredNeverServed ==
  [][\A p \in Procs : p \in barred /\ pc'[p] = "idle" => resp'[p] # Ok]_authVars

UsableTokens == {t \in Tokens : Usable(t)}

\* README: "POST /auth/logout: Revokes refresh token".  Once logout is answered
\* with success, the token's session cannot be used.
LogoutRevokes ==
  [][\A p \in Procs :
       /\ pc[p] # "idle"
       /\ pc'[p] = "idle"
       /\ call[p].op = "logout"
       => call[p].token \notin UsableTokens']_authVars

\* The accounts, leases and decisions that clients can tell apart: a lease runs
\* while its session is usable, and a decision stands between the read that
\* justifies it and the access token.
Standing(u) == IF users[u].removed THEN "removed" ELSE users[u].status

MemberOf(u) ==
  IF Known(u) THEN [email |-> users[u].email, handle |-> users[u].handle,
                    standing |-> Standing(u)]
              ELSE Nothing

LeaseOf(t) ==
  IF Usable(t) THEN [user |-> sessions[t].user, expires |-> sessions[t].expires]
  ELSE IF Minted(t) THEN Expired ELSE Nothing

Decided(p) == pc[p] \in {"sign", "date", "save"} \/ (pc[p] = "user" /\ call[p].op = "refresh")

ErrandOf(p) ==
  IF Decided(p) THEN [purpose |-> IF pc[p] = "user" THEN "renew" ELSE "open",
                      user |-> work[p].user, exp |-> work[p].exp,
                      expires |-> work[p].expires, by |-> since[p] + Timeout]
                ELSE Nothing

MembersOf == [u \in Accounts |-> MemberOf(u)]
LeasesOf  == [t \in Tokens |-> LeaseOf(t)]
ErrandsOf == [p \in Procs |-> ErrandOf(p)]

Policy == INSTANCE AccessPolicy WITH members <- MembersOf, leases <- LeasesOf,
                                     errands <- ErrandsOf, passes <- granted, now <- clock

\* Whatever the stores and the schedule do, clients see the policy: a lease never
\* begins twice nor comes back, and an access token is given only for a lease that
\* ran, and an account that was no other's, within the deadline of the request.
ImplementsPolicy == Policy!PolicySpec
=============================================================================
