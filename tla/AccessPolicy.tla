---------------------------- MODULE AccessPolicy ----------------------------
(***************************************************************************)
(* What registration, login, refresh and logout promise, whichever stores  *)
(* keep the accounts and sessions and however the requests race: leases    *)
(* that begin once and end once, and access tokens that are issued only on *)
(* a decision made while the lease was running, and not much later.        *)
(***************************************************************************)
EXTENDS Naturals

CONSTANTS
  Procs, Accounts, Tokens, Emails, Handles,
  AccessTTL, RefreshTTL,
  Timeout,     \* how long a decision may be acted upon
  Nothing,     \* no member, no lease yet, no errand
  Expired      \* a lease that is over

VARIABLES
  members,     \* the account under each id, or Nothing
  leases,      \* the session of each refresh token, Nothing or Expired
  errands,     \* whom each process has decided to give an access token
  passes,      \* the access tokens that were given
  now

policyVars == <<members, leases, errands, passes, now>>

Lives(t) == leases[t] \notin {Nothing, Expired}

PolicyInit ==
  /\ members = [u \in Accounts |-> Nothing]
  /\ leases = [t \in Tokens |-> Nothing]
  /\ errands = [p \in Procs |-> Nothing]
  /\ passes = {}
  /\ now = 0

Take(p, errand) == errands' = [errands EXCEPT ![p] = errand]

\* What is to be opened has no date yet.
ToOpen(u, by) ==
  [purpose |-> "open", user |-> u, exp |-> 0, expires |-> 0, by |-> by]

ToRenew(t, by) ==
  [purpose |-> "renew", user |-> leases[t].user, exp |-> 0,
   expires |-> leases[t].expires, by |-> by]

\* Emails and handles belong to one account for ever.
Enroll(p, u) ==
  /\ members[u] = Nothing
  /\ \E email \in Emails, handle \in Handles :
       /\ members' = [members EXCEPT ![u] = [email |-> email, handle |-> handle,
                                             standing |-> "active"]]
       /\ \A v \in Accounts : members[v] # Nothing => /\ members[v].email # email
                                                     /\ members[v].handle # handle
  /\ UNCHANGED errands \/ \E by \in now .. now + Timeout : Take(p, ToOpen(u, by))
  /\ UNCHANGED <<leases, passes, now>>

Admit(p, u) ==
  /\ members[u] # Nothing
  /\ members[u].standing = "active"
  /\ \E by \in now .. now + Timeout : Take(p, ToOpen(u, by))
  /\ UNCHANGED <<members, leases, passes, now>>

Acts(p, purpose) ==
  /\ errands[p] # Nothing
  /\ errands[p].purpose = purpose
  /\ now <= errands[p].by

Signed(errand) == errand.exp # 0
Dated(errand)  == errand.expires # 0

\* The access token runs from one instant after the decision,
Sign(p) ==
  /\ Acts(p, "open")
  /\ ~Signed(errands[p])
  /\ Take(p, [errands[p] EXCEPT !.exp = now + AccessTTL])
  /\ UNCHANGED <<members, leases, passes, now>>

\* and the lease from that instant or a later one.
Date(p) ==
  /\ Acts(p, "open")
  /\ Signed(errands[p])
  /\ ~Dated(errands[p])
  /\ Take(p, [errands[p] EXCEPT !.expires = now + RefreshTTL])
  /\ UNCHANGED <<members, leases, passes, now>>

\* The lease may begin although nobody learns of it, and late, but never later
\* than it ends: then it is over before it began.
Open(p, t) ==
  /\ Acts(p, "open")
  /\ Dated(errands[p])
  /\ leases[t] = Nothing
  /\ LET lease == [user |-> errands[p].user, expires |-> errands[p].expires] IN
     /\ leases' = [leases EXCEPT ![t] = IF now < lease.expires THEN lease ELSE Expired]
     /\ \/ UNCHANGED passes
        \/ passes' = passes \cup {[user |-> lease.user, exp |-> errands[p].exp,
                                   expires |-> lease.expires]}
  /\ Take(p, Nothing)
  /\ UNCHANGED <<members, now>>

Inspect(p, t) ==
  /\ Lives(t)
  /\ \E by \in now .. now + Timeout : Take(p, ToRenew(t, by))
  /\ UNCHANGED <<members, leases, passes, now>>

\* The lease may be over by now, the account may not.
Renew(p) ==
  /\ Acts(p, "renew")
  /\ members[errands[p].user].standing # "removed"
  /\ passes' = passes \cup {[user |-> errands[p].user, exp |-> now + AccessTTL,
                             expires |-> errands[p].expires]}
  /\ Take(p, Nothing)
  /\ UNCHANGED <<members, leases, now>>

Forget(p) == Take(p, Nothing) /\ UNCHANGED <<members, leases, passes, now>>

Revoke(t) ==
  /\ Lives(t)
  /\ leases' = [leases EXCEPT ![t] = Expired]
  /\ UNCHANGED <<members, errands, passes, now>>

\* No lease outlasts its time.
Pass ==
  /\ now' = now + 1
  /\ leases' = [t \in Tokens |-> IF Lives(t) /\ leases[t].expires <= now + 1
                                 THEN Expired ELSE leases[t]]
  /\ UNCHANGED <<members, errands, passes>>

\* Nobody who was removed comes back.
Demote(u, standing) ==
  /\ members[u] # Nothing
  /\ members[u].standing # "removed"
  /\ members' = [members EXCEPT ![u].standing = standing]
  /\ UNCHANGED <<leases, errands, passes, now>>

PolicyNext ==
  \/ \E p \in Procs : Forget(p) \/ Sign(p) \/ Date(p) \/ Renew(p)
  \/ Pass
  \/ \E p \in Procs, t \in Tokens : Inspect(p, t) \/ Open(p, t)
  \/ \E p \in Procs, u \in Accounts : Admit(p, u) \/ Enroll(p, u)
  \/ \E t \in Tokens : Revoke(t)
  \/ \E u \in Accounts, standing \in {"suspended", "removed"} : Demote(u, standing)

PolicySpec == PolicyInit /\ [][PolicyNext]_policyVars
=============================================================================
