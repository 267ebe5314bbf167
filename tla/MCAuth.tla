------------------------------- MODULE MCAuth -------------------------------
(***************************************************************************)
(* A small instance of AuthSessions: two accounts, a session or two.       *)
(***************************************************************************)
EXTENDS AuthSessions, TLC

CONSTANTS p1, p2, u1, u2, t1, t2

\* Procs and Accounts are interchangeable: no request names one.
Symmetry ==
  Permutations({p1, p2}) \cup Permutations({u1, u2})

Attempt(op, email, handle, password) ==
  [op |-> op, email |-> email, handle |-> handle, password |-> password]

\* Registrations that agree in the email, in the handle and in nothing, and
\* logins with the right and with a wrong password.
MCAttempts ==
  {Attempt("register", "a@x", "ann", "pw"), Attempt("register", "b@x", "ann", "pw"),
   Attempt("register", "b@x", "bob", "pw"),
   Attempt("login", "a@x", "ann", "pw"), Attempt("login", "a@x", "ann", "no")}

\* No guard reads resp, so states that differ in it alone behave alike; TLC
\* still checks every step's answer.
ViewWithoutAnswers ==
  <<users, sessions, clock, pc, call, work, since, granted, last, ends, barred>>

\* Nor does any guard read when sessions and access tokens run out.
ViewWithoutGhosts ==
  <<users, sessions, clock, pc, call, work, since, granted, barred>>
=============================================================================
