SPECIFICATION AuthSpec
CONSTANTS
  Backend = "durable"
  p1 = p1
  p2 = p2
  u1 = u1
  u2 = u2
  t1 = t1
  t2 = t2
  Nothing = Nothing
  Expired = Expired
  Procs = {p1, p2}
  Accounts = {u1, u2}
  Tokens = {t1}
  Emails = {"a@x", "b@x"}
  Handles = {"ann", "bob"}
  Passwords = {"pw", "no"}
  Attempts <- MCAttempts
  AccessTTL = 1
  RefreshTTL = 1
  Timeout = 1
  MaxTime = 2
SYMMETRY Symmetry
VIEW ViewWithoutAnswers
INVARIANTS UniqueAccounts AccessBounded
PROPERTIES BarredNeverServed ImplementsPolicy
