SPECIFICATION Spec
CONSTANTS
  Reqs = {r1, r2, r3}
  Faults = {"pg_down", "pg_lost", "valkey_down", "valkey_lost", "valkey_error", "oom"}
  Usernames = {ann}
  Passwords = {p1}
  UsernameSize <- PlainNameSize
  PasswordSize <- PlainPasswordSize
  First60 <- Whole
  None = None
  Unnamed = Unnamed
INVARIANTS
  OwnedOnce
  NothingHeldBetween
  OneConnection
PROPERTIES
  ImplementsAuth
  Settles
