SPECIFICATION Spec
CONSTANTS
  Reqs = {r1, r2, r3, r4}
  Faults = {"pg_down", "pg_lost", "valkey_down", "valkey_lost"}
  Usernames = {ann, bob}
  Passwords = {p1, p2}
  UsernameSize <- PlainNameSize
  PasswordSize <- PlainPasswordSize
  First60 <- Whole
  None = None
SYMMETRY PlainSymmetry
INVARIANTS
  TypeOK
  SessionsAuthentic
  EndedForGood
  RegisteredOnce
  ShownIsOwner
  AckedLoginStored
PROPERTY ImplementsAccounts
