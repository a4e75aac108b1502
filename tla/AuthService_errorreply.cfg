SPECIFICATION Spec
CONSTANTS
  Reqs = {r1, r2}
  Faults = {"valkey_error"}
  Usernames = {ann, bob}
  Passwords = {p1, p2}
  UsernameSize <- PlainNameSize
  PasswordSize <- PlainPasswordSize
  First60 <- Whole
  None = None
INVARIANT AckedLoginStored
