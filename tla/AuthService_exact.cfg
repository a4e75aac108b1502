SPECIFICATION Spec
CONSTANTS
  Reqs = {r1, r2, r3}
  Faults = {}
  Usernames <- EdgeNames
  Passwords <- EdgePasswords
  UsernameSize <- EdgeNameSize
  PasswordSize <- EdgePasswordSize
  First60 <- EdgeFirst60
  None = None
SYMMETRY EdgeSymmetry
PROPERTY ImplementsAccounts
