SPECIFICATION Spec
CONSTANTS
  Reqs = {r1}
  Faults = {}
  Usernames <- EdgeNames
  Passwords <- EdgePasswords
  UsernameSize <- EdgeNameSize
  PasswordSize <- EdgePasswordSize
  First60 <- EdgeFirst60
  None = None
PROPERTY ValidRegistrationAccepted
