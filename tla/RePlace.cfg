SPECIFICATION Spec
CONSTANTS
  Conns = {c1, c2}
  Faults = {"pg_down", "pg_lost", "valkey_down", "valkey_lost", "valkey_error"}
  Usernames = {ann}
  Passwords = {p1}
  UsernameSize <- PlainNameSize
  PasswordSize <- PlainPasswordSize
  First60 <- Whole
  None = None
INVARIANTS
  HandlerHoldsThread
  ResponseIsVerdict
  StopLetsHandlersFinish
PROPERTIES
  LateVerdictUnheard
  AnswersArrive
  StopsDespiteHandler
  ImplementsHttp
  ImplementsAuth
