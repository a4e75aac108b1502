SPECIFICATION Spec
CONSTANTS
  Byte <- SomeBytes
  Ids <- TwoIds
  IdSize = 2
  Lower <- LowerCase
  Bodies <- SomeBodies
  Others <- OtherCookies
  OutOfMemory = TRUE
INVARIANTS
  HandledIsSent
  SessionReadBack
  KeptIsIssued
