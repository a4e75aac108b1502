SPECIFICATION Spec
CONSTANT Conns = {c1, c2, c3}
INVARIANTS
  TypeOK
  NoForgottenConnection
  StopIsFinal
  AcceptLoopAlive
  OneRequestPerConnection
PROPERTIES
  ResponseStable
  ShutdownCompletes
  ResponseRetires
  ImplementsLifecycle
