SPECIFICATION Spec
CONSTANTS
  Universe <- TwoMethods
  Params <- NoParams
  Uris <- TwoMethodUris
  Methods <- BothMethods
INVARIANT NoForeignCallback
