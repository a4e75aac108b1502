SPECIFICATION Spec
CONSTANTS
  Universe <- ShortRoutes
  Params <- PlainParams
  Uris <- ShortUris
  Methods <- BothMethods
INVARIANT NoForeignCallback
