SPECIFICATION Spec
CONSTANTS
  Universe <- PlainRoutes
  Params <- PlainParams
  Uris <- PlainUris
  Methods <- BothMethods
INVARIANT TypeOK
INVARIANT NoDanglingIds
INVARIANT CursorsAgree
INVARIANT PointersFresh
INVARIANT EndpointsParallel
INVARIANT ExactDispatch
