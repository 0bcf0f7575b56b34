SPECIFICATION FairSpec
CONSTANTS
  b1 = b1
  p1 = p1
  Bindings <- OneBinding
  PrivateRoutes <- OneRoute
  NoReference = NoReference
  MaxChanges = 1
INVARIANTS
  TypeOK
  Protected
  VerdictOfSpec
PROPERTIES
  EventuallyJudged
  ProviderReleased
  ReferencesReleased
CHECK_DEADLOCK FALSE
