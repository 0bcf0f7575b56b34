SPECIFICATION Spec
CONSTANTS
  b1 = b1
  p1 = p1
  r1 = r1
  r2 = r2
  app = app
  infra = infra
  svc = svc
  gateway = gateway
  web = web
  admin = admin
  h1 = h1
  h2 = h2
  h1Upper = h1Upper
  h2Plain = h2Plain
  wildcard = wildcard
  NoClaim = NoClaim
  NoHost = NoHost
  AnyName = AnyName
  Bindings <- BindingsDef
  PrivateRoutes <- RoutesDef
  HttpRoutes <- HttpRoutesDef
  NsOf <- NsOfDef
  Services <- ServicesDef
  Targets <- ServicesDef
  Gateways = {gateway}
  Listeners <- ListenersDef
  GatewayOf <- GatewayOfDef
  ListenerOf <- ListenerOfDef
  Spellings <- SpellingsDef
  Hosts <- HostsDef
  Canonical <- CanonicalDef
  ZoneLists <- ZoneListsDef
  RouteSpecs <- RouteSpecsDef
  Grants <- GrantsDef
  MaxEvents = 2
INVARIANTS
  TypeOK
  NoMissedWatch
  ConsentedOrigin
  PublishedAreServed
  WithinProvider
CHECK_DEADLOCK FALSE
