SPECIFICATION Spec
CONSTANTS
  b1 = b1
  b2 = b2
  k1 = k1
  p1 = p1
  p2 = p2
  g1 = g1
  h1 = h1
  h2 = h2
  o1 = o1
  o2 = o2
  Bindings <- TwoBindings
  Classes = {k1}
  Providers = {p1}
  Gateways = {b1, b2}
  Hosts = {h1}
  Origins = {o1}
  Tunnels = {t1, t2}
  NoTunnel = NoTunnel
  ClassOf <- AllOfOneClass
  ProviderOf <- AllOfOneProvider
  GatewayOf <- OwnGateways
  Rank <- RankOf
  SameSecond = FALSE
  DnsCRD = TRUE
  Policies = {"Delete"}
  DnsChoices = {TRUE}
  ProviderChoices <- AllStates
  ValidChoices = {TRUE, FALSE}
  AvailableChoices = {TRUE, FALSE}
  RouteChoices <- AllRoutes
  MaxEdits = 1
  MaxFaults = 0
INVARIANTS
  OneOwnerPerHost
CHECK_DEADLOCK FALSE
