SPECIFICATION FairSpec
CONSTANTS
  b1 = b1
  b2 = b2
  k1 = k1
  p1 = p1
  p2 = p2
  g1 = g1
  h1 = h1
  h2 = h2
  o1 = o1
  o2 = o2
  Bindings <- TwoBindings
  Classes = {k1}
  Providers = {p1, p2}
  Gateways = {b1, b2}
  Hosts = {h1}
  Origins = {o1}
  Tunnels = {t1, t2}
  NoTunnel = NoTunnel
  ClassOf <- AllOfOneClass
  ProviderOf <- OwnProviders
  GatewayOf <- OwnGateways
  Rank <- RankOf
  SameSecond = TRUE
  DnsCRD = TRUE
  Policies = {"Delete"}
  DnsChoices = {TRUE}
  ProviderChoices <- OneDoubted
  ValidChoices = {TRUE}
  AvailableChoices = {TRUE}
  RouteChoices = {{h1}}
  MaxEdits = 1
  MaxFaults = 0
PROPERTIES
  EventuallyServed
  EventuallyWithdrawn
CHECK_DEADLOCK FALSE
