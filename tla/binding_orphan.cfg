SPECIFICATION Spec
CONSTANTS
  b1 = b1
  b2 = b2
  k1 = k1
  p1 = p1
  p2 = p2
  g1 = g1
  h1 = h1
  h2 = h2
  o1 = o1
  o2 = o2
  Bindings <- OneBinding
  Classes = {k1}
  Providers = {p1}
  Gateways = {g1}
  Hosts = {h1}
  Origins = {o1}
  Tunnels = {t1, t2}
  NoTunnel = NoTunnel
  ClassOf <- AllOfOneClass
  ProviderOf <- AllOfOneProvider
  GatewayOf <- AllOfOneGateway
  Rank <- RankOf
  SameSecond = TRUE
  DnsCRD = TRUE
  Policies = {"Delete", "Retain"}
  DnsChoices = {TRUE, FALSE}
  ProviderChoices <- AllStates
  ValidChoices = {TRUE, FALSE}
  AvailableChoices = {TRUE, FALSE}
  RouteChoices <- AllRoutes
  MaxEdits = 1
  MaxFaults = 1
INVARIANTS
  DeleteRemovesTunnel
CHECK_DEADLOCK FALSE
