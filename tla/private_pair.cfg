SPECIFICATION FairSpec
CONSTANTS
  p1 = p1
  p2 = p2
  a1 = a1
  Routes = {p1, p2}
  Providers = {a1}
  Services = {s1}
  Networks = {n1}
  Tunnels = {t1, t2}
  Cidrs = {c1, c2, c3}
  None = None
  Outsider = Outsider
  ProviderOf <- AllOfOneProvider
  Rank <- RankOf
  Policies = {"Delete"}
  MaxEdits = 0
  MaxFaults = 0
PROPERTIES
  EventuallyRouted
  EventuallyWithdrawn
CHECK_DEADLOCK FALSE
