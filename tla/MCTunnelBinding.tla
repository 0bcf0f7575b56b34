-------------------------- MODULE MCTunnelBinding --------------------------
(* Small instances of TunnelBinding for TLC.                               *)
EXTENDS TunnelBinding

CONSTANTS b1, b2, k1, p1, p2, g1, h1, h2, o1, o2

OneBinding   == {b1}
TwoBindings  == {b1, b2}
AllOfOneClass   == [b \in Bindings |-> k1]
AllOfOneProvider == [b \in Bindings |-> p1]
\* The earlier binding's provider is p1, the later one's is p2.
OwnProviders == [b \in Bindings |-> IF b = b1 THEN p1 ELSE p2]
AllOfOneGateway  == [b \in Bindings |-> g1]
\* Each binding fronts a Gateway of its own.
OwnGateways == [b \in Bindings |-> b]
\* Every state of every provider; or p2 is accepted, while p1 is not yet judged
\* again after a change of it, or is refused.
AllStates  == [p \in Providers |-> ProviderStates]
OneDoubted ==
  [p \in Providers |-> IF p = p1 THEN {"ok", "refused", "pending"} ELSE {"ok"}]
AllRoutes == SUBSET Hosts
RankOf == [b \in Bindings |-> IF b = b1 THEN 1 ELSE 2]
=============================================================================
