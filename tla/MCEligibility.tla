--------------------------- MODULE MCEligibility ----------------------------
(* A small instance of Eligibility for TLC: a binding and a private route  *)
(* of namespace app, Services and HTTPRoutes of app and infra.             *)
EXTENDS Eligibility

CONSTANTS b1, p1, r1, r2, app, infra, svc, gateway, web, admin,
          h1, h2, h1Upper, h2Plain, wildcard

BindingsDef   == {b1}
RoutesDef     == {p1}
HttpRoutesDef == {r1, r2}
NsOfDef == [x \in {b1, p1, r1, r2} |-> IF x = r2 THEN infra ELSE app]

Own     == [ns |-> app, name |-> svc]
Foreign == [ns |-> infra, name |-> svc]
ServicesDef == {Own, Foreign}

ListenersDef  == {web, admin}
GatewayOfDef  == [l \in ListenersDef |-> gateway]
ListenerOfDef == [b \in BindingsDef |-> web]

SpellingsDef == {h1Upper, h2Plain, wildcard}
HostsDef     == {h1, h2}
CanonicalDef == [x \in SpellingsDef |->
                   CASE x = h1Upper -> h1 [] x = h2Plain -> h2 [] OTHER -> NoHost]
ZoneListsDef == {{h1}, {h1, h2}}

RouteSpecsDef ==
  {[hosts |-> {}, parents |-> {}],
   [hosts |-> {h1Upper, wildcard}, parents |-> {web}],
   [hosts |-> {h2Plain}, parents |-> {web, admin}],
   [hosts |-> {h1Upper, h2Plain}, parents |-> {admin}]}

Grant(ns, kind, name) ==
  [ns |-> ns, from |-> {[kind |-> kind, ns |-> app]}, to |-> {name}]
GrantsDef ==
  {Grant(infra, "CloudflareTunnelBinding", svc),
   Grant(infra, "CloudflareTunnelPrivateRoute", AnyName),
   Grant(app, "CloudflareTunnelBinding", AnyName)}
=============================================================================
