---------------------------- MODULE Eligibility -----------------------------
(***************************************************************************)
(* Which hostnames a CloudflareTunnelBinding may publish, which address a  *)
(* CloudflareTunnelPrivateRoute may route, and how their two controllers   *)
(* learn that the answer has changed: the checks of validateAndPlan and    *)
(* validate, the map functions behind the watches, and the workqueues.     *)
(*                                                                         *)
(* The state is the manager's informer cache: an event replaces an object  *)
(* in it and is mapped to claims, the bindings and private routes.  A pass *)
(* reads the cache step by step while events go on arriving.  What a pass  *)
(* writes, and conflicts between claims, are in TunnelBinding and          *)
(* PrivateRoute.                                                           *)
(***************************************************************************)
EXTENDS Naturals

CONSTANTS
  Bindings, PrivateRoutes,  \* the claims, all of this controller class
  NoClaim,                  \* a worker is idle
  HttpRoutes,
  NsOf,        \* the namespace of a claim or HTTPRoute
  Services,    \* [ns, name]
  Targets,     \* the Services that a claim's spec may name
  Gateways, Listeners,
  GatewayOf,   \* the Gateway of a listener
  ListenerOf,  \* the listener a binding selects, in its own namespace
  Spellings,   \* hostnames as written in HTTPRoutes
  Hosts, NoHost,
  Canonical,   \* the hostname that a spelling stands for; NoHost: not concrete
  ZoneLists,   \* allow-lists of a provider, as the hostnames within them
  RouteSpecs,  \* of HTTPRoutes: [hosts, parents]; no parents: not there
  Grants,      \* ReferenceGrants: [ns, from, to]
  AnyName,     \* an entry of "to" without a name
  MaxEvents    \* bound: events

Claims     == Bindings \cup PrivateRoutes
Namespaces == {NsOf[o] : o \in Claims \cup HttpRoutes} \cup {s.ns : s \in Services}
Kinds      == {"CloudflareTunnelBinding", "CloudflareTunnelPrivateRoute"}
KindOf(o)  == IF o \in Bindings THEN "CloudflareTunnelBinding"
              ELSE "CloudflareTunnelPrivateRoute"

ASSUME ClaimAssumption ==
  /\ Bindings \cap PrivateRoutes = {} /\ NoClaim \notin Claims
  /\ Targets \subseteq Services /\ Targets # {}
  /\ GatewayOf \in [Listeners -> Gateways] /\ ListenerOf \in [Bindings -> Listeners]
ASSUME HostAssumption ==
  /\ Canonical \in [Spellings -> Hosts \cup {NoHost}] /\ NoHost \notin Hosts
  /\ \A z \in ZoneLists : z \subseteq Hosts
  /\ \A spec \in RouteSpecs : spec.hosts \subseteq Spellings /\ spec.parents \subseteq Listeners
ASSUME GrantAssumption ==
  \A g \in Grants : \A from \in g.from : from = [kind |-> from.kind, ns |-> from.ns]
ASSUME EventAssumption == MaxEvents \in Nat

VARIABLES
  cluster,  \* the cached objects
  exposed,  \* what each claim exposes in Cloudflare
  queue,    \* the claims in the workqueues
  pass,     \* the worker of each controller
  events

vars == <<cluster, exposed, queue, pass, events>>

-----------------------------------------------------------------------------
(* Values.                                                                 *)

\* "foreign": of another controller class.  "rejected": one of its conditions
\* is currently False; "unknown": else, one is not currently True.
Providers == [state : {"absent", "foreign", "rejected", "unknown", "ready"},
              zones : ZoneLists]
\* "none": not there, headless, or not of type ClusterIP.
Addresses == {"none", "four", "otherFour", "six"}
\* port: it has the port that the claims ask for.
ServiceStates == [addr : Addresses, port : BOOLEAN]
\* seen: the spec that Traefik's parent statuses are about; current: their
\* generation is the route's; accepted: both conditions are True.
HttpRouteStates == [spec : RouteSpecs, seen : RouteSpecs, current : BOOLEAN,
                    accepted : BOOLEAN]

\* selected: namespaces whose labels the provider's selector matches.
\* class: the Gateways' class exists and is Traefik's.
\* listening: HTTP listeners of Gateways that are currently Accepted and
\* Programmed.
Clusters ==
  [provider : Providers, selected : SUBSET Namespaces, class : BOOLEAN,
   listening : SUBSET Listeners, grants : SUBSET Grants,
   services : [Services -> ServiceStates], routes : [HttpRoutes -> HttpRouteStates],
   target : [Claims -> Targets]]

\* What the world sees (a hostname or an address), and the Service behind it.
Exposures == [of : Hosts \cup Addresses, to : Services]

Steps == {"idle", "provider", "origin", "routes", "withdraw"}
\* target: of the claim in memory; zones: of the provider in memory.
Pass == [claim : Claims \cup {NoClaim}, pc : Steps, target : Targets, zones : SUBSET Hosts]
Idle == [claim |-> NoClaim, pc |-> "idle", target |-> CHOOSE s \in Targets : TRUE,
         zones |-> {}]

\* The manager starts on a cluster where everything is in place, and lists it:
\* every claim is queued.
Init ==
  /\ cluster \in
       [provider : [state : {"ready"}, zones : ZoneLists], selected : {Namespaces},
        class : {TRUE}, listening : {Listeners}, grants : {Grants},
        services : {[s \in Services |-> [addr |-> "four", port |-> TRUE]]},
        routes : {[r \in HttpRoutes |-> [spec |-> spec, seen |-> spec, current |-> TRUE,
                                         accepted |-> TRUE]] : spec \in RouteSpecs},
        target : [Claims -> Targets]]
  /\ exposed = [o \in Claims |-> {}]
  /\ queue   = Claims
  /\ pass    = [k \in Kinds |-> Idle]
  /\ events  = 0

-----------------------------------------------------------------------------
(* The checks.                                                             *)

\* Slip: hostnames that are not concrete are kept.
NormalizeHostnamesWild(hosts, zones) ==
  {Canonical[h] : h \in hosts} \cap (zones \cup {NoHost})

NormalizeHostnames(hosts, zones) == {Canonical[h] : h \in hosts} \cap zones

\* Slip: a provider of unknown status is as good as a ready one.
ProviderVerdictTrusting(o, c) ==
  CASE c.provider.state = "foreign" -> "leave"
    [] c.provider.state \in {"absent", "rejected"} -> "reject"
    [] OTHER -> IF NsOf[o] \in c.selected THEN "go" ELSE "reject"

\* validateClusterProvider and the first half of validate: the pass goes on, or
\* the claim is rejected, left alone, or tried again.  Only a binding waits for
\* the status of its provider to become known.
ProviderVerdict(o, c) ==
  CASE c.provider.state = "foreign" -> "leave"
    [] c.provider.state = "unknown" /\ o \in Bindings -> "retry"
    [] c.provider.state = "ready" /\ NsOf[o] \in c.selected -> "go"
    [] OTHER -> "reject"

\* Slip: the kind of the reference is not compared.
PermitsAnyKind(grant, o, s) ==
  /\ grant.ns = s.ns
  /\ \E from \in grant.from : from.ns = NsOf[o]
  /\ \E to \in grant.to : to \in {AnyName, s.name}

\* referenceGrantPermitsOrigin and privateGrantPermits, for a grant of the
\* Service's namespace.
Permits(grant, o, s) ==
  /\ grant.ns = s.ns
  /\ \E from \in grant.from : from.kind = KindOf(o) /\ from.ns = NsOf[o]
  /\ \E to \in grant.to : to \in {AnyName, s.name}

ReferencePermitted(o, s, c) == s.ns = NsOf[o] \/ \E g \in c.grants : Permits(g, o, s)

\* A binding takes a ClusterIP of either family, a private route only IPv4.
ServiceFits(o, s, c) ==
  /\ c.services[s].addr \in IF o \in Bindings THEN Addresses \ {"none"}
                                             ELSE {"four", "otherFour"}
  /\ c.services[s].port

GatewayFits(o, c) == o \in Bindings => c.class /\ ListenerOf[o] \in c.listening

OriginFits(o, s, c) ==
  GatewayFits(o, c) /\ ReferencePermitted(o, s, c) /\ ServiceFits(o, s, c)

RouteTargetsBinding(r, b, c) == ListenerOf[b] \in c.routes[r].spec.parents

\* Slip: the conditions' generation is not compared.
RouteAcceptedOnce(r, b, c) ==
  c.routes[r].accepted /\ ListenerOf[b] \in c.routes[r].seen.parents

RouteAccepted(r, b, c) ==
  LET route == c.routes[r]
  IN  route.current /\ route.accepted /\ ListenerOf[b] \in route.seen.parents

AcceptedRouteHostnames(b, c) ==
  UNION {c.routes[r].spec.hosts :
           r \in {x \in HttpRoutes : /\ NsOf[x] = NsOf[b]
                                     /\ RouteTargetsBinding(x, b, c)
                                     /\ RouteAccepted(x, b, c)}}

Published(b, s, zones, c) ==
  [of : NormalizeHostnames(AcceptedRouteHostnames(b, c), zones), to : {s}]
Routed(s, c) == [of : {c.services[s].addr}, to : {s}]

\* What a pass that reads all of cluster c at once would expose.
Verdict(o, c) ==
  LET s == c.target[o]
  IN  IF ProviderVerdict(o, c) # "go" \/ ~OriginFits(o, s, c) THEN {}
      ELSE IF o \in Bindings THEN Published(o, s, c.provider.zones, c) ELSE Routed(s, c)

-----------------------------------------------------------------------------
(* The passes, one at a time in each controller.                           *)

At(k, pc) == pass[k].pc = pc
Goto(k, pc) == pass' = [pass EXCEPT ![k].pc = pc] /\ UNCHANGED <<exposed, queue>>

\* The pass ends; exposed is what it leaves in Cloudflare.
Finish(k, e) ==
  /\ exposed' = [exposed EXCEPT ![pass[k].claim] = e]
  /\ pass' = [pass EXCEPT ![k] = Idle]
  /\ UNCHANGED queue

\* It ends with nothing changed; with an error, the claim is queued again.
Abandon(k, again) ==
  /\ queue' = queue \cup (IF again THEN {pass[k].claim} ELSE {})
  /\ pass' = [pass EXCEPT ![k] = Idle]
  /\ UNCHANGED exposed

\* A claim whose event arrives after this is queued for another pass.
Begin(o) ==
  /\ At(KindOf(o), "idle") /\ o \in queue
  /\ queue' = queue \ {o}
  /\ pass' = [pass EXCEPT ![KindOf(o)] = [claim |-> o, pc |-> "provider",
                             target |-> cluster.target[o], zones |-> {}]]
  /\ UNCHANGED <<cluster, exposed, events>>

ReadProvider(k) ==
  /\ At(k, "provider")
  /\ LET verdict == ProviderVerdict(pass[k].claim, cluster)
     IN  \/ /\ verdict = "go"
            /\ pass' = [pass EXCEPT ![k].pc = "origin",
                                    ![k].zones = cluster.provider.zones]
            /\ UNCHANGED <<exposed, queue>>
         \/ verdict = "reject" /\ Goto(k, "withdraw")
         \/ verdict \in {"leave", "retry"} /\ Abandon(k, verdict = "retry")
  /\ UNCHANGED <<cluster, events>>

\* Gateway, grants and Service.
ReadOrigin(k) ==
  LET o == pass[k].claim
      s == pass[k].target
  IN  /\ At(k, "origin")
      /\ \/ ~OriginFits(o, s, cluster) /\ Goto(k, "withdraw")
         \/ OriginFits(o, s, cluster) /\ o \in Bindings /\ Goto(k, "routes")
         \/ OriginFits(o, s, cluster) /\ o \in PrivateRoutes /\ Finish(k, Routed(s, cluster))
      /\ UNCHANGED <<cluster, events>>

\* Without a hostname the tunnel, if there is one, answers 404 only.
ReadRoutes(k) ==
  /\ At(k, "routes")
  /\ Finish(k, Published(pass[k].claim, pass[k].target, pass[k].zones, cluster))
  /\ UNCHANGED <<cluster, events>>

\* deprogramTunnel and removeRoute read the provider again for its credentials.
Withdraw(k) ==
  LET o == pass[k].claim
      p == cluster.provider.state
  IN  /\ At(k, "withdraw")
      /\ IF exposed[o] # {} /\ (p = "absent" \/ (p = "foreign" /\ o \in PrivateRoutes))
         THEN Abandon(k, TRUE) ELSE Finish(k, {})
      /\ UNCHANGED <<cluster, events>>

-----------------------------------------------------------------------------
(* Watch events.  Both the old and the new object are mapped to claims.    *)

\* The claims that a ReferenceGrant of namespace ns concerns.
\* Slip: the claim's own namespace is compared.
GrantMatchesOwn(ns) == {o \in Claims : cluster.target[o].ns # ns /\ NsOf[o] = ns}

GrantMatches(ns) ==
  {o \in Claims : /\ cluster.target[o].ns = ns
                  /\ o \in Bindings => cluster.target[o].ns # NsOf[o]}

\* Slip: the events of namespaces are not mapped to private routes.
NamespaceMatchesBindings(ns) == {b \in Bindings : NsOf[b] = ns}

NamespaceMatches(ns) == {o \in Claims : NsOf[o] = ns}

ServiceMatches(s) == {o \in Claims : cluster.target[o] = s}

GatewayMatches(g) == {b \in Bindings : GatewayOf[ListenerOf[b]] = g}

\* Of HTTPRoute r, of which either version has one of these parents.
HttpRouteMatches(r, parents) ==
  {b \in Bindings : NsOf[r] = NsOf[b] /\ ListenerOf[b] \in parents}

Event(new, matched) ==
  /\ events < MaxEvents /\ events' = events + 1
  /\ new # cluster /\ cluster' = new
  /\ queue' = queue \cup matched
  /\ UNCHANGED <<exposed, pass>>

ProviderEvent ==
  \E p \in Providers : Event([cluster EXCEPT !.provider = p], Claims)

NamespaceEvent ==
  \E ns \in Namespaces :
    Event([cluster EXCEPT !.selected = IF ns \in @ THEN @ \ {ns} ELSE @ \cup {ns}],
          NamespaceMatches(ns))

GatewayClassEvent == Event([cluster EXCEPT !.class = ~@], Bindings)

GatewayEvent ==
  \E g \in Gateways :
    LET own == {l \in Listeners : GatewayOf[l] = g}
    IN  \E ls \in SUBSET own :
          Event([cluster EXCEPT !.listening = (@ \ own) \cup ls], GatewayMatches(g))

GrantEvent ==
  \E g \in Grants :
    Event([cluster EXCEPT !.grants = IF g \in @ THEN @ \ {g} ELSE @ \cup {g}],
          GrantMatches(g.ns))

ServiceEvent ==
  \E s \in Services, v \in ServiceStates :
    Event([cluster EXCEPT !.services[s] = v], ServiceMatches(s))

\* Somebody edits, creates or deletes an HTTPRoute.
HttpRouteEvent ==
  \E r \in HttpRoutes, spec \in RouteSpecs :
    /\ spec # cluster.routes[r].spec
    /\ Event([cluster EXCEPT !.routes[r].spec = spec, !.routes[r].current = FALSE],
             HttpRouteMatches(r, spec.parents \cup cluster.routes[r].spec.parents))

\* Traefik reports on the HTTPRoute as it is.
TraefikEvent ==
  \E r \in HttpRoutes, accepted \in BOOLEAN :
    LET spec == cluster.routes[r].spec
    IN  /\ spec.parents # {}
        /\ Event([cluster EXCEPT !.routes[r] = [spec |-> spec, seen |-> spec,
                                       current |-> TRUE, accepted |-> accepted]],
                 HttpRouteMatches(r, spec.parents))

\* originServiceRef and serviceRef are not immutable.
ClaimEvent ==
  \E o \in Claims, s \in Targets : Event([cluster EXCEPT !.target[o] = s], {o})

WatchEvent ==
  \/ ProviderEvent \/ NamespaceEvent \/ GatewayClassEvent \/ GatewayEvent
  \/ GrantEvent \/ ServiceEvent \/ HttpRouteEvent \/ TraefikEvent \/ ClaimEvent

Step(k) == ReadProvider(k) \/ ReadOrigin(k) \/ ReadRoutes(k) \/ Withdraw(k)

Next == WatchEvent \/ (\E o \in Claims : Begin(o)) \/ \E k \in Kinds : Step(k)

Spec == Init /\ [][Next]_vars

-----------------------------------------------------------------------------
(* Properties.                                                             *)

\* The controller has no reason to look at the claim, except its periodic one.
\* A claim whose provider is another controller's is left as it is.
Settled(o) ==
  /\ o \notin queue /\ \A k \in Kinds : pass[k].claim # o
  /\ cluster.provider.state # "foreign"

\* Every variable has its type; only canonical hostnames are ever published.
TypeOK ==
  /\ cluster \in Clusters
  /\ exposed \in [Claims -> SUBSET Exposures]
  /\ queue \subseteq Claims /\ pass \in [Kinds -> Pass] /\ events \in Nat

\* Whatever changes, and whenever in a pass, the watches bring back every claim
\* it matters to: what a claim exposes is what its checks would now say.  The
\* periodic requeues are not needed for that.
NoMissedWatch ==
  \A o \in Claims : Settled(o) => exposed[o] = Verdict(o, cluster)

\* A Service of another namespace is exposed only with the consent of that
\* namespace, for this kind of claim and for the claim's namespace.
ConsentedOrigin ==
  \A o \in Claims : Settled(o) =>
    \A e \in exposed[o] :
      e.to.ns # NsOf[o] =>
        \E g \in cluster.grants :
          /\ g.ns = e.to.ns
          /\ [kind |-> KindOf(o), ns |-> NsOf[o]] \in g.from
          /\ {AnyName, e.to.name} \cap g.to # {}

\* A published hostname is one that Traefik serves on the binding's listener,
\* from an HTTPRoute of the binding's namespace, as the route is now.
PublishedAreServed ==
  \A b \in Bindings : Settled(b) =>
    \A e \in exposed[b] :
      \E r \in HttpRoutes :
        /\ NsOf[r] = NsOf[b] /\ cluster.routes[r].accepted
        /\ ListenerOf[b] \in cluster.routes[r].seen.parents
        /\ \E h \in cluster.routes[r].seen.hosts : Canonical[h] = e.of

\* Nothing is exposed through a provider that does not select the namespace or
\* has not been found ready, and no hostname outside its zones.
WithinProvider ==
  \A o \in Claims : Settled(o) /\ exposed[o] # {} =>
    /\ cluster.provider.state = "ready" /\ NsOf[o] \in cluster.selected
    /\ o \in Bindings => \A e \in exposed[o] : e.of \in cluster.provider.zones
=============================================================================
