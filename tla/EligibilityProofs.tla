------------------------- MODULE EligibilityProofs --------------------------
(***************************************************************************)
(* What a claim exposes is what its checks would say, for any claims,      *)
(* objects, events and interleavings with the passes: every watch brings   *)
(* back every claim that an event matters to.  The three properties of     *)
(* what is exposed follow from that.                                       *)
(***************************************************************************)
EXTENDS Eligibility, TLAPS

-----------------------------------------------------------------------------
(* Types.                                                                  *)

\* The kinds of claims, and what is exposed for them.
LEMMA Types ==
  /\ \A o \in Claims : KindOf(o) \in Kinds /\ NsOf[o] \in Namespaces /\ o # NoClaim
  /\ \A k \in Kinds : k = "CloudflareTunnelBinding" \/ k = "CloudflareTunnelPrivateRoute"
  /\ Idle \in Pass /\ Idle.claim = NoClaim /\ Idle.pc = "idle"
  /\ \A s \in Services, c \in Clusters :
       /\ Routed(s, c) \in SUBSET Exposures
       /\ \A b \in Bindings, zones \in SUBSET Hosts :
            Published(b, s, zones, c) \in SUBSET Exposures
<1>1. \A o \in Claims : KindOf(o) \in Kinds /\ NsOf[o] \in Namespaces /\ o # NoClaim
  BY ClaimAssumption DEF KindOf, Kinds, Namespaces
<1>2. (CHOOSE s \in Targets : TRUE) \in Targets
  BY ClaimAssumption
<1>3. Idle \in Pass /\ Idle.claim = NoClaim /\ Idle.pc = "idle"
  BY <1>2 DEF Idle, Pass, Steps
<1>4. ASSUME NEW s \in Services, NEW c \in Clusters
      PROVE  /\ Routed(s, c) \in SUBSET Exposures
             /\ \A b \in Bindings, zones \in SUBSET Hosts :
                  Published(b, s, zones, c) \in SUBSET Exposures
  <2>1. c.services[s].addr \in Addresses
    BY DEF Clusters, ServiceStates
  <2>2. Routed(s, c) \in SUBSET Exposures
    BY <2>1 DEF Routed, Exposures
  <2>3. \A b \in Bindings, zones \in SUBSET Hosts :
          Published(b, s, zones, c) \in SUBSET Exposures
    BY DEF Published, NormalizeHostnames, Exposures
  <2>4. QED
    BY <2>2, <2>3
<1>5. QED
  BY <1>1, <1>3, <1>4 DEF Kinds

\* The initial state has the types.
LEMMA InitType == Init => TypeOK
<1>1. SUFFICES ASSUME Init PROVE TypeOK
  OBVIOUS
<1> DEFINE full    == [s \in Services |-> [addr |-> "four", port |-> TRUE]]
           r(spec) == [spec |-> spec, seen |-> spec, current |-> TRUE, accepted |-> TRUE]
<1>2. full \in [Services -> ServiceStates]
  BY DEF ServiceStates, Addresses
<1>3. \A spec \in RouteSpecs : [x \in HttpRoutes |-> r(spec)] \in [HttpRoutes -> HttpRouteStates]
  BY DEF HttpRouteStates
<1>4. /\ cluster.provider \in [state : {"ready"}, zones : ZoneLists]
      /\ cluster.selected = Namespaces /\ cluster.class = TRUE
      /\ cluster.listening = Listeners /\ cluster.grants = Grants
      /\ cluster.services = full /\ cluster.target \in [Claims -> Targets]
      /\ \E spec \in RouteSpecs : cluster.routes = [x \in HttpRoutes |-> r(spec)]
      /\ cluster = [provider |-> cluster.provider, selected |-> cluster.selected,
                    class |-> cluster.class, listening |-> cluster.listening,
                    grants |-> cluster.grants, services |-> cluster.services,
                    routes |-> cluster.routes, target |-> cluster.target]
  BY <1>1 DEF Init
<1> HIDE DEF full, r
<1>5. cluster.provider \in Providers /\ cluster.routes \in [HttpRoutes -> HttpRouteStates]
  BY <1>3, <1>4 DEF Providers
<1>6. cluster \in Clusters
  BY <1>2, <1>4, <1>5 DEF Clusters
<1>7. QED
  BY <1>1, <1>6, Types DEF Init, TypeOK

\* An event leaves a cluster.
LEMMA EventType ==
  ASSUME TypeOK, WatchEvent
  PROVE  cluster' \in Clusters
<1>1. /\ cluster \in Clusters
      /\ cluster.selected \subseteq Namespaces /\ cluster.listening \subseteq Listeners
      /\ cluster.grants \subseteq Grants /\ cluster.class \in BOOLEAN
      /\ \A r \in HttpRoutes : cluster.routes[r].spec \in RouteSpecs
  BY DEF TypeOK, Clusters, HttpRouteStates
<1>2. CASE ProviderEvent
  BY <1>1, <1>2 DEF ProviderEvent, Event, Clusters
<1>3. CASE NamespaceEvent
  BY <1>1, <1>3 DEF NamespaceEvent, Event, Clusters
<1>4. CASE GatewayClassEvent
  <2>1. \A v \in BOOLEAN : [cluster EXCEPT !.class = v] \in Clusters
    BY <1>1 DEF Clusters
  <2>2. (~cluster.class) \in BOOLEAN
    OBVIOUS
  <2>3. cluster' = [cluster EXCEPT !.class = ~cluster.class]
    BY <1>4, Zenon DEF GatewayClassEvent, Event
  <2>4. QED
    BY <2>1, <2>2, <2>3, Zenon
<1>5. CASE GatewayEvent
  BY <1>1, <1>5 DEF GatewayEvent, Event, Clusters
<1>6. CASE GrantEvent \/ ServiceEvent \/ ClaimEvent
  BY <1>1, <1>6 DEF GrantEvent, ServiceEvent, ClaimEvent, Event, Clusters
<1>7. ASSUME NEW c \in Clusters, NEW r \in HttpRoutes
      PROVE  /\ \A v \in HttpRouteStates : [c EXCEPT !.routes[r] = v] \in Clusters
             /\ \A spec \in RouteSpecs : [c EXCEPT !.routes[r].spec = spec] \in Clusters
             /\ [c EXCEPT !.routes[r].current = FALSE] \in Clusters
  BY ZenonT(60) DEF Clusters, HttpRouteStates
<1>8. CASE HttpRouteEvent
  <2>1. PICK r \in HttpRoutes, spec \in RouteSpecs :
          cluster' = [cluster EXCEPT !.routes[r].spec = spec, !.routes[r].current = FALSE]
    BY <1>8 DEF HttpRouteEvent, Event
  <2>2. PICK c \in Clusters : c = [cluster EXCEPT !.routes[r].spec = spec]
    BY <1>1, <1>7
  <2>3. cluster' = [c EXCEPT !.routes[r].current = FALSE]
    BY <2>1, <2>2
  <2>4. QED
    BY <1>7, <2>3
<1>9. CASE TraefikEvent
  <2>1. PICK r \in HttpRoutes, accepted \in BOOLEAN :
          cluster' = [cluster EXCEPT !.routes[r] =
                        [spec |-> cluster.routes[r].spec, seen |-> cluster.routes[r].spec,
                         current |-> TRUE, accepted |-> accepted]]
    BY <1>9 DEF TraefikEvent, Event
  <2>2. QED
    BY <1>1, <1>7, <2>1 DEF HttpRouteStates
<1>10. QED
  BY <1>2, <1>3, <1>4, <1>5, <1>6, <1>8, <1>9 DEF WatchEvent

\* A worker is busy with a claim of its kind, or idle; only bindings have
\* routes.
Busy ==
  \A k \in Kinds :
    /\ pass[k].pc = "idle" <=> pass[k].claim = NoClaim
    /\ pass[k].claim \in Claims => KindOf(pass[k].claim) = k
    /\ pass[k].pc = "routes" => pass[k].claim \in Bindings

\* What a step of worker k leaves typed.
Typed == /\ exposed' \in [Claims -> SUBSET Exposures] /\ queue' \subseteq Claims
         /\ pass' \in [Kinds -> Pass]

\* A step of a pass leaves both.
LEMMA StepType ==
  ASSUME TypeOK, Busy, NEW k \in Kinds, Step(k)
  PROVE  TypeOK' /\ Busy'
<1> DEFINE o == pass[k].claim
<1>1. /\ cluster \in Clusters /\ pass \in [Kinds -> Pass] /\ queue \subseteq Claims
      /\ exposed \in [Claims -> SUBSET Exposures] /\ events \in Nat
  BY DEF TypeOK
<1>2. /\ pass[k] \in Pass /\ pass[k].zones \in SUBSET Hosts /\ pass[k].target \in Services
      /\ pass[k].pc # "idle" /\ o \in Claims /\ KindOf(o) = k
      /\ pass[k].pc = "routes" => o \in Bindings
  BY <1>1, ClaimAssumption DEF Pass, Busy, Step, ReadProvider, ReadOrigin, ReadRoutes,
                               Withdraw, At
<1>3. cluster.provider.zones \in SUBSET Hosts
  BY <1>1, HostAssumption DEF Clusters, Providers
<1>4. UNCHANGED <<cluster, events>>
  BY DEF Step, ReadProvider, ReadOrigin, ReadRoutes, Withdraw
<1>5. ASSUME NEW e \in SUBSET Exposures, Finish(k, e)
      PROVE  Typed /\ Busy'
  BY <1>1, <1>2, <1>5, Types DEF Finish, Typed, Busy
<1>6. ASSUME NEW pc \in Steps, Goto(k, pc), pc # "idle", pc = "routes" => o \in Bindings
      PROVE  Typed /\ Busy'
  BY <1>1, <1>2, <1>6, Types DEF Goto, Typed, Busy, Pass
<1>7. ASSUME NEW again \in BOOLEAN, Abandon(k, again)
      PROVE  Typed /\ Busy'
  BY <1>1, <1>2, <1>7, Types DEF Abandon, Typed, Busy
<1>8. CASE ReadProvider(k)
  <2>1. CASE Goto(k, "withdraw")
    BY <1>1, <1>4, <1>6, <2>1 DEF Steps, TypeOK, Typed
  <2>2. CASE Abandon(k, ProviderVerdict(o, cluster) = "retry")
    BY <1>1, <1>4, <1>7, <2>2, Zenon DEF TypeOK, Typed
  <2>3. CASE /\ pass' = [pass EXCEPT ![k].pc = "origin",
                                     ![k].zones = cluster.provider.zones]
             /\ UNCHANGED <<exposed, queue>>
    BY ZenonT(60), <1>1, <1>2, <1>3, <1>4, <2>3, Types DEF TypeOK, Busy, Pass, Steps
  <2>4. QED
    BY <1>8, <2>1, <2>2, <2>3 DEF ReadProvider
<1>9. CASE ReadOrigin(k)
  <2>1. CASE Goto(k, "withdraw")
    BY <1>1, <1>4, <1>6, <2>1 DEF Steps, TypeOK, Typed
  <2>2. CASE o \in Bindings /\ Goto(k, "routes")
    BY <1>1, <1>4, <1>6, <2>2 DEF Steps, TypeOK, Typed
  <2>3. CASE Finish(k, Routed(pass[k].target, cluster))
    BY <1>1, <1>2, <1>4, <1>5, <2>3, Types DEF TypeOK, Typed
  <2>4. QED
    BY <1>9, <2>1, <2>2, <2>3 DEF ReadOrigin
<1>10. CASE ReadRoutes(k)
  BY <1>1, <1>2, <1>4, <1>5, <1>10, Types DEF ReadRoutes, TypeOK, Typed, At
<1>11. CASE Withdraw(k)
  BY <1>1, <1>4, <1>5, <1>7, <1>11 DEF Withdraw, TypeOK, Typed
<1>12. QED
  BY <1>8, <1>9, <1>10, <1>11 DEF Step

-----------------------------------------------------------------------------
(* What a claim's checks look at, and that no event changes it unnoticed.  *)

\* Cluster d is to the checks of claim o what cluster c is.
Unaffected(o, c, d) ==
  LET s == c.target[o]
  IN  /\ d.provider = c.provider /\ d.target[o] = s
      /\ NsOf[o] \in d.selected <=> NsOf[o] \in c.selected
      /\ d.services[s] = c.services[s]
      /\ s.ns # NsOf[o] =>
           \A g \in Grants : g.ns = s.ns => (g \in d.grants <=> g \in c.grants)
      /\ o \in Bindings =>
           /\ d.class = c.class
           /\ ListenerOf[o] \in d.listening <=> ListenerOf[o] \in c.listening
           /\ \A r \in HttpRoutes :
                NsOf[r] = NsOf[o] =>
                  \/ d.routes[r] = c.routes[r]
                  \/ ~RouteTargetsBinding(r, o, c) /\ ~RouteTargetsBinding(r, o, d)

\* A claim that an event does not queue is unaffected by it: the map functions
\* behind the watches miss nothing.
LEMMA WatchesMissNothing ==
  ASSUME TypeOK, WatchEvent, NEW o \in Claims, o \notin queue'
  PROVE  Unaffected(o, cluster, cluster')
<1>1. /\ cluster \in Clusters /\ cluster.target[o] \in Services
      /\ cluster.target \in [Claims -> Targets]
      /\ cluster.services \in [Services -> ServiceStates]
      /\ cluster.routes \in [HttpRoutes -> HttpRouteStates]
  BY ClaimAssumption DEF TypeOK, Clusters
<1>2. CASE ProviderEvent
  BY <1>2 DEF ProviderEvent, Event
<1>3. CASE NamespaceEvent
  BY <1>1, <1>3 DEF NamespaceEvent, Event, NamespaceMatches, Unaffected, Clusters
<1>4. CASE GatewayClassEvent
  BY <1>1, <1>4 DEF GatewayClassEvent, Event, Unaffected, Clusters
<1>5. CASE GatewayEvent
  BY <1>1, <1>5 DEF GatewayEvent, Event, GatewayMatches, Unaffected, Clusters
<1>6. CASE GrantEvent
  BY <1>1, <1>6 DEF GrantEvent, Event, GrantMatches, Unaffected, Clusters
<1>7. CASE ServiceEvent
  BY <1>1, <1>7 DEF ServiceEvent, Event, ServiceMatches, Unaffected, Clusters
<1>8. CASE HttpRouteEvent
  BY <1>1, <1>8 DEF HttpRouteEvent, Event, HttpRouteMatches, Unaffected, Clusters,
                    HttpRouteStates, RouteTargetsBinding
<1>9. CASE TraefikEvent
  BY <1>1, <1>9 DEF TraefikEvent, Event, HttpRouteMatches, Unaffected, Clusters,
                    HttpRouteStates, RouteTargetsBinding
<1>10. CASE ClaimEvent
  BY <1>1, <1>10 DEF ClaimEvent, Event, Unaffected, Clusters
<1>11. QED
  BY <1>2, <1>3, <1>4, <1>5, <1>6, <1>7, <1>8, <1>9, <1>10 DEF WatchEvent

\* An unaffected claim gets the same answer from every check.
LEMMA SameAnswers ==
  ASSUME NEW c \in Clusters, NEW d \in Clusters, NEW o \in Claims, Unaffected(o, c, d)
  PROVE  LET s == c.target[o]
         IN  /\ d.target[o] = s /\ d.provider = c.provider
             /\ ProviderVerdict(o, d) = ProviderVerdict(o, c)
             /\ OriginFits(o, s, d) <=> OriginFits(o, s, c)
             /\ Verdict(o, d) = Verdict(o, c)
<1> DEFINE s == c.target[o]
<1>1. /\ c.grants \subseteq Grants /\ d.grants \subseteq Grants
      /\ d.target[o] = s /\ d.provider = c.provider
  BY DEF Unaffected, Clusters
<1>2. ProviderVerdict(o, d) = ProviderVerdict(o, c)
  BY DEF Unaffected, ProviderVerdict
<1>3. ReferencePermitted(o, s, d) <=> ReferencePermitted(o, s, c)
  BY <1>1 DEF Unaffected, ReferencePermitted, Permits
<1>4. ServiceFits(o, s, d) <=> ServiceFits(o, s, c)
  BY DEF Unaffected, ServiceFits
<1>5. GatewayFits(o, d) <=> GatewayFits(o, c)
  BY DEF Unaffected, GatewayFits
<1>6. OriginFits(o, s, d) <=> OriginFits(o, s, c)
  BY <1>3, <1>4, <1>5 DEF OriginFits
<1>7. Routed(s, d) = Routed(s, c)
  BY DEF Unaffected, Routed
<1>8. ASSUME o \in Bindings
      PROVE  AcceptedRouteHostnames(o, d) = AcceptedRouteHostnames(o, c)
  <2>1. \A r \in HttpRoutes :
          NsOf[r] = NsOf[o] =>
            \/ d.routes[r] = c.routes[r]
            \/ ~RouteTargetsBinding(r, o, c) /\ ~RouteTargetsBinding(r, o, d)
    BY <1>8 DEF Unaffected
  <2>2. \A r \in HttpRoutes :
          NsOf[r] = NsOf[o] =>
            /\ RouteTargetsBinding(r, o, d) <=> RouteTargetsBinding(r, o, c)
            /\ RouteTargetsBinding(r, o, c) =>
                 /\ RouteAccepted(r, o, d) <=> RouteAccepted(r, o, c)
                 /\ d.routes[r].spec.hosts = c.routes[r].spec.hosts
    BY <2>1 DEF RouteTargetsBinding, RouteAccepted
  <2>3. \A h : h \in AcceptedRouteHostnames(o, d) <=> h \in AcceptedRouteHostnames(o, c)
    BY <2>2 DEF AcceptedRouteHostnames
  <2>4. QED
    BY <2>3
<1>9. o \in Bindings => \A zones : Published(o, s, zones, d) = Published(o, s, zones, c)
  BY <1>8 DEF Published
<1>10. Verdict(o, d) = Verdict(o, c)
  BY <1>1, <1>2, <1>6, <1>7, <1>9 DEF Verdict
<1>11. QED
  BY <1>1, <1>2, <1>6, <1>10

-----------------------------------------------------------------------------
(* The invariant.                                                          *)

\* As long as no event has queued claim o again, what its pass has found still
\* holds; and what o exposes is right when no pass is on its way, unless the
\* provider has changed hands.
Current(o) ==
  LET w == pass[KindOf(o)]
      s == cluster.target[o]
  IN  o \notin queue =>
        /\ w.claim # o /\ cluster.provider.state # "foreign" =>
             exposed[o] = Verdict(o, cluster)
        /\ w.claim = o =>
             /\ w.target = s
             /\ w.pc \in {"origin", "routes"} =>
                  ProviderVerdict(o, cluster) = "go" /\ w.zones = cluster.provider.zones
             /\ w.pc = "routes" => OriginFits(o, s, cluster)
             /\ w.pc = "withdraw" => Verdict(o, cluster) = {}

\* Parent statuses of the present generation are about the present spec.
Reported == \A r \in HttpRoutes :
              cluster.routes[r].current => cluster.routes[r].seen = cluster.routes[r].spec

WatchInv == TypeOK /\ Busy /\ Reported /\ \A o \in Claims : Current(o)

\* What a pass that reads the cluster at once would expose, by case.
LEMMA VerdictIs ==
  ASSUME NEW o \in Claims, NEW c \in Clusters
  PROVE  LET s == c.target[o]
             go == ProviderVerdict(o, c) = "go" /\ OriginFits(o, s, c)
         IN  /\ ~go => Verdict(o, c) = {}
             /\ go /\ o \in Bindings => Verdict(o, c) = Published(o, s, c.provider.zones, c)
             /\ go /\ o \notin Bindings => Verdict(o, c) = Routed(s, c)
             /\ c.provider.state = "foreign" => ProviderVerdict(o, c) = "leave"
             /\ ProviderVerdict(o, c) = "leave" => c.provider.state = "foreign"
             /\ ProviderVerdict(o, c) \in {"go", "leave", "retry", "reject"}
<1>1. /\ c.provider.state = "foreign" => ProviderVerdict(o, c) = "leave"
      /\ ProviderVerdict(o, c) = "leave" => c.provider.state = "foreign"
      /\ ProviderVerdict(o, c) \in {"go", "leave", "retry", "reject"}
  BY DEF ProviderVerdict
<1>2. QED
  BY <1>1 DEF Verdict

\* An event keeps the invariant: a claim it does not queue is unaffected.
LEMMA EventKeeps ==
  ASSUME WatchInv, WatchEvent
  PROVE  WatchInv'
<1>1. /\ cluster \in Clusters /\ cluster' \in Clusters
      /\ cluster.routes \in [HttpRoutes -> HttpRouteStates]
  BY EventType DEF WatchInv, TypeOK, Clusters
<1>2. /\ UNCHANGED <<exposed, pass>> /\ queue \subseteq queue' /\ queue' \subseteq Claims
      /\ events' \in Nat
  <2>1. queue \subseteq Claims /\ events \in Nat
    BY DEF WatchInv, TypeOK
  <2>2. /\ \A ns : NamespaceMatches(ns) \subseteq Claims /\ GrantMatches(ns) \subseteq Claims
        /\ \A s : ServiceMatches(s) \subseteq Claims
        /\ \A g : GatewayMatches(g) \subseteq Claims
        /\ \A r, ps : HttpRouteMatches(r, ps) \subseteq Claims
        /\ Bindings \subseteq Claims
    BY DEF NamespaceMatches, GrantMatches, ServiceMatches, GatewayMatches, HttpRouteMatches,
           Claims
  <2>3. CASE ProviderEvent \/ GatewayClassEvent \/ ClaimEvent
    BY <2>1, <2>2, <2>3 DEF ProviderEvent, GatewayClassEvent, ClaimEvent, Event
  <2>4. CASE NamespaceEvent \/ GrantEvent
    BY <2>1, <2>2, <2>4 DEF NamespaceEvent, GrantEvent, Event
  <2>5. CASE ServiceEvent \/ GatewayEvent
    BY <2>1, <2>2, <2>5 DEF ServiceEvent, GatewayEvent, Event
  <2>6. CASE HttpRouteEvent \/ TraefikEvent
    <3>1. /\ UNCHANGED <<exposed, pass>> /\ events' = events + 1
          /\ \E r, ps : queue' = queue \cup HttpRouteMatches(r, ps)
      BY <2>6 DEF HttpRouteEvent, TraefikEvent, Event
    <3>2. QED
      BY <2>1, <2>2, <3>1
  <2>7. QED
    BY <2>3, <2>4, <2>5, <2>6 DEF WatchEvent
<1>3. TypeOK' /\ Busy'
  BY <1>1, <1>2 DEF WatchInv, TypeOK, Busy
<1>4. Reported'
  <2>1. CASE cluster'.routes = cluster.routes
    BY <2>1 DEF WatchInv, Reported
  <2>2. CASE HttpRouteEvent
    BY <1>1, <2>2 DEF HttpRouteEvent, Event, WatchInv, Reported, HttpRouteStates, Clusters
  <2>3. CASE TraefikEvent
    BY <1>1, <2>3 DEF TraefikEvent, Event, WatchInv, Reported, HttpRouteStates, Clusters
  <2>4. QED
    BY <1>1, <2>1, <2>2, <2>3
    DEF WatchEvent, ProviderEvent, NamespaceEvent, GatewayClassEvent, GatewayEvent,
        GrantEvent, ServiceEvent, ClaimEvent, Event, Clusters
<1>5. ASSUME NEW o \in Claims, o \notin queue'
      PROVE  Current(o)'
  <2>1. Unaffected(o, cluster, cluster') /\ o \notin queue /\ Current(o)
    BY <1>2, <1>5, WatchesMissNothing DEF WatchInv
  <2>2. /\ cluster'.target[o] = cluster.target[o] /\ cluster'.provider = cluster.provider
        /\ ProviderVerdict(o, cluster') = ProviderVerdict(o, cluster)
        /\ OriginFits(o, cluster.target[o], cluster') <=> OriginFits(o, cluster.target[o], cluster)
        /\ Verdict(o, cluster') = Verdict(o, cluster)
    BY <1>1, <2>1, SameAnswers
  <2>3. QED
    BY <1>2, <2>1, <2>2 DEF Current
<1>6. QED
  BY <1>3, <1>4, <1>5 DEF WatchInv, Current

\* A pass that begins has found nothing yet.
LEMMA BeginKeeps ==
  ASSUME WatchInv, NEW b \in Claims, Begin(b)
  PROVE  WatchInv'
<1>1. /\ pass \in [Kinds -> Pass] /\ queue \subseteq Claims
      /\ KindOf(b) \in Kinds /\ pass[KindOf(b)].claim = NoClaim /\ b # NoClaim
      /\ cluster.target[b] \in Targets
  BY Types DEF WatchInv, TypeOK, Busy, Begin, At, Clusters
<1> DEFINE w == [claim |-> b, pc |-> "provider", target |-> cluster.target[b], zones |-> {}]
<1>2. /\ queue' = queue \ {b} /\ UNCHANGED <<cluster, exposed, events>>
      /\ pass' = [pass EXCEPT ![KindOf(b)] = w]
  BY DEF Begin
<1>3. /\ w \in Pass /\ w.claim = b /\ w.pc = "provider" /\ w.target = cluster.target[b]
  BY <1>1 DEF Pass, Steps
<1> HIDE DEF w
<1>4. TypeOK'
  BY <1>1, <1>2, <1>3 DEF WatchInv, TypeOK
<1>5. Busy'
  BY <1>1, <1>2, <1>3 DEF WatchInv, Busy
<1>6. Reported'
  BY <1>2 DEF WatchInv, Reported
<1>7. ASSUME NEW o \in Claims, o \notin queue'
      PROVE  Current(o)'
  <2>1. CASE o = b
    BY <1>1, <1>2, <1>3, <2>1 DEF Current
  <2>2. CASE o # b /\ KindOf(o) = KindOf(b)
    BY <1>1, <1>2, <1>3, <1>7, <2>2, Types DEF Current, WatchInv
  <2>3. CASE KindOf(o) # KindOf(b)
    BY <1>1, <1>2, <1>7, <2>3, Types DEF Current, WatchInv
  <2>4. QED
    BY <2>1, <2>2, <2>3
<1>8. QED
  BY <1>4, <1>5, <1>6, <1>7 DEF WatchInv, Current

\* A step of a pass reads what the cluster is now, and ends with what all its
\* checks would now say or with the claim queued again.
LEMMA StepKeeps ==
  ASSUME WatchInv, NEW k \in Kinds, Step(k)
  PROVE  WatchInv'
<1>1. PICK c \in Claims : c = pass[k].claim /\ KindOf(c) = k /\ c # NoClaim
  BY Types DEF WatchInv, TypeOK, Busy, Pass, Step, ReadProvider, ReadOrigin, ReadRoutes,
               Withdraw, At
<1>2. /\ pass \in [Kinds -> Pass] /\ queue \subseteq Claims
      /\ exposed \in [Claims -> SUBSET Exposures] /\ cluster \in Clusters
      /\ pass[k] \in Pass /\ pass[k].pc = "routes" => c \in Bindings
      /\ Current(c)
  BY <1>1 DEF WatchInv, TypeOK, Busy
<1>3. UNCHANGED cluster
  BY DEF Step, ReadProvider, ReadOrigin, ReadRoutes, Withdraw
<1>4. TypeOK' /\ Busy' /\ Reported'
  BY <1>3, StepType DEF WatchInv, Reported
<1>5. /\ queue \subseteq queue'
      /\ \A j \in Kinds \ {k} : pass'[j] = pass[j]
      /\ \A o \in Claims \ {c} : exposed'[o] = exposed[o]
      /\ pass'[k].claim \in {c, NoClaim}
  BY <1>1, <1>2, Types
  DEF Step, ReadProvider, ReadOrigin, ReadRoutes, Withdraw, Finish, Goto, Abandon, Pass
<1>6. ASSUME NEW o \in Claims \ {c}
      PROVE  Current(o)'
  BY <1>1, <1>2, <1>3, <1>5, <1>6, Types DEF Current, WatchInv
<1>7. Current(c)'
  <2>1. SUFFICES ASSUME c \notin queue'
                 PROVE  Current(c)'
    BY DEF Current
  <2>2. /\ pass[k].target = cluster.target[c]
        /\ pass[k].pc \in {"origin", "routes"} =>
             ProviderVerdict(c, cluster) = "go" /\ pass[k].zones = cluster.provider.zones
        /\ pass[k].pc = "routes" => OriginFits(c, cluster.target[c], cluster)
        /\ pass[k].pc = "withdraw" => Verdict(c, cluster) = {}
    BY <1>1, <1>2, <1>5, <2>1 DEF Current
  <2>3. \A e : Finish(k, e) /\ e = Verdict(c, cluster) => Current(c)'
    BY <1>1, <1>2, <1>3, Types DEF Current, Finish
  <2>4. Goto(k, "withdraw") /\ Verdict(c, cluster) = {} => Current(c)'
    BY <1>1, <1>2, <1>3, <2>2 DEF Current, Goto, Pass
  <2>5. Goto(k, "routes") /\ pass[k].pc = "origin" /\ OriginFits(c, cluster.target[c], cluster)
          => Current(c)'
    BY <1>1, <1>2, <1>3, <2>2 DEF Current, Goto, Pass
  <2>6. Abandon(k, TRUE) => c \in queue'
    BY <1>1 DEF Abandon
  <2>7. CASE ReadProvider(k)
    <3>1. ProviderVerdict(c, cluster) = "reject" => Verdict(c, cluster) = {}
      BY <1>2, VerdictIs
    <3>2. CASE /\ ProviderVerdict(c, cluster) = "go"
               /\ pass' = [pass EXCEPT ![k].pc = "origin",
                                       ![k].zones = cluster.provider.zones]
      BY <1>1, <1>2, <1>3, <2>2, <3>2 DEF Current, Pass
    <3>3. CASE ProviderVerdict(c, cluster) = "leave" /\ pass' = [pass EXCEPT ![k] = Idle]
      BY <1>1, <1>2, <1>3, <3>3, Types, VerdictIs DEF Current
    <3>4. CASE ProviderVerdict(c, cluster) = "retry" /\ queue' = queue \cup {c}
      BY <2>1, <3>4
    <3>5. QED
      BY <1>1, <2>4, <2>7, <3>1, <3>2, <3>3, <3>4 DEF ReadProvider, Abandon
  <2>8. CASE ReadOrigin(k)
    <3>1. pass[k].pc = "origin"
      BY <2>8 DEF ReadOrigin, At
    <3>2. ~OriginFits(c, cluster.target[c], cluster) => Verdict(c, cluster) = {}
      BY <1>2, VerdictIs
    <3>3. OriginFits(c, cluster.target[c], cluster) /\ c \in PrivateRoutes
            => Verdict(c, cluster) = Routed(cluster.target[c], cluster)
      BY <1>2, <2>2, <3>1, VerdictIs, ClaimAssumption
    <3>4. QED
      BY <1>1, <2>2, <2>3, <2>4, <2>5, <2>8, <3>1, <3>2, <3>3 DEF ReadOrigin
  <2>9. CASE ReadRoutes(k)
    <3>1. pass[k].pc = "routes"
      BY <2>9 DEF ReadRoutes, At
    <3>2. Published(c, pass[k].target, pass[k].zones, cluster) = Verdict(c, cluster)
      BY <1>2, <2>2, <3>1, VerdictIs
    <3>3. QED
      BY <1>1, <2>3, <2>9, <3>2 DEF ReadRoutes
  <2>10. CASE Withdraw(k)
    BY <1>1, <2>1, <2>2, <2>3, <2>6, <2>10 DEF Withdraw, At
  <2>11. QED
    BY <2>7, <2>8, <2>9, <2>10 DEF Step
<1>8. QED
  BY <1>4, <1>6, <1>7 DEF WatchInv

\* Init => the invariant: every claim is queued.
LEMMA InitWatches == Init => WatchInv
<1>1. SUFFICES ASSUME Init PROVE WatchInv
  OBVIOUS
<1>2. Busy
  BY <1>1, Types, ClaimAssumption DEF Init, Busy
<1>3. Reported
  BY <1>1 DEF Init, Reported
<1>4. \A o \in Claims : Current(o)
  BY <1>1 DEF Init, Current
<1>5. QED
  BY <1>1, <1>2, <1>3, <1>4, InitType DEF WatchInv

\* The invariant is inductive.
LEMMA Watching == Spec => []WatchInv
<1>1. Init => WatchInv
  BY InitWatches
<1>2. WatchInv /\ [Next]_vars => WatchInv'
  <2>1. SUFFICES ASSUME WatchInv, [Next]_vars PROVE WatchInv'
    OBVIOUS
  <2>2. CASE WatchEvent
    BY <2>1, <2>2, EventKeeps
  <2>3. CASE \E o \in Claims : Begin(o)
    BY <2>1, <2>3, BeginKeeps
  <2>4. CASE \E k \in Kinds : Step(k)
    BY <2>1, <2>4, StepKeeps
  <2>5. CASE UNCHANGED vars
    BY <2>1, <2>5 DEF vars, WatchInv, TypeOK, Busy, Reported, Current
  <2>6. QED
    BY <2>1, <2>2, <2>3, <2>4, <2>5 DEF Next
<1>3. QED
  BY <1>1, <1>2, PTL DEF Spec

-----------------------------------------------------------------------------
(* The theorems.                                                           *)

\* Every variable has its type; only canonical hostnames are ever published
\* (NormalizeHostnames drops what no zone of the provider contains).
THEOREM TypeCorrect == Spec => []TypeOK
BY Watching, PTL DEF WatchInv

\* What the invariant says of a settled claim.
LEMMA SettledIsCurrent ==
  ASSUME WatchInv
  PROVE  NoMissedWatch
BY Types DEF WatchInv, Current, NoMissedWatch, Settled

\* Whatever changes, and whenever in a pass, findBindingsForProvider and the
\* other map functions of the watches bring back every claim it matters to:
\* what a settled claim exposes is what its checks would now say.
THEOREM NoWatchMissed == Spec => []NoMissedWatch
BY Watching, SettledIsCurrent, PTL

\* referenceGrantPermitsOrigin and privateGrantPermits: a Service of another
\* namespace stays exposed only while that namespace consents.
THEOREM ConsentHolds == Spec => []ConsentedOrigin
<1>1. ASSUME WatchInv PROVE ConsentedOrigin
  <2>1. SUFFICES ASSUME NEW o \in Claims, Settled(o), NEW e \in exposed[o], e.to.ns # NsOf[o]
                 PROVE  \E g \in cluster.grants :
                          /\ g.ns = e.to.ns
                          /\ [kind |-> KindOf(o), ns |-> NsOf[o]] \in g.from
                          /\ {AnyName, e.to.name} \cap g.to # {}
    BY DEF ConsentedOrigin
  <2>2. exposed[o] = Verdict(o, cluster) /\ cluster \in Clusters
    BY <1>1, <2>1, SettledIsCurrent DEF NoMissedWatch, WatchInv, TypeOK
  <2>3. OriginFits(o, cluster.target[o], cluster) /\ e.to = cluster.target[o]
    BY <2>1, <2>2 DEF Verdict, Published, Routed
  <2>4. PICK g \in cluster.grants : Permits(g, o, e.to)
    BY <2>1, <2>3 DEF OriginFits, ReferencePermitted
  <2>5. PICK from \in g.from : from.kind = KindOf(o) /\ from.ns = NsOf[o]
    BY <2>4 DEF Permits
  <2>6. from = [kind |-> KindOf(o), ns |-> NsOf[o]]
    BY <2>2, <2>5, GrantAssumption DEF Clusters
  <2>7. QED
    BY <2>4, <2>5, <2>6 DEF Permits
<1>2. QED
  BY <1>1, Watching, PTL

\* AcceptedRouteHostnames: a hostname stays published only while Traefik serves
\* it on the binding's listener from an HTTPRoute of the binding's namespace.
THEOREM PublishedServed == Spec => []PublishedAreServed
<1>1. ASSUME WatchInv PROVE PublishedAreServed
  <2>1. SUFFICES ASSUME NEW b \in Bindings, Settled(b), NEW e \in exposed[b]
                 PROVE  \E r \in HttpRoutes :
                          /\ NsOf[r] = NsOf[b] /\ cluster.routes[r].accepted
                          /\ ListenerOf[b] \in cluster.routes[r].seen.parents
                          /\ \E h \in cluster.routes[r].seen.hosts : Canonical[h] = e.of
    BY DEF PublishedAreServed
  <2>2. e \in Published(b, cluster.target[b], cluster.provider.zones, cluster)
    <3>1. b \in Claims
      BY DEF Claims
    <3>2. exposed[b] = Verdict(b, cluster)
      BY <1>1, <2>1, <3>1, SettledIsCurrent DEF NoMissedWatch
    <3>3. QED
      BY <2>1, <3>2 DEF Verdict
  <2>3. PICK h \in AcceptedRouteHostnames(b, cluster) : e.of = Canonical[h]
    BY <2>2 DEF Published, NormalizeHostnames
  <2>4. PICK r \in HttpRoutes : /\ NsOf[r] = NsOf[b] /\ RouteAccepted(r, b, cluster)
                                /\ h \in cluster.routes[r].spec.hosts
    BY <2>3 DEF AcceptedRouteHostnames
  <2>5. QED
    BY <1>1, <2>3, <2>4 DEF RouteAccepted, WatchInv, Reported
<1>2. QED
  BY <1>1, Watching, PTL

\* validateClusterProvider: nothing stays exposed through a provider that is
\* not ready or does not select the namespace, and no hostname outside its zones.
THEOREM ProviderContains == Spec => []WithinProvider
<1>1. ASSUME WatchInv PROVE WithinProvider
  <2>1. SUFFICES ASSUME NEW o \in Claims, Settled(o), exposed[o] # {}
                 PROVE  /\ cluster.provider.state = "ready" /\ NsOf[o] \in cluster.selected
                        /\ o \in Bindings =>
                             \A e \in exposed[o] : e.of \in cluster.provider.zones
    BY DEF WithinProvider
  <2>2. exposed[o] = Verdict(o, cluster)
    BY <1>1, <2>1, SettledIsCurrent DEF NoMissedWatch
  <2>3. ProviderVerdict(o, cluster) = "go"
    BY <2>1, <2>2 DEF Verdict
  <2>4. QED
    BY <2>1, <2>2, <2>3 DEF Verdict, ProviderVerdict, Published, NormalizeHostnames
<1>2. QED
  BY <1>1, Watching, PTL
=============================================================================
