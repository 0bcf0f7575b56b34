--------------------------- MODULE TunnelBinding ---------------------------
(***************************************************************************)
(* The CloudflareTunnelBinding controller                                  *)
(* (internal/controller/cloudflaretunnelbinding_controller.go), the        *)
(* Kubernetes API server and informer cache it reads, the Cloudflare       *)
(* account it writes, and the users and other controllers around them.     *)
(*                                                                         *)
(* Each controller class is one manager process with one worker for this   *)
(* controller.  A worker runs one reconcile pass at a time; a pass is a    *)
(* sequence of steps, each containing at most one write to the API server  *)
(* or to Cloudflare, and any other actor may act between two steps.        *)
(***************************************************************************)
EXTENDS Naturals, FiniteSets

CONSTANTS
  Bindings,     \* CloudflareTunnelBinding objects (each one UID)
  Classes,      \* controller classes, one manager process each
  Providers,    \* ClusterCloudflareProvider names
  Gateways,     \* namespace/name of Gateways
  Hosts,        \* normalized hostnames inside the allowed zones
  Origins,      \* values of spec.originServiceRef, as resolved to a URL
  Tunnels,      \* identifiers Cloudflare may assign
  NoTunnel,     \* the empty status.tunnelID
  ClassOf,      \* spec.controller, immutable
  ProviderOf,   \* spec.providerRef, immutable
  GatewayOf,    \* spec.gatewayRef, immutable
  Rank,         \* creation timestamp, then namespace/name/UID
  SameSecond,   \* do the creation timestamps tie, so that names decide?
  DnsCRD,       \* is the ExternalDNS DNSEndpoint kind installed?
  Policies,     \* the values of spec.deletionPolicy users choose from
  DnsChoices,   \* the values of spec.dnsAutomationEnabled they choose from
  ProviderChoices, \* the states each provider goes through
  ValidChoices, \* the outcomes of the other checks of a binding
  AvailableChoices, \* are the connector's replicas available?
  RouteChoices, \* the sets of hostnames its accepted HTTPRoutes ask for
  MaxEdits,     \* bound: changes made by users and other controllers
  MaxFaults     \* bound: failed calls, lost responses and crashes

ASSUME SomeAssumption     == Bindings # {} /\ Origins # {}
ASSUME ClassAssumption    == ClassOf \in [Bindings -> Classes]
ASSUME ReferenceAssumption ==
  ProviderOf \in [Bindings -> Providers] /\ GatewayOf \in [Bindings -> Gateways]
ASSUME RankAssumption     ==
  /\ Rank \in [Bindings -> Nat]
  /\ \A b1, b2 \in Bindings : Rank[b1] = Rank[b2] => b1 = b2
ASSUME TunnelAssumption   == NoTunnel \notin Tunnels
ASSUME FlagAssumption     == DnsCRD \in BOOLEAN /\ SameSecond \in BOOLEAN
ASSUME ChoiceAssumption   ==
  /\ Policies \subseteq {"Delete", "Retain"} /\ DnsChoices \subseteq BOOLEAN
  /\ ValidChoices \subseteq BOOLEAN /\ AvailableChoices \subseteq BOOLEAN
  /\ RouteChoices \subseteq SUBSET Hosts
ASSUME BoundAssumption    == MaxEdits \in Nat /\ MaxFaults \in Nat

VARIABLES
  api,       \* the objects in the API server
  cache,     \* each manager's informer cache of them
  work,      \* each manager's worker: program counter and local variables
  remote,    \* the tunnels of the Cloudflare account
  secret,    \* the connector Secret of a binding: whose token it holds
  deployed,  \* does the connector Deployment of a binding exist?
  endpoint,  \* the DNSEndpoint of a binding
  provider,  \* the providers, as the caches show them
  valid,     \* namespace, Gateway, listener, grant and Service checks pass
  routes,    \* hostnames of the accepted HTTPRoutes of a binding
  edits, faults

vars == <<api, cache, work, remote, secret, deployed, endpoint,
          provider, valid, routes, edits, faults>>
children == <<secret, deployed, endpoint>>
world    == <<provider, valid, routes, edits>>

-----------------------------------------------------------------------------
(* Values.                                                                 *)

\* "missing": no such object; "foreign": of another class; "refused": its
\* current Accepted is False; "revoked": its current CredentialsValid is False,
\* and calls with its token fail; "unknown": its CredentialsValid is Unknown;
\* "pending": its conditions are of an older generation.
ProviderStates ==
  {"ok", "refused", "revoked", "unknown", "pending", "missing", "foreign"}
Accepted == {"ok", "revoked", "unknown", "foreign"}
ASSUME ProviderAssumption == ProviderChoices \in [Providers -> SUBSET ProviderStates]

\* What a tunnel routes; a tunnel is created without any configuration.
Ingress  == [hosts : SUBSET Hosts, origin : Origins \cup {"none", "unset"}]
Unset    == [hosts |-> {}, origin |-> "unset"]

\* planner.IngressRules: one rule per hostname, then the 404 rule.
IngressRules(hs, o) == [hosts |-> hs, origin |-> IF hs = {} THEN "none" ELSE o]
NotFoundOnly == IngressRules({}, "none")

\* "deleted" by the controller, "removed" by somebody else.
TunnelStates == {"unused", "live", "deleted", "removed"}
Remote == [state : TunnelStates, owner : Bindings, ingress : Ingress]
UnusedTunnel == [state |-> "unused", owner |-> CHOOSE b \in Bindings : TRUE,
                 ingress |-> Unset]

Endpoint   == [hosts : SUBSET Hosts, target : Tunnels \cup {NoTunnel}]
NoEndpoint == [hosts |-> {}, target |-> NoTunnel]

\* The conditions list is one field of the status: a merge patch replaces it
\* whole.  gen is the observed generation of the Ready condition.
Conditions == [accepted : {"unset", "True", "False", "ClassMismatch"},
               ready : {"unset", "True", "False", "Unknown"}, gen : Nat]
Object == [phase : {"absent", "live", "deleting", "gone"}, finalizer : BOOLEAN,
           gen : Nat, policy : {"Delete", "Retain"}, dns : BOOLEAN,
           origin : Origins,
           tunnel : Tunnels \cup {NoTunnel}, published : SUBSET Hosts,
           cond : Conditions]
NewObject == [phase |-> "absent", finalizer |-> FALSE, gen |-> 0,
              policy |-> "Delete", dns |-> TRUE,
              origin |-> CHOOSE o \in Origins : TRUE,
              tunnel |-> NoTunnel, published |-> {},
              cond |-> [accepted |-> "unset", ready |-> "unset", gen |-> 0]]

Steps == {"idle", "validate", "reject", "dpTunnel", "dpConfig", "dpDns",
          "report", "addFinalizer", "getTunnel", "find", "create", "record",
          "configure", "secret", "deploy", "dns", "ready",
          "finProvider", "finDeploy", "finSecret", "finDns", "finTunnel",
          "finRemove"}
\* obj is the object the pass holds in memory, hosts and origin what
\* validateAndPlan returned, tunnel what ensureTunnel returned.
Worker == [pc : Steps, b : Bindings, obj : Object, hosts : SUBSET Hosts,
           origin : Origins, tunnel : Tunnels \cup {NoTunnel},
           verdict : {"unset", "False", "ClassMismatch"}, automated : BOOLEAN]
Idle == [pc |-> "idle", b |-> CHOOSE b \in Bindings : TRUE, obj |-> NewObject,
         hosts |-> {}, origin |-> CHOOSE o \in Origins : TRUE,
         tunnel |-> NoTunnel, verdict |-> "unset", automated |-> FALSE]

Live(t)     == remote[t].state = "live"
Unused      == {t \in Tunnels : remote[t].state = "unused"}
TunnelsOf(b) == {t \in Tunnels : Live(t) /\ remote[t].owner = b}

Init ==
  /\ api      = [b \in Bindings |-> NewObject]
  /\ cache    = [c \in Classes |-> api]
  /\ work     = [c \in Classes |-> Idle]
  /\ remote   = [t \in Tunnels |-> UnusedTunnel]
  /\ secret   = [b \in Bindings |-> NoTunnel]
  /\ deployed = [b \in Bindings |-> FALSE]
  /\ endpoint = [b \in Bindings |-> NoEndpoint]
  /\ provider \in {f \in [Providers -> {"ok", "pending"}] :
                     \A p \in Providers : f[p] \in ProviderChoices[p]}
  /\ valid    = [b \in Bindings |-> TRUE]
  /\ routes   \in [Bindings -> RouteChoices]
  /\ edits = 0 /\ faults = 0

-----------------------------------------------------------------------------
(* Calls and the local state of a pass.                                    *)

\* A call succeeds, fails without effect, or takes effect but its response is
\* lost (a timeout, a cancelled context).
Results == {"ok", "failed", "lost"}
Fault   == faults < MaxFaults /\ faults' = faults + 1
Call(r) == IF r = "ok" THEN UNCHANGED faults ELSE Fault
Applied(r) == r # "failed"

Exists(b) == api[b].phase \in {"live", "deleting"}
At(c, pc) == work[c].pc = pc
B(c)      == work[c].b
Obj(c)    == work[c].obj

\* A call to Cloudflare, about tunnel t unless t is NoTunnel.
CloudflareCall(c, t, r) ==
  IF provider[ProviderOf[B(c)]] = "revoked" \/ (t # NoTunnel /\ ~Live(t))
  THEN r = "failed" /\ UNCHANGED faults ELSE Call(r)

\* The pass goes on at step pc, or returns to the workqueue when pc is "idle".
Enter(c, w) == work' = [work EXCEPT ![c] = w]
Goto(c, pc) == Enter(c, IF pc = "idle" THEN Idle ELSE [work[c] EXCEPT !.pc = pc])

GotoIf(c, r, ok, error) == Goto(c, IF r = "ok" THEN ok ELSE error)

\* client.MergeFrom: only the fields that differ between the object in memory
\* before (base) and after (new) are sent; the rest stays as the server has it.
Sent(new, base, current) == IF new # base THEN new ELSE current
Merged(b, base, new) ==
  [api[b] EXCEPT !.tunnel    = Sent(new.tunnel, base.tunnel, @),
                 !.published = Sent(new.published, base.published, @),
                 !.cond      = Sent(new.cond, base.cond, @)]

\* Status().Patch: no precondition on the version.  On success the object in
\* memory becomes what the server holds, spec included; on an error it keeps
\* the values the pass wrote into it.
PatchStatus(c, new, r, pc) ==
  LET b == B(c)
      merged == Merged(b, Obj(c), new)
  IN  /\ IF Exists(b) THEN Call(r) ELSE r = "failed" /\ UNCHANGED faults
      /\ api' = IF Applied(r) THEN [api EXCEPT ![b] = merged] ELSE api
      /\ Enter(c, IF pc = "idle" THEN Idle
                  ELSE [work[c] EXCEPT !.pc = pc,
                                       !.obj = IF r = "ok" THEN merged ELSE new])

SetCond(o, accepted, ready) ==
  [o EXCEPT !.cond = [accepted |-> accepted, ready |-> ready, gen |-> o.gen]]

-----------------------------------------------------------------------------
(* Eligibility, computed from the caches.                                  *)

BindingPrecedes(b1, b2) == Rank[b1] < Rank[b2]

\* The manager of class c looks at its own class only.
GatewayWinner(c, b) ==
  {o \in Bindings \ {b} :
     /\ cache[c][o].phase = "live" /\ ClassOf[o] = c
     /\ GatewayOf[o] = GatewayOf[b] /\ BindingPrecedes(o, b)}

\* The hostnames o is taken to own: its candidates when its provider is
\* accepted, else what its status says is published.
ClaimedHosts(o, published) ==
  IF provider[ProviderOf[o]] \in Accepted THEN routes[o] ELSE published

\* Slip: whoever publishes already keeps the hostname.
HostnameWinnerKeep(c, b, hs) ==
  {o \in Bindings \ {b} :
     /\ cache[c][o].phase = "live" /\ BindingPrecedes(o, b)
     /\ cache[c][b].published = {}
     /\ ClaimedHosts(o, cache[c][o].published) \cap hs # {}}

HostnameWinner(c, b, hs) ==
  {o \in Bindings \ {b} :
     /\ cache[c][o].phase = "live" /\ BindingPrecedes(o, b)
     /\ ClaimedHosts(o, cache[c][o].published) \cap hs # {}}

Rejected(c, b, obj) ==
  \/ provider[ProviderOf[b]] \in {"missing", "refused", "revoked"}
  \/ /\ provider[ProviderOf[b]] = "ok"
     /\ \/ ~valid[b]
        \/ GatewayWinner(c, b) # {}
        \/ routes[b] = {} /\ obj.tunnel = NoTunnel
        \/ HostnameWinner(c, b, routes[b]) # {}

-----------------------------------------------------------------------------
(* The reconcile pass.                                                     *)

\* A pass starts from the cached object, which may be older than api[b].
Start(c, b) ==
  /\ At(c, "idle") /\ ClassOf[b] = c
  /\ cache[c][b].phase \in {"live", "deleting"}
  /\ Enter(c, [Idle EXCEPT !.b = b, !.obj = cache[c][b],
                           !.pc = IF cache[c][b].phase = "live" THEN "validate"
                                  ELSE "finProvider"])
  /\ UNCHANGED <<api, cache, remote, children, world, faults>>

\* Slip: the pass programs the tunnel without a finalizer.
ValidateNoFinalizer(c) ==
  /\ At(c, "validate")
  /\ ~Rejected(c, B(c), Obj(c)) /\ provider[ProviderOf[B(c)]] = "ok"
  /\ Enter(c, [work[c] EXCEPT !.pc = "getTunnel", !.hosts = routes[B(c)],
                              !.origin = Obj(c).origin])
  /\ UNCHANGED <<api, cache, remote, children, world, faults>>

\* validateAndPlan
Validate(c) ==
  LET b == B(c)
      reject(verdict) ==
        Enter(c, [work[c] EXCEPT !.pc = "reject", !.verdict = verdict])
  IN  /\ At(c, "validate")
      /\ IF provider[ProviderOf[b]] = "foreign" THEN reject("ClassMismatch")
         ELSE IF Rejected(c, b, Obj(c)) THEN reject("False")
         ELSE IF provider[ProviderOf[b]] \in {"unknown", "pending"}
              THEN Goto(c, "report")
         ELSE Enter(c, [work[c] EXCEPT
                !.pc = IF Obj(c).finalizer THEN "getTunnel" ELSE "addFinalizer",
                !.hosts = routes[b], !.origin = Obj(c).origin])
      /\ UNCHANGED <<api, cache, remote, children, world, faults>>

\* Slip: a binding that is rejected already is not deprogrammed again.
RejectOnce(c) ==
  /\ At(c, "reject")
  /\ \E r \in Results :
       LET new == [SetCond(Obj(c), work[c].verdict, "False") EXCEPT !.published = {}]
       IN  PatchStatus(c, new, r,
             IF Obj(c).cond.accepted = "False" \/ Obj(c).tunnel = NoTunnel
             THEN "idle" ELSE "dpTunnel")
  /\ UNCHANGED <<cache, remote, children, world>>

\* Slip: a rejected binding goes on claiming what it published.
RejectClaiming(c) ==
  /\ At(c, "reject")
  /\ \E r \in Results :
       LET new == SetCond(Obj(c), work[c].verdict, "False")
           after == IF r = "ok" THEN Merged(B(c), Obj(c), new) ELSE new
       IN  PatchStatus(c, new, r,
             IF after.cond.accepted = "ClassMismatch" \/ after.tunnel = NoTunnel
             THEN "idle" ELSE "dpTunnel")
  /\ UNCHANGED <<cache, remote, children, world>>

\* rejected: the status is cleared before anything is deprogrammed, and the
\* pass goes on to deprogram even when the patch fails.
Reject(c) ==
  /\ At(c, "reject")
  /\ \E r \in Results :
       LET new == [SetCond(Obj(c), work[c].verdict, "False") EXCEPT !.published = {}]
           after == IF r = "ok" THEN Merged(B(c), Obj(c), new) ELSE new
       IN  PatchStatus(c, new, r,
             IF after.cond.accepted = "ClassMismatch" \/ after.tunnel = NoTunnel
             THEN "idle" ELSE "dpTunnel")
  /\ UNCHANGED <<cache, remote, children, world>>

\* deprogramTunnel: read the provider again, then the recorded tunnel ...
DpTunnel(c) ==
  /\ At(c, "dpTunnel")
  /\ \E r \in {"ok", "failed"} :
       /\ IF provider[ProviderOf[B(c)]] = "missing"
          THEN r = "failed" /\ UNCHANGED faults
          ELSE CloudflareCall(c, NoTunnel, r)
       /\ GotoIf(c, r, IF Live(Obj(c).tunnel) THEN "dpConfig" ELSE "dpDns", "idle")
  /\ UNCHANGED <<api, cache, remote, children, world>>

\* Slip: a rejected binding loses its tunnel, not only the rules of it.
DpConfigDeleting(c) ==
  LET t == Obj(c).tunnel
  IN  /\ At(c, "dpConfig")
      /\ \E r \in Results :
           /\ CloudflareCall(c, t, r)
           /\ remote' = IF Applied(r) THEN [remote EXCEPT ![t].state = "deleted"] ELSE remote
           /\ GotoIf(c, r, "dpDns", "idle")
      /\ UNCHANGED <<api, cache, children, world>>

\* ... then leave only the 404 rule in its configuration ...
DpConfig(c) ==
  LET t == Obj(c).tunnel
  IN  /\ At(c, "dpConfig")
      /\ \E r \in Results :
           /\ CloudflareCall(c, t, r)
           /\ remote' = IF Applied(r)
                        THEN [remote EXCEPT ![t].ingress = NotFoundOnly] ELSE remote
           /\ GotoIf(c, r, "dpDns", "idle")
      /\ UNCHANGED <<api, cache, children, world>>

\* deleteDNSEndpoint
DeleteEndpoint(b, r) ==
  endpoint' = IF DnsCRD /\ Applied(r) THEN [endpoint EXCEPT ![b] = NoEndpoint]
              ELSE endpoint

\* ... then withdraw its DNS records.
DpDns(c) ==
  /\ At(c, "dpDns")
  /\ \E r \in Results : Call(r) /\ DeleteEndpoint(B(c), r) /\ Goto(c, "idle")
  /\ UNCHANGED <<api, cache, remote, secret, deployed, world>>

\* Slip: an operational failure takes the verdict on the spec back.
ReportUnjudged(c) ==
  /\ At(c, "report")
  /\ \E r \in Results :
       PatchStatus(c, SetCond(Obj(c), "Unknown", "Unknown"), r, "idle")
  /\ UNCHANGED <<cache, remote, children, world>>

\* reportOperationalFailure: the verdict on the spec, Accepted, stays.
Report(c) ==
  /\ At(c, "report")
  /\ \E r \in Results :
       PatchStatus(c, SetCond(Obj(c), Obj(c).cond.accepted, "Unknown"), r, "idle")
  /\ UNCHANGED <<cache, remote, children, world>>

\* Slip: the finalizer is written without a precondition on the version.
UpdateUnchecked(c, new, r) ==
  /\ IF Exists(B(c)) THEN Call(r) ELSE r = "failed" /\ UNCHANGED faults
  /\ api' = IF Applied(r)
            THEN [api EXCEPT ![B(c)].finalizer = new.finalizer,
                             ![B(c)].phase = new.phase]
            ELSE api
  /\ Goto(c, "idle")

\* Update checks the resource version: the object in memory is the cached one,
\* and the write is refused when the server holds another version of it.
UpdateObject(c, new, r) ==
  /\ IF api[B(c)] = Obj(c) THEN Call(r) ELSE r = "failed" /\ UNCHANGED faults
  /\ api' = IF Applied(r) THEN [api EXCEPT ![B(c)] = new] ELSE api
  /\ Goto(c, "idle")

AddFinalizer(c) ==
  /\ At(c, "addFinalizer")
  /\ \E r \in Results : UpdateObject(c, [Obj(c) EXCEPT !.finalizer = TRUE], r)
  /\ UNCHANGED <<cache, remote, children, world>>

\* ensureTunnel: the recorded tunnel if it is still there ...
GetTunnel(c) ==
  /\ At(c, "getTunnel")
  /\ \E r \in {"ok", "failed"} :
       LET t == Obj(c).tunnel
       IN  IF t = NoTunnel THEN r = "ok" /\ UNCHANGED faults /\ Goto(c, "find")
           ELSE /\ CloudflareCall(c, NoTunnel, r)
                /\ IF r = "ok" /\ Live(t)
                   THEN Enter(c, [work[c] EXCEPT !.pc = "configure", !.tunnel = t])
                   ELSE GotoIf(c, r, "find", "report")
  /\ UNCHANGED <<api, cache, remote, children, world>>

\* Slip: a tunnel is created without looking for one first.
FindBlindly(c) ==
  /\ At(c, "find") /\ Goto(c, "create")
  /\ UNCHANGED <<api, cache, remote, children, world, faults>>

\* ... else a tunnel that carries the binding's UID in its name ...
Find(c) ==
  /\ At(c, "find") /\ provider[ProviderOf[B(c)]] # "revoked"
  /\ \/ \E t \in TunnelsOf(B(c)) :
          Enter(c, [work[c] EXCEPT !.pc = "record", !.tunnel = t])
     \/ TunnelsOf(B(c)) = {} /\ Goto(c, "create")
  /\ UNCHANGED <<api, cache, remote, children, world, faults>>
FindFails(c) ==
  /\ At(c, "find") /\ CloudflareCall(c, NoTunnel, "failed") /\ Goto(c, "report")
  /\ UNCHANGED <<api, cache, remote, children, world>>

\* ... else a new one, under an identifier Cloudflare has never used.
CreateTunnel(c) ==
  LET t == CHOOSE u \in Unused : TRUE
  IN  /\ At(c, "create") /\ Unused # {}
      /\ \E r \in Results :
           /\ CloudflareCall(c, NoTunnel, r)
           /\ remote' = IF Applied(r)
                THEN [remote EXCEPT ![t] = [state |-> "live", owner |-> B(c),
                                            ingress |-> Unset]]
                ELSE remote
           /\ IF r = "ok"
              THEN Enter(c, [work[c] EXCEPT !.pc = "record", !.tunnel = t])
              ELSE Goto(c, "report")
      /\ UNCHANGED <<api, cache, children, world>>

\* Slip: the pass goes on when the tunnel could not be recorded.
RecordUnchecked(c) ==
  /\ At(c, "record")
  /\ \E r \in Results :
       PatchStatus(c, [Obj(c) EXCEPT !.tunnel = work[c].tunnel], r, "configure")
  /\ UNCHANGED <<cache, remote, children, world>>

\* The identifier is recorded before anything else is done with the tunnel.
RecordTunnel(c) ==
  /\ At(c, "record")
  /\ \E r \in Results :
       PatchStatus(c, [Obj(c) EXCEPT !.tunnel = work[c].tunnel], r,
                   IF r = "ok" THEN "configure" ELSE "report")
  /\ UNCHANGED <<cache, remote, children, world>>

\* Slip: the pass goes on when the configuration could not be written.
ConfigureUnchecked(c) ==
  LET t == work[c].tunnel
  IN  /\ At(c, "configure")
      /\ \E r \in Results :
           /\ CloudflareCall(c, t, r)
           /\ remote' = IF Applied(r)
                THEN [remote EXCEPT ![t].ingress =
                        IngressRules(work[c].hosts, work[c].origin)]
                ELSE remote
           /\ Goto(c, "secret")
      /\ UNCHANGED <<api, cache, children, world>>

\* GetConfiguration, and UpdateConfiguration when the rules differ.
Configure(c) ==
  LET t       == work[c].tunnel
      desired == IngressRules(work[c].hosts, work[c].origin)
  IN  /\ At(c, "configure")
      /\ \E r \in Results :
           /\ CloudflareCall(c, t, r)
           /\ remote' = IF Applied(r) THEN [remote EXCEPT ![t].ingress = desired]
                        ELSE remote
           /\ GotoIf(c, r, "secret", "report")
      /\ UNCHANGED <<api, cache, children, world>>

\* Slip: a Secret that exists is taken to be current.
WriteSecretOnce(c) ==
  /\ At(c, "secret")
  /\ secret' = [secret EXCEPT ![B(c)] = IF @ = NoTunnel THEN work[c].tunnel ELSE @]
  /\ Goto(c, "deploy")
  /\ UNCHANGED <<api, cache, remote, deployed, endpoint, world, faults>>

\* GetToken and reconcileConnectorSecret
WriteSecret(c) ==
  LET t == work[c].tunnel
  IN  /\ At(c, "secret")
      /\ \E r \in Results :
           /\ CloudflareCall(c, t, r)
           /\ secret' = IF Applied(r) THEN [secret EXCEPT ![B(c)] = t] ELSE secret
           /\ GotoIf(c, r, "deploy", "report")
      /\ UNCHANGED <<api, cache, remote, deployed, endpoint, world>>

\* reconcileConnectorDeployment
WriteDeployment(c) ==
  /\ At(c, "deploy")
  /\ \E r \in Results :
       /\ Call(r)
       /\ deployed' = IF Applied(r) THEN [deployed EXCEPT ![B(c)] = TRUE] ELSE deployed
       /\ GotoIf(c, r, "dns", "report")
  /\ UNCHANGED <<api, cache, remote, secret, endpoint, world>>

\* reconcileDNSEndpoint, under the spec the object in memory has by now.
WriteEndpoint(c) ==
  LET b       == B(c)
      publish == Obj(c).dns /\ DnsCRD /\ work[c].hosts # {}
  IN  /\ At(c, "dns")
      /\ \E r \in Results :
           /\ Call(r)
           /\ IF publish
              THEN endpoint' = IF Applied(r)
                     THEN [endpoint EXCEPT ![b] = [hosts |-> work[c].hosts,
                                                   target |-> work[c].tunnel]]
                     ELSE endpoint
              ELSE DeleteEndpoint(b, r)
           /\ Enter(c, [work[c] EXCEPT !.automated = publish,
                                       !.pc = IF r = "ok" THEN "ready" ELSE "report"])
      /\ UNCHANGED <<api, cache, remote, secret, deployed, world>>

\* setReadyStatus; whether the connector's replicas are available is not ours.
SetReady(c) ==
  LET w == work[c]
  IN  /\ At(c, "ready")
      /\ \E r \in Results, available \in AvailableChoices :
           LET ready == w.hosts # {} /\ available /\ (w.automated \/ ~w.obj.dns)
           IN  PatchStatus(c, [SetCond(w.obj, "True", IF ready THEN "True" ELSE "False")
                                 EXCEPT !.tunnel = w.tunnel, !.published = w.hosts],
                           r, "idle")
      /\ UNCHANGED <<cache, remote, children, world>>

-----------------------------------------------------------------------------
(* The finalization pass.                                                  *)

\* Nothing is deleted unless the provider the tunnel needs is usable.
FinProvider(c) ==
  LET o == Obj(c)
      p == provider[ProviderOf[B(c)]]
      usable == \/ o.tunnel = NoTunnel
                \/ p \notin {"missing", "foreign"}
                \/ p = "missing" /\ o.policy = "Retain"
  IN  /\ At(c, "finProvider")
      /\ Goto(c, IF usable THEN "finDeploy" ELSE "idle")
      /\ UNCHANGED <<api, cache, remote, children, world, faults>>

FinDeploy(c) ==
  /\ At(c, "finDeploy")
  /\ \E r \in Results :
       /\ Call(r)
       /\ deployed' = IF Applied(r) THEN [deployed EXCEPT ![B(c)] = FALSE] ELSE deployed
       /\ GotoIf(c, r, "finSecret", "idle")
  /\ UNCHANGED <<api, cache, remote, secret, endpoint, world>>

\* Slip: the tunnel is deleted before its DNS records are.
FinSecretThenTunnel(c) ==
  /\ At(c, "finSecret")
  /\ secret' = [secret EXCEPT ![B(c)] = NoTunnel]
  /\ Goto(c, "finTunnel")
  /\ UNCHANGED <<api, cache, remote, deployed, endpoint, world, faults>>

FinSecret(c) ==
  /\ At(c, "finSecret")
  /\ \E r \in Results :
       /\ Call(r)
       /\ secret' = IF Applied(r) THEN [secret EXCEPT ![B(c)] = NoTunnel] ELSE secret
       /\ GotoIf(c, r, "finDns", "idle")
  /\ UNCHANGED <<api, cache, remote, deployed, endpoint, world>>

FinDns(c) ==
  /\ At(c, "finDns")
  /\ \E r \in Results :
       Call(r) /\ DeleteEndpoint(B(c), r) /\ GotoIf(c, r, "finTunnel", "idle")
  /\ UNCHANGED <<api, cache, remote, secret, deployed, world>>

\* Slip: a tunnel that is gone already cannot be deleted.
FinTunnelStrict(c) ==
  LET o == Obj(c)
  IN  /\ At(c, "finTunnel")
      /\ IF o.policy = "Delete" /\ o.tunnel # NoTunnel
         THEN \E r \in Results :
                /\ CloudflareCall(c, o.tunnel, r)
                /\ remote' = IF Applied(r)
                     THEN [remote EXCEPT ![o.tunnel].state = "deleted"] ELSE remote
                /\ GotoIf(c, r, "finRemove", "idle")
         ELSE Goto(c, "finRemove") /\ UNCHANGED <<remote, faults>>
      /\ UNCHANGED <<api, cache, children, world>>

\* DeleteTunnel takes a tunnel that is already gone for success.
FinTunnel(c) ==
  LET o == Obj(c)
      t == o.tunnel
  IN  /\ At(c, "finTunnel")
      /\ IF o.policy = "Delete" /\ t # NoTunnel
         THEN \E r \in Results :
                /\ CloudflareCall(c, NoTunnel, r)
                /\ remote' = IF Applied(r) /\ Live(t)
                             THEN [remote EXCEPT ![t].state = "deleted"] ELSE remote
                /\ GotoIf(c, r, "finRemove", "idle")
         ELSE Goto(c, "finRemove") /\ UNCHANGED <<remote, faults>>
      /\ UNCHANGED <<api, cache, children, world>>

\* With its last finalizer removed, the object disappears.
FinRemove(c) ==
  /\ At(c, "finRemove")
  /\ \E r \in Results :
       UpdateObject(c, [Obj(c) EXCEPT !.finalizer = FALSE, !.phase = "gone"], r)
  /\ UNCHANGED <<cache, remote, children, world>>

-----------------------------------------------------------------------------
(* Everybody else.                                                         *)

\* The process stops between two steps; its successor fills a new cache.
Crash(c) ==
  /\ Fault
  /\ Enter(c, Idle)
  /\ cache' = [cache EXCEPT ![c] = api]
  /\ UNCHANGED <<api, remote, children, world>>

\* Bindings with a smaller rank were created earlier, unless timestamps tie.
After(b, seen) ==
  SameSecond \/ \A o \in Bindings : Rank[o] < Rank[b] => seen[o].phase # "absent"

\* A watch event: the newest version replaces the cached one, and objects
\* enter the cache in the order in which they were created.
Deliver(c, b) ==
  /\ cache[c][b] # api[b] /\ After(b, cache[c])
  /\ cache' = [cache EXCEPT ![c][b] = api[b]]
  /\ UNCHANGED <<api, work, remote, children, world, faults>>

Edit == edits < MaxEdits /\ edits' = edits + 1

\* Timestamps have a resolution of a second: bindings created within one are
\* ranked by name, whichever came first.
CreateBinding(b) ==
  /\ api[b].phase = "absent"
  /\ After(b, api)
  /\ \E policy \in Policies, dns \in DnsChoices, o \in Origins :
       api' = [api EXCEPT ![b] = [@ EXCEPT !.phase = "live", !.gen = 1,
                 !.policy = policy, !.dns = dns, !.origin = o]]
  /\ UNCHANGED <<cache, work, remote, children, world, faults>>

\* controller, providerRef and gatewayRef are immutable; the rest is not.
EditBinding(b) ==
  /\ Exists(b) /\ Edit
  /\ \E policy \in Policies, dns \in DnsChoices, o \in Origins :
       LET new == [api[b] EXCEPT !.policy = policy, !.dns = dns, !.origin = o]
       IN  new # api[b] /\ api' = [api EXCEPT ![b] = [new EXCEPT !.gen = @ + 1]]
  /\ UNCHANGED <<cache, work, remote, children, provider, valid, routes, faults>>

DeleteBinding(b) ==
  /\ api[b].phase = "live"
  /\ api' = [api EXCEPT ![b].phase = IF api[b].finalizer THEN "deleting" ELSE "gone"]
  /\ UNCHANGED <<cache, work, remote, children, world, faults>>

ChangeProvider(p) ==
  /\ Edit
  /\ \E s \in ProviderChoices[p] \ {provider[p]} : provider' = [provider EXCEPT ![p] = s]
  /\ UNCHANGED <<api, cache, work, remote, children, valid, routes, faults>>

ChangeValid(b) ==
  /\ Edit
  /\ \E v \in ValidChoices \ {valid[b]} : valid' = [valid EXCEPT ![b] = v]
  /\ UNCHANGED <<api, cache, work, remote, children, provider, routes, faults>>

ChangeRoutes(b) ==
  /\ Edit
  /\ \E hs \in RouteChoices \ {routes[b]} : routes' = [routes EXCEPT ![b] = hs]
  /\ UNCHANGED <<api, cache, work, remote, children, provider, valid, faults>>

\* Somebody deletes a tunnel in the Cloudflare dashboard, while there are
\* identifiers left for a new tunnel of each binding.
RemoveTunnel(t) ==
  /\ Live(t) /\ Cardinality(Unused) >= Cardinality(Bindings) /\ Edit
  /\ remote' = [remote EXCEPT ![t].state = "removed"]
  /\ UNCHANGED <<api, cache, work, children, provider, valid, routes, faults>>

Program(c)  == GetTunnel(c) \/ Find(c) \/ FindFails(c) \/ CreateTunnel(c)
                 \/ RecordTunnel(c) \/ Configure(c) \/ WriteSecret(c)
                 \/ WriteDeployment(c) \/ WriteEndpoint(c) \/ SetReady(c)
Withdraw(c) == Reject(c) \/ DpTunnel(c) \/ DpConfig(c) \/ DpDns(c)
Finalize(c) == FinProvider(c) \/ FinDeploy(c) \/ FinSecret(c) \/ FinDns(c)
                 \/ FinTunnel(c) \/ FinRemove(c)
Step(c) == Validate(c) \/ Program(c) \/ Withdraw(c) \/ Finalize(c)
             \/ AddFinalizer(c) \/ Report(c)
Others == \/ \E b \in Bindings : CreateBinding(b) \/ EditBinding(b)
               \/ DeleteBinding(b) \/ ChangeValid(b) \/ ChangeRoutes(b)
          \/ \E p \in Providers : ChangeProvider(p)
          \/ \E t \in Tunnels : RemoveTunnel(t)

Next == \/ \E c \in Classes : Step(c) \/ Crash(c)
        \/ \E c \in Classes, b \in Bindings : Start(c, b) \/ Deliver(c, b)
        \/ Others

Spec == Init /\ [][Next]_vars

\* A worker that can take its next step does, watch events arrive, and the
\* workqueue returns to every binding: a pass ends with RequeueAfter 2 or 5
\* minutes, with an error (backoff), or after a write whose event requeues it.
Fairness ==
  /\ \A c \in Classes : WF_vars(Step(c))
  /\ \A c \in Classes, b \in Bindings : WF_vars(Deliver(c, b)) /\ SF_vars(Start(c, b))
FairSpec == Spec /\ Fairness

-----------------------------------------------------------------------------
(* Properties.                                                             *)

\* Every variable has its type; in particular a binding is judged Accepted or
\* not, or has never been judged: no failure makes the verdict Unknown.
TypeOK ==
  /\ api \in [Bindings -> Object]
  /\ cache \in [Classes -> [Bindings -> Object]]
  /\ work \in [Classes -> Worker]
  /\ remote \in [Tunnels -> Remote]
  /\ secret \in [Bindings -> Tunnels \cup {NoTunnel}]
  /\ deployed \in [Bindings -> BOOLEAN]
  /\ endpoint \in [Bindings -> Endpoint]
  /\ provider \in [Providers -> ProviderStates]
  /\ valid \in [Bindings -> BOOLEAN]
  /\ routes \in [Bindings -> SUBSET Hosts]
  /\ edits \in Nat /\ faults \in Nat

\* However passes are interrupted, retried and run on old copies, a binding
\* never has two tunnels: the name is looked up before a tunnel is created.
OneTunnelEach ==
  \A b \in Bindings : \A t1, t2 \in TunnelsOf(b) : t1 = t2

\* While a binding exists, whatever was made for it, remotely or in the
\* cluster, is guarded by the finalizer.
FinalizerFirst ==
  \A b \in Bindings :
    Exists(b) /\ ~api[b].finalizer =>
      /\ TunnelsOf(b) = {} /\ secret[b] = NoTunnel
      /\ ~deployed[b] /\ endpoint[b] = NoEndpoint

\* A binding that is gone left no connector and no DNSEndpoint behind, and
\* under policy Delete the tunnel its status recorded is gone too.
CleanFinalization ==
  \A b \in Bindings :
    api[b].phase = "gone" =>
      /\ secret[b] = NoTunnel /\ ~deployed[b] /\ endpoint[b] = NoEndpoint
      /\ api[b].policy = "Delete" /\ api[b].tunnel # NoTunnel =>
           ~Live(api[b].tunnel)

\* A tunnel is recorded in the status before it routes anything, so that a
\* tunnel with rules can always be found again by withdrawal and finalization.
ConfiguredIsRecorded ==
  \A t \in Tunnels :
    Live(t) /\ remote[t].ingress # Unset =>
      api[remote[t].owner].tunnel = t

\* The controller never deletes a tunnel that published DNS records point to.
NoDanglingDNS ==
  \A b \in Bindings, t \in Tunnels :
    endpoint[b].target = t => remote[t].state # "deleted"

\* DNS records are published only for hostnames the tunnel already routes.
DnsAfterIngress ==
  [][\A b \in Bindings :
       endpoint'[b] # endpoint[b] /\ endpoint'[b] # NoEndpoint =>
         LET t == endpoint'[b].target
         IN  Live(t) => endpoint'[b].hosts = remote[t].ingress.hosts]_vars

\* Users and other controllers change the world finitely often in the model,
\* so that "from some time on" speaks of a world that has come to rest.

Usable(b) == \/ provider[ProviderOf[b]] \in {"ok", "refused", "unknown", "pending"}
             \/ provider[ProviderOf[b]] # "foreign" /\ api[b].policy = "Retain"
             \/ api[b].tunnel = NoTunnel

\* Deletion completes when the provider it needs stays usable.
DeletionCompletes ==
  \A b \in Bindings : <>[](api[b].phase = "deleting" => ~Usable(b))

\* The hostnames o may keep from later bindings: those of its routes while its
\* provider is accepted, what it last published while the provider is not yet
\* judged, and none once the provider is refused or missing.
Claims(o) ==
  LET p == provider[ProviderOf[o]]
  IN  IF p \in Accepted THEN routes[o]
      ELSE IF p = "pending" THEN api[o].published
      ELSE {}

\* The earlier bindings b loses to, by the objects the API server holds.
Conflicts(b) ==
  {o \in Bindings \ {b} :
     /\ api[o].phase = "live" /\ BindingPrecedes(o, b)
     /\ \/ GatewayOf[o] = GatewayOf[b] /\ ClassOf[o] = ClassOf[b]
        \/ Claims(o) \cap routes[b] # {}}

\* A valid binding that loses no conflict is served in full, and what
\* its status says of it is what the tunnel and the cluster hold.
EventuallyServed ==
  \A b \in Bindings : <>[](
    LET t == api[b].tunnel
    IN  /\ api[b].phase = "live" /\ provider[ProviderOf[b]] = "ok" /\ valid[b]
        /\ routes[b] # {} /\ Conflicts(b) = {}
        =>
          /\ t # NoTunnel /\ Live(t)
          /\ remote[t].ingress = IngressRules(routes[b], api[b].origin)
          /\ secret[b] = t /\ deployed[b]
          /\ endpoint[b] = IF api[b].dns /\ DnsCRD
                           THEN [hosts |-> routes[b], target |-> t] ELSE NoEndpoint
          /\ api[b].published = routes[b]
          /\ api[b].cond.accepted = "True" /\ api[b].cond.gen = api[b].gen)

\* A binding that lost its authorization, its provider's acceptance or a
\* conflict stops routing and publishing (it fails closed).
EventuallyWithdrawn ==
  \A b \in Bindings : <>[](
    /\ api[b].phase = "live"
    /\ \/ provider[ProviderOf[b]] = "refused"
       \/ provider[ProviderOf[b]] = "ok" /\ (~valid[b] \/ Conflicts(b) # {})
    => /\ \A t \in TunnelsOf(b) : remote[t].ingress.hosts = {}
       /\ endpoint[b] = NoEndpoint /\ api[b].published = {}
       /\ api[b].cond.accepted = "False")

-----------------------------------------------------------------------------
(* What the controller implements.                                         *)

Life == INSTANCE OwnedTunnels WITH
  Owners   <- Bindings,  OldCopies <- FALSE,
  phase    <- [b \in Bindings |-> api[b].phase],
  guarded  <- [b \in Bindings |-> api[b].finalizer],
  policy   <- [b \in Bindings |-> api[b].policy],
  recorded <- [b \in Bindings |-> api[b].tunnel],
  tunnel   <- [t \in Tunnels |-> [state |-> remote[t].state, owner |-> remote[t].owner]]

\* ensureTunnel makes tunnels only for bindings that carry the finalizer and
\* have none, the recorded tunnel is deleted by finalize only, while the binding
\* is being deleted, and the binding goes only when it is dealt with.
ImplementsOwnedTunnels == Life!Spec

-----------------------------------------------------------------------------
(* What the documentation says and the code does not do.                   *)

\* "Delete removes the remote tunnel" (docs/content/docs/configuration.md:70):
\* once a binding is gone under that policy, no tunnel of it is left.
DeleteRemovesTunnel ==
  \A b \in Bindings :
    api[b].phase = "gone" /\ api[b].policy = "Delete" => TunnelsOf(b) = {}

\* "status.publishedHostnames shows the hostnames programmed into the tunnel"
\* (docs/content/docs/operations.md:18): sooner or later, again and again.
StatusCatchesUp ==
  \A b \in Bindings : []<>(
    LET t == api[b].tunnel
    IN  api[b].phase = "live" /\ t # NoTunnel /\ Live(t) =>
          remote[t].ingress.hosts = api[b].published)

\* "One binding owns one Gateway and every published hostname"
\* (docs/content/docs/security.md:46): no two bindings publish one hostname.
OneOwnerPerHost ==
  \A b1, b2 \in Bindings :
    b1 # b2 => endpoint[b1].hosts \cap endpoint[b2].hosts = {}
=============================================================================
