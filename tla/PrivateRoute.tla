---------------------------- MODULE PrivateRoute ----------------------------
(***************************************************************************)
(* The CloudflareTunnelPrivateRoute controller                             *)
(* (internal/controller/cloudflaretunnelprivateroute_controller.go): for   *)
(* each object a tunnel, a CIDR route of the Service's current address to  *)
(* it, and a connector.  As in TunnelBinding, a pass is a sequence of      *)
(* steps with at most one write each, started from a cached object.        *)
(***************************************************************************)
EXTENDS Naturals, FiniteSets

CONSTANTS
  Routes,      \* CloudflareTunnelPrivateRoute objects of the class (UIDs)
  Providers,   \* ClusterCloudflareProvider names, all of one account
  Services,    \* Kubernetes Services
  Networks,    \* /32 networks: the ClusterIPs a Service may get
  Tunnels,     \* identifiers Cloudflare may assign to tunnels
  Cidrs,       \* identifiers Cloudflare may assign to CIDR routes
  None,        \* an empty status field, a Service without address
  Outsider,    \* whoever else uses the account
  ProviderOf,  \* spec.providerRef, immutable
  Rank,        \* creation timestamp, then namespace/name/UID
  Policies,    \* the values of spec.deletionPolicy users choose from
  MaxEdits,    \* bound: changes made by users and other controllers
  MaxFaults    \* bound: failed calls, lost responses and crashes

ASSUME SomeAssumption     == Routes # {} /\ Services # {}
ASSUME ProviderAssumption == ProviderOf \in [Routes -> Providers]
ASSUME RankAssumption     ==
  /\ Rank \in [Routes -> Nat]
  /\ \A p1, p2 \in Routes : Rank[p1] = Rank[p2] => p1 = p2
ASSUME NoneAssumption     ==
  None \notin Tunnels \cup Cidrs \cup Networks /\ Outsider \notin Routes
ASSUME PolicyAssumption   == Policies \subseteq {"Delete", "Retain"}
ASSUME BoundAssumption    == MaxEdits \in Nat /\ MaxFaults \in Nat

VARIABLES
  api,       \* the objects in the API server
  cache,     \* the manager's informer cache of them
  work,      \* the worker: program counter and local variables
  tunnels,   \* the tunnels of the Cloudflare account
  cidrs,     \* the CIDR routes of the Cloudflare account
  secret,    \* the connector Secret of an object: whose token it holds
  deployed,  \* does the connector Deployment of an object exist?
  provider,  \* the providers, as the cache shows them
  valid,     \* namespace selector, ReferenceGrant and Service port checks pass
  address,   \* the address of a Service; None: no Service, or none usable
  edits, faults

vars     == <<api, cache, work, tunnels, cidrs, secret, deployed,
              provider, valid, address, edits, faults>>
remote   == <<tunnels, cidrs>>
children == <<secret, deployed>>
world    == <<provider, valid, address, edits>>

-----------------------------------------------------------------------------
(* Values.                                                                 *)

\* "notready": a condition is not True for the current generation; "revoked":
\* in addition calls with its token fail; "foreign": of another class.
ProviderStates == {"ok", "notready", "revoked", "missing", "foreign"}

\* "deleted" by the controller, "removed" by somebody else.
RemoteStates == {"unused", "live", "deleted", "removed"}
Tunnel == [state : RemoteStates, owner : Routes]
Cidr   == [state : RemoteStates, owner : Routes \cup {Outsider},
           network : Networks \cup {None}, tunnel : Tunnels \cup {None}]

\* The status names the tunnel, the CIDR route and its network; the conditions
\* list is replaced whole by a patch.
Conditions == [accepted : {"unset", "True", "False"},
               programmed : {"unset", "True", "False", "Unknown"}, gen : Nat]
Object == [phase : {"absent", "live", "deleting", "gone"}, finalizer : BOOLEAN,
           gen : Nat, policy : {"Delete", "Retain"}, service : Services,
           tunnel : Tunnels \cup {None}, route : Cidrs \cup {None},
           network : Networks \cup {None}, cond : Conditions]
NewObject == [phase |-> "absent", finalizer |-> FALSE, gen |-> 0,
              policy |-> "Delete", service |-> CHOOSE s \in Services : TRUE,
              tunnel |-> None, route |-> None, network |-> None,
              cond |-> [accepted |-> "unset", programmed |-> "unset", gen |-> 0]]

Steps == {"idle", "addFinalizer", "validate", "status", "deleteRoute", "clear",
          "getTunnel", "find", "create", "record", "getRoute", "list",
          "persist", "createRoute", "recordRoute", "secret", "deploy",
          "resources", "fail", "finRoute", "finDeploy", "finSecret",
          "finTunnel", "finRemove"}
\* network, tunnel and id are what validate, ensureTunnel and ensureRoute
\* found; after is where the pass goes on once a route is deleted.
Worker == [pc : Steps, p : Routes, obj : Object, accepted : BOOLEAN,
           network : Networks \cup {None}, tunnel : Tunnels \cup {None},
           id : Cidrs \cup {None}, after : Steps]
Idle == [pc |-> "idle", p |-> CHOOSE p \in Routes : TRUE, obj |-> NewObject,
         accepted |-> FALSE, network |-> None, tunnel |-> None, id |-> None,
         after |-> "idle"]

Live(t)      == t \in Tunnels /\ tunnels[t].state = "live"
Routed(i)    == i \in Cidrs /\ cidrs[i].state = "live"
TunnelsOf(p) == {t \in Tunnels : Live(t) /\ tunnels[t].owner = p}
CidrsOf(p)   == {i \in Cidrs : Routed(i) /\ cidrs[i].owner = p}
CidrsFor(n)  == {i \in Cidrs : Routed(i) /\ cidrs[i].network = n}
Exists(p)    == api[p].phase \in {"live", "deleting"}

Init ==
  /\ api      = [p \in Routes |-> NewObject]
  /\ cache    = api
  /\ work     = Idle
  /\ tunnels  = [t \in Tunnels |-> [state |-> "unused",
                                    owner |-> CHOOSE p \in Routes : TRUE]]
  /\ cidrs    = [i \in Cidrs |-> [state |-> "unused", owner |-> Outsider,
                                  network |-> None, tunnel |-> None]]
  /\ secret   = [p \in Routes |-> None]
  /\ deployed = [p \in Routes |-> FALSE]
  /\ provider = [n \in Providers |-> "ok"]
  /\ valid    = [p \in Routes |-> TRUE]
  /\ address \in {a \in [Services -> Networks \cup {None}] :
                    \A s1, s2 \in Services : s1 # s2 /\ a[s1] # None => a[s1] # a[s2]}
  /\ edits = 0 /\ faults = 0

-----------------------------------------------------------------------------
(* Calls and the local state of a pass.                                    *)

At(pc) == work.pc = pc
P      == work.p
Obj    == work.obj

\* A call succeeds, fails without effect, or takes effect but its response is
\* lost.
Results == {"ok", "failed", "lost"}
Fault   == faults < MaxFaults /\ faults' = faults + 1
Call(r) == IF r = "ok" THEN UNCHANGED faults ELSE Fault
Applied(r) == r # "failed"

\* Cloudflare refuses every call with a revoked token, and a call that cannot
\* be served; possible says whether this one can.
CloudflareCall(possible, r) ==
  IF provider[ProviderOf[P]] # "revoked" /\ possible THEN Call(r)
  ELSE r = "failed" /\ UNCHANGED faults

Enter(w) == work' = IF w.pc = "idle" THEN Idle ELSE w
Goto(pc) == Enter([work EXCEPT !.pc = pc])
\* An error ends the pass; Reconcile then reports it, unless the object is seen
\* to be deleted.
Error == IF cache[P].phase = "live" THEN "fail" ELSE "idle"
GotoIf(r, pc) == Goto(IF r = "ok" THEN pc ELSE Error)

\* client.MergeFrom sends the fields that differ between the object in memory
\* before (base) and after (new).
Sent(new, base, current) == IF new # base THEN new ELSE current
Merged(base, new) ==
  [api[P] EXCEPT !.tunnel  = Sent(new.tunnel, base.tunnel, @),
                 !.route   = Sent(new.route, base.route, @),
                 !.network = Sent(new.network, base.network, @),
                 !.cond    = Sent(new.cond, base.cond, @)]

\* patchStatus: on success the object in memory becomes what the server holds.
PatchStatus(new, r, pc) ==
  LET merged == Merged(Obj, new)
  IN  /\ IF Exists(P) THEN Call(r) ELSE r = "failed" /\ UNCHANGED faults
      /\ api' = IF Applied(r) THEN [api EXCEPT ![P] = merged] ELSE api
      /\ IF r = "ok" THEN Enter([work EXCEPT !.pc = pc, !.obj = merged])
         ELSE Goto(Error)

\* Update: refused when the server holds another version of the object.
UpdateObject(new, r) ==
  /\ IF api[P] = Obj THEN Call(r) ELSE r = "failed" /\ UNCHANGED faults
  /\ api' = IF Applied(r) THEN [api EXCEPT ![P] = new] ELSE api
  /\ GotoIf(r, "idle")

\* Slip: the comment of a route is not compared.
PrivateOwnedByTunnel(i) == Obj.tunnel \in {None, cidrs[i].tunnel}
PrivateOwned(i) == /\ cidrs[i].owner = P
                   /\ Obj.tunnel \in {None, cidrs[i].tunnel}

-----------------------------------------------------------------------------
(* The reconcile pass.                                                     *)

\* Slip: an object is programmed before it carries the finalizer.
StartUnguarded(p) ==
  /\ At("idle") /\ cache[p].phase \in {"live", "deleting"}
  /\ LET pc == IF cache[p].phase = "deleting" THEN "finRoute" ELSE "validate"
     IN  work' = [Idle EXCEPT !.pc = pc, !.p = p, !.obj = cache[p]]
  /\ UNCHANGED <<api, cache, remote, children, world, faults>>

Start(p) ==
  /\ At("idle") /\ cache[p].phase \in {"live", "deleting"}
  /\ LET pc == IF cache[p].phase = "deleting" THEN "finRoute"
               ELSE IF cache[p].finalizer THEN "validate" ELSE "addFinalizer"
     IN  work' = [Idle EXCEPT !.pc = pc, !.p = p, !.obj = cache[p]]
  /\ UNCHANGED <<api, cache, remote, children, world, faults>>

AddFinalizer ==
  /\ At("addFinalizer")
  /\ \E r \in Results : UpdateObject([Obj EXCEPT !.finalizer = TRUE], r)
  /\ UNCHANGED <<cache, remote, children, world>>

\* Slip: which of the two objects precedes the other is not asked.
ConflictsWithAnyone(p, o, n) ==
  {q \in Routes \ {p} :
     /\ o[q].phase = "live" /\ ProviderOf[q] = ProviderOf[p]
     /\ \/ o[q].network = n
        \/ o[q].network = None /\ o[q].service = o[p].service}

\* Slip: an object that has no network yet is in nobody's way.
ConflictsWithOwners(p, o, n) ==
  {q \in Routes \ {p} :
     /\ o[q].phase = "live" /\ ProviderOf[q] = ProviderOf[p] /\ Rank[q] < Rank[p]
     /\ o[q].network = n}

\* privateRouteConflicts: an earlier object that has the network, or that has
\* none yet and names the same Service.
PrivateRouteConflicts(p, o, n) ==
  {q \in Routes \ {p} :
     /\ o[q].phase = "live" /\ ProviderOf[q] = ProviderOf[p] /\ Rank[q] < Rank[p]
     /\ \/ o[q].network = n
        \/ o[q].network = None /\ o[q].service = o[p].service}

\* Slip: a Service without an address is accepted.
RejectedUnchecked(p) ==
  LET o == [cache EXCEPT ![p] = Obj]
  IN  \/ provider[ProviderOf[p]] # "ok" \/ ~valid[p]
      \/ PrivateRouteConflicts(p, o, address[Obj.service]) # {}
Rejected(p) ==
  LET o == [cache EXCEPT ![p] = Obj]
      n == address[Obj.service]
  IN  \/ provider[ProviderOf[p]] # "ok" \/ ~valid[p] \/ n = None
      \/ PrivateRouteConflicts(p, o, n) # {}

\* Slip: a rejected object keeps its route.
ValidateKeeping ==
  /\ At("validate")
  /\ work' = IF Rejected(P) THEN [work EXCEPT !.pc = "status"]
             ELSE [work EXCEPT !.pc = "getTunnel", !.accepted = TRUE,
                               !.network = address[Obj.service]]
  /\ UNCHANGED <<api, cache, remote, children, world, faults>>

\* A rejected object gives its route up, unless its provider has changed hands.
Validate ==
  LET withdraws == Obj.network # None /\ provider[ProviderOf[P]] # "foreign"
  IN  /\ At("validate")
      /\ work' = IF ~Rejected(P)
                 THEN [work EXCEPT !.pc = "getTunnel", !.accepted = TRUE,
                                   !.network = address[Obj.service]]
                 ELSE [work EXCEPT !.pc = IF withdraws THEN "deleteRoute" ELSE "status",
                                   !.after = "status"]
      /\ UNCHANGED <<api, cache, remote, children, world, faults>>

\* deleteRoute: by the recorded identifier, else by network and ownership.
\* removeRoute, for a rejected or a deleted object, reads the provider first.
DeleteRoute ==
  LET removal  == work.after \in {"status", "finDeploy"}
      usable   == removal => provider[ProviderOf[P]] \notin {"missing", "foreign"}
      mismatch == /\ Routed(Obj.route)
                  /\ ~PrivateOwned(Obj.route) \/ cidrs[Obj.route].network # Obj.network
      targets  == IF Obj.route # None THEN {Obj.route} \cap CidrsFor(Obj.network)
                  ELSE {i \in CidrsFor(Obj.network) : PrivateOwned(i)}
  IN  /\ At("deleteRoute")
      /\ \E r \in Results :
           /\ CloudflareCall(usable /\ ~mismatch, r)
           /\ cidrs' = IF Applied(r)
                THEN [i \in Cidrs |-> IF i \in targets
                        THEN [cidrs[i] EXCEPT !.state = "deleted"] ELSE cidrs[i]]
                ELSE cidrs
           /\ GotoIf(r, "clear")
      /\ UNCHANGED <<api, cache, tunnels, children, world>>

\* The status forgets the route, and a tunnel that is gone.
Clear ==
  LET forgotten == [Obj EXCEPT !.route = None, !.network = None,
                      !.tunnel = IF work.after = "find" THEN None ELSE @]
  IN  /\ At("clear")
      /\ \E r \in Results : PatchStatus(forgotten, r, work.after)
      /\ UNCHANGED <<cache, remote, children, world>>

\* ensureTunnel
GetTunnel ==
  /\ At("getTunnel")
  /\ \E r \in {"ok", "failed"} :
       IF Obj.tunnel = None THEN r = "ok" /\ UNCHANGED faults /\ Goto("find")
       ELSE /\ CloudflareCall(TRUE, r)
            /\ IF r # "ok" THEN Goto(Error)
               ELSE IF Live(Obj.tunnel)
               THEN Enter([work EXCEPT !.pc = "record", !.tunnel = Obj.tunnel])
               ELSE Enter([work EXCEPT !.after = "find",
                      !.pc = IF Obj.network # None THEN "deleteRoute" ELSE "clear"])
  /\ UNCHANGED <<api, cache, remote, children, world>>

\* Slip: a tunnel is created without looking for one first.
FindBlindly ==
  /\ At("find") /\ Goto("create")
  /\ UNCHANGED <<api, cache, remote, children, world, faults>>

Find ==
  /\ At("find")
  /\ \E r \in {"ok", "failed"} :
       /\ CloudflareCall(TRUE, r)
       /\ IF r = "ok" /\ TunnelsOf(P) # {}
          THEN \E t \in TunnelsOf(P) :
                 Enter([work EXCEPT !.pc = "record", !.tunnel = t])
          ELSE GotoIf(r, "create")
  /\ UNCHANGED <<api, cache, remote, children, world>>

CreateTunnel ==
  LET unused == {t \in Tunnels : tunnels[t].state = "unused"}
      t      == CHOOSE u \in unused : TRUE
  IN  /\ At("create") /\ unused # {}
      /\ \E r \in Results :
           /\ CloudflareCall(TRUE, r)
           /\ tunnels' = IF Applied(r)
                THEN [tunnels EXCEPT ![t] = [state |-> "live", owner |-> P]] ELSE tunnels
           /\ IF r = "ok" THEN Enter([work EXCEPT !.pc = "record", !.tunnel = t])
              ELSE Goto(Error)
      /\ UNCHANGED <<api, cache, cidrs, children, world>>

\* Slip: the network of the recorded route is not compared.
RecordTunnelOnly ==
  /\ At("record")
  /\ \E r \in Results :
       PatchStatus([Obj EXCEPT !.tunnel = work.tunnel], r, "getRoute")
  /\ UNCHANGED <<cache, remote, children, world>>

\* The patch brings the object in memory up to date with the server; a route
\* of another network than the Service's is deleted next.
RecordTunnel ==
  /\ At("record")
  /\ \E r \in Results :
       LET new    == [Obj EXCEPT !.tunnel = work.tunnel]
           merged == Merged(Obj, new)
           moved  == merged.network \notin {None, work.network}
       IN  /\ IF Exists(P) THEN Call(r) ELSE r = "failed" /\ UNCHANGED faults
           /\ api' = IF Applied(r) THEN [api EXCEPT ![P] = merged] ELSE api
           /\ IF r # "ok" THEN Goto(Error)
              ELSE Enter([work EXCEPT !.obj = merged, !.after = "getRoute",
                            !.pc = IF moved THEN "deleteRoute" ELSE "getRoute"])
  /\ UNCHANGED <<cache, remote, children, world>>

\* Slip: a recorded route that is gone is an error.
GetRouteStrict ==
  /\ At("getRoute")
  /\ IF Obj.route = None THEN Goto("list") /\ UNCHANGED faults
     ELSE \E r \in {"ok", "failed"} :
            /\ CloudflareCall(TRUE, r)
            /\ Goto(IF r = "ok" /\ Routed(Obj.route) THEN "secret" ELSE Error)
  /\ UNCHANGED <<api, cache, remote, children, world>>

\* ensureRoute: the recorded route is kept, forgotten when it is gone, and an
\* error when it is not what the status says.
GetRoute ==
  LET i    == Obj.route
      kept == PrivateOwned(i) /\ cidrs[i].network = work.network
                              /\ cidrs[i].tunnel = work.tunnel
  IN  /\ At("getRoute")
      /\ IF i = None THEN Goto("list") /\ UNCHANGED faults
         ELSE \E r \in {"ok", "failed"} :
                /\ CloudflareCall(TRUE, r)
                /\ IF r # "ok" THEN Goto(Error)
                   ELSE IF ~Routed(i)
                   THEN Enter([work EXCEPT !.pc = "clear", !.after = "list"])
                   ELSE Goto(IF kept THEN "secret" ELSE Error)
      /\ UNCHANGED <<api, cache, remote, children, world>>

\* A route of the network is adopted when it is ours; else it is in the way.
ListRoutes ==
  LET adopted(i) == PrivateOwned(i) /\ cidrs[i].tunnel = work.tunnel
  IN  /\ At("list")
      /\ \E r \in {"ok", "failed"} :
           /\ CloudflareCall(TRUE, r)
           /\ IF r # "ok" THEN Goto(Error)
              ELSE IF CidrsFor(work.network) = {}
              THEN Goto(IF Obj.network = work.network THEN "createRoute" ELSE "persist")
              ELSE \E i \in CidrsFor(work.network) :
                     IF adopted(i) THEN Enter([work EXCEPT !.pc = "recordRoute", !.id = i])
                     ELSE Goto(Error)
      /\ UNCHANGED <<api, cache, remote, children, world>>

\* Slip: the pass goes on when the network could not be recorded.
PersistUnchecked ==
  /\ At("persist")
  /\ \E r \in Results :
       /\ Call(r) /\ Exists(P)
       /\ api' = IF Applied(r) THEN [api EXCEPT ![P].network = work.network] ELSE api
       /\ Enter([work EXCEPT !.pc = "createRoute", !.obj.network = work.network])
  /\ UNCHANGED <<cache, remote, children, world>>

Persist ==
  /\ At("persist")
  /\ \E r \in Results :
       PatchStatus([Obj EXCEPT !.network = work.network], r, "createRoute")
  /\ UNCHANGED <<cache, remote, children, world>>

\* An account has at most one route of a network.
CreateRoute ==
  LET unused   == {i \in Cidrs : cidrs[i].state = "unused"}
      i        == CHOOSE j \in unused : TRUE
      possible == CidrsFor(work.network) = {} /\ Live(work.tunnel)
  IN  /\ At("createRoute") /\ unused # {}
      /\ \E r \in Results :
           /\ CloudflareCall(possible, r)
           /\ cidrs' = IF Applied(r)
                THEN [cidrs EXCEPT ![i] = [state |-> "live", owner |-> P,
                        network |-> work.network, tunnel |-> work.tunnel]]
                ELSE cidrs
           /\ IF r = "ok" THEN Enter([work EXCEPT !.pc = "recordRoute", !.id = i])
              ELSE Goto(Error)
      /\ UNCHANGED <<api, cache, tunnels, children, world>>

RecordRoute ==
  /\ At("recordRoute")
  /\ \E r \in Results :
       PatchStatus([Obj EXCEPT !.route = work.id, !.network = work.network], r, "secret")
  /\ UNCHANGED <<cache, remote, children, world>>

\* GetToken and ensureConnector, which patches the status once more.
WriteSecret ==
  /\ At("secret")
  /\ \E r \in Results :
       /\ CloudflareCall(Live(work.tunnel), r)
       /\ secret' = IF Applied(r) THEN [secret EXCEPT ![P] = work.tunnel] ELSE secret
       /\ GotoIf(r, "deploy")
  /\ UNCHANGED <<api, cache, remote, deployed, world>>

WriteDeployment ==
  /\ At("deploy")
  /\ \E r \in Results :
       /\ Call(r)
       /\ deployed' = IF Applied(r) THEN [deployed EXCEPT ![P] = TRUE] ELSE deployed
       /\ GotoIf(r, "resources")
  /\ UNCHANGED <<api, cache, remote, secret, world>>

WriteResources ==
  /\ At("resources")
  /\ \E r \in Results : PatchStatus(Obj, r, "status")
  /\ UNCHANGED <<cache, remote, children, world>>

\* status; Ready also depends on the connector, which is not ours.
WriteStatus ==
  LET cond == [accepted   |-> IF work.accepted THEN "True" ELSE "False",
               programmed |-> IF Obj.route # None THEN "True" ELSE "False",
               gen        |-> Obj.gen]
  IN  /\ At("status")
      /\ \E r \in Results : PatchStatus([Obj EXCEPT !.cond = cond], r, "idle")
      /\ UNCHANGED <<cache, remote, children, world>>

\* Reconcile reads the object again, from the cache, to report the error.
Fail ==
  LET base   == cache[P]
      merged == Merged(base, [base EXCEPT !.cond.programmed = "Unknown",
                                          !.cond.gen = base.gen])
  IN  /\ At("fail")
      /\ \E r \in Results :
           IF base.phase = "live" /\ Exists(P)
           THEN /\ Call(r)
                /\ api' = IF Applied(r) THEN [api EXCEPT ![P] = merged] ELSE api
           ELSE r = "failed" /\ UNCHANGED <<api, faults>>
      /\ Goto("idle")
      /\ UNCHANGED <<cache, remote, children, world>>

-----------------------------------------------------------------------------
(* The finalization pass.                                                  *)

\* Slip: cleanup looks for the route only when its identifier is recorded.
FinRouteRecorded ==
  /\ At("finRoute")
  /\ work' = IF Obj.policy = "Delete" /\ Obj.route # None
             THEN [work EXCEPT !.pc = "deleteRoute", !.after = "finDeploy"]
             ELSE [work EXCEPT !.pc = "finDeploy"]
  /\ UNCHANGED <<api, cache, remote, children, world, faults>>

FinRoute ==
  /\ At("finRoute")
  /\ work' = IF Obj.policy = "Delete" /\ Obj.network # None
             THEN [work EXCEPT !.pc = "deleteRoute", !.after = "finDeploy"]
             ELSE [work EXCEPT !.pc = "finDeploy"]
  /\ UNCHANGED <<api, cache, remote, children, world, faults>>

FinDeploy ==
  /\ At("finDeploy")
  /\ \E r \in Results :
       /\ Call(r)
       /\ deployed' = IF Applied(r) THEN [deployed EXCEPT ![P] = FALSE] ELSE deployed
       /\ GotoIf(r, "finSecret")
  /\ UNCHANGED <<api, cache, remote, secret, world>>

FinSecret ==
  /\ At("finSecret")
  /\ \E r \in Results :
       /\ Call(r)
       /\ secret' = IF Applied(r) THEN [secret EXCEPT ![P] = None] ELSE secret
       /\ GotoIf(r, "finTunnel")
  /\ UNCHANGED <<api, cache, remote, deployed, world>>

\* Slip: a tunnel that cannot be deleted is left behind.
FinTunnelTolerant ==
  /\ At("finTunnel")
  /\ \E r \in Results :
       /\ CloudflareCall(TRUE, r)
       /\ tunnels' = IF Applied(r) /\ Live(Obj.tunnel) /\ Obj.policy = "Delete"
                     THEN [tunnels EXCEPT ![Obj.tunnel].state = "deleted"] ELSE tunnels
  /\ Goto("finRemove")
  /\ UNCHANGED <<api, cache, cidrs, children, world>>

\* Slip: a tunnel that is gone already cannot be deleted.
FinTunnelStrict ==
  /\ At("finTunnel")
  /\ IF Obj.policy = "Delete" /\ Obj.tunnel # None
     THEN \E r \in Results :
            /\ CloudflareCall(Live(Obj.tunnel), r)
            /\ tunnels' = IF Applied(r)
                          THEN [tunnels EXCEPT ![Obj.tunnel].state = "deleted"] ELSE tunnels
            /\ GotoIf(r, "finRemove")
     ELSE Goto("finRemove") /\ UNCHANGED <<tunnels, faults>>
  /\ UNCHANGED <<api, cache, cidrs, children, world>>

FinTunnel ==
  LET t == Obj.tunnel
  IN  /\ At("finTunnel")
      /\ IF Obj.policy = "Delete" /\ t # None
         THEN \E r \in Results :
                /\ CloudflareCall(provider[ProviderOf[P]] \notin {"missing", "foreign"}, r)
                /\ tunnels' = IF Applied(r) /\ Live(t)
                              THEN [tunnels EXCEPT ![t].state = "deleted"] ELSE tunnels
                /\ GotoIf(r, "finRemove")
         ELSE Goto("finRemove") /\ UNCHANGED <<tunnels, faults>>
      /\ UNCHANGED <<api, cache, cidrs, children, world>>

FinRemove ==
  /\ At("finRemove")
  /\ \E r \in Results :
       UpdateObject([Obj EXCEPT !.finalizer = FALSE, !.phase = "gone"], r)
  /\ UNCHANGED <<cache, remote, children, world>>

-----------------------------------------------------------------------------
(* Everybody else.                                                         *)

Crash ==
  /\ Fault
  /\ work' = Idle /\ cache' = api
  /\ UNCHANGED <<api, remote, children, world>>

\* A watch event: the newest version replaces the cached one.
Deliver(p) ==
  /\ cache[p] # api[p]
  /\ cache' = [cache EXCEPT ![p] = api[p]]
  /\ UNCHANGED <<api, work, remote, children, world, faults>>

Edit == edits < MaxEdits /\ edits' = edits + 1

\* Timestamps have a resolution of one second: an object that precedes another
\* may be created after it.
CreateObject(p) ==
  /\ api[p].phase = "absent"
  /\ \E policy \in Policies, s \in Services :
       api' = [api EXCEPT ![p] = [@ EXCEPT !.phase = "live", !.gen = 1,
                                           !.policy = policy, !.service = s]]
  /\ UNCHANGED <<cache, work, remote, children, world, faults>>

\* controller and providerRef are immutable; the rest is not.
EditObject(p) ==
  /\ Exists(p) /\ Edit
  /\ \E policy \in Policies, s \in Services :
       LET new == [api[p] EXCEPT !.policy = policy, !.service = s]
       IN  new # api[p] /\ api' = [api EXCEPT ![p] = [new EXCEPT !.gen = @ + 1]]
  /\ UNCHANGED <<cache, work, remote, children, provider, valid, address, faults>>

DeleteObject(p) ==
  /\ api[p].phase = "live"
  /\ api' = [api EXCEPT ![p].phase = IF api[p].finalizer THEN "deleting" ELSE "gone"]
  /\ UNCHANGED <<cache, work, remote, children, world, faults>>

ChangeProvider(n) ==
  /\ Edit
  /\ \E s \in ProviderStates \ {provider[n]} : provider' = [provider EXCEPT ![n] = s]
  /\ UNCHANGED <<api, cache, work, remote, children, valid, address, faults>>

ChangeValid(p) ==
  /\ Edit /\ valid' = [valid EXCEPT ![p] = ~@]
  /\ UNCHANGED <<api, cache, work, remote, children, provider, address, faults>>

\* A Service is created, deleted, or re-created with another address; no two
\* Services have one address at a time.
ChangeAddress(s) ==
  /\ Edit
  /\ \E a \in (Networks \ {address[q] : q \in Services}) \cup ({None} \ {address[s]}) :
       address' = [address EXCEPT ![s] = a]
  /\ UNCHANGED <<api, cache, work, remote, children, provider, valid, faults>>

\* Somebody deletes a tunnel or a CIDR route in the Cloudflare dashboard, or
\* routes a network there, to one of our tunnels or to another (None).
RemoveTunnel(t) ==
  /\ Live(t) /\ (\E u \in Tunnels : tunnels[u].state = "unused") /\ Edit
  /\ tunnels' = [tunnels EXCEPT ![t].state = "removed"]
  /\ UNCHANGED <<api, cache, work, cidrs, children, provider, valid, address, faults>>

RemoveCidr(i) ==
  /\ Routed(i) /\ (\E j \in Cidrs : cidrs[j].state = "unused") /\ Edit
  /\ cidrs' = [cidrs EXCEPT ![i].state = "removed"]
  /\ UNCHANGED <<api, cache, work, tunnels, children, provider, valid, address, faults>>

AddCidr(n) ==
  LET unused == {i \in Cidrs : cidrs[i].state = "unused"}
      i      == CHOOSE j \in unused : TRUE
  IN  /\ Cardinality(unused) > 1 /\ CidrsFor(n) = {} /\ Edit
      /\ \E t \in {u \in Tunnels : Live(u)} \cup {None} :
           cidrs' = [cidrs EXCEPT ![i] = [state |-> "live", owner |-> Outsider,
                                          network |-> n, tunnel |-> t]]
      /\ UNCHANGED <<api, cache, work, tunnels, children, provider, valid, address, faults>>

EnsureTunnel == GetTunnel \/ Find \/ CreateTunnel \/ RecordTunnel
EnsureRoute  == GetRoute \/ ListRoutes \/ Persist \/ CreateRoute \/ RecordRoute
Connect      == WriteSecret \/ WriteDeployment \/ WriteResources \/ WriteStatus
Finalize     == FinRoute \/ FinDeploy \/ FinSecret \/ FinTunnel \/ FinRemove
Step == AddFinalizer \/ Validate \/ DeleteRoute \/ Clear \/ EnsureTunnel
          \/ EnsureRoute \/ Connect \/ Fail \/ Finalize
Others == \/ \E p \in Routes : CreateObject(p) \/ EditObject(p) \/ DeleteObject(p)
                                 \/ ChangeValid(p)
          \/ \E n \in Providers : ChangeProvider(n)
          \/ \E s \in Services : ChangeAddress(s)
          \/ \E t \in Tunnels : RemoveTunnel(t)
          \/ \E i \in Cidrs : RemoveCidr(i)
          \/ \E n \in Networks : AddCidr(n)

Next == Step \/ Crash \/ (\E p \in Routes : Start(p) \/ Deliver(p)) \/ Others

Spec == Init /\ [][Next]_vars

\* As for TunnelBinding: a pass ends with RequeueAfter 2 or 5 minutes, with an
\* error (backoff), or after a write whose event requeues the object.
Fairness == /\ WF_vars(Step)
            /\ \A p \in Routes : WF_vars(Deliver(p)) /\ SF_vars(Start(p))
FairSpec == Spec /\ Fairness

-----------------------------------------------------------------------------
(* Properties.                                                             *)

\* Every variable has its type, and a route made for an object (CreateRoute is
\* called with the checked network and tunnel) leads a network to a tunnel.
TypeOK ==
  /\ api \in [Routes -> Object] /\ cache \in [Routes -> Object]
  /\ work \in Worker
  /\ tunnels \in [Tunnels -> Tunnel] /\ cidrs \in [Cidrs -> Cidr]
  /\ \A i \in Cidrs : cidrs[i].owner \in Routes =>
                        cidrs[i].network \in Networks /\ cidrs[i].tunnel \in Tunnels
  /\ secret \in [Routes -> Tunnels \cup {None}] /\ deployed \in [Routes -> BOOLEAN]
  /\ provider \in [Providers -> ProviderStates] /\ valid \in [Routes -> BOOLEAN]
  /\ address \in [Services -> Networks \cup {None}]
  /\ edits \in Nat /\ faults \in Nat

\* However a creation fails, however stale the object a pass starts from, an
\* object never has two tunnels: ensureTunnel looks for one by its name first.
OneTunnelEach == \A p \in Routes : \A t1, t2 \in TunnelsOf(p) : t1 = t2

\* finalize removes the finalizer only when the connector is gone and, with
\* policy Delete, the tunnel the status names: the Update is refused if the
\* policy or the status changed while the pass ran.
CleanFinalization ==
  \A p \in Routes :
    api[p].phase = "gone" =>
      /\ secret[p] = None /\ ~deployed[p]
      /\ api[p].policy = "Delete" /\ api[p].tunnel # None => ~Live(api[p].tunnel)

\* deleteRoute deletes only routes whose comment names the object of the pass,
\* never one that somebody else made for the network.
OwnRoutesOnly ==
  [][\A i \in Cidrs :
       cidrs[i].state = "live" /\ cidrs'[i].state = "deleted" => cidrs[i].owner = work.p]_vars

Life == INSTANCE OwnedTunnels WITH
  Owners   <- Routes,  NoTunnel <- None,  OldCopies <- TRUE,
  phase    <- [p \in Routes |-> api[p].phase],
  guarded  <- [p \in Routes |-> api[p].finalizer],
  policy   <- [p \in Routes |-> api[p].policy],
  recorded <- [p \in Routes |-> api[p].tunnel],
  tunnel   <- tunnels

\* As for bindings: a tunnel is made only for an object that carries the
\* finalizer and has none, deleted only by finalize, and dealt with when the
\* object goes.  But a pass on an old copy may delete it even afterwards: when
\* the policy becomes Retain during finalize, the patch that clears the route
\* reads it and the finalizer goes, while the cache still shows policy Delete.
ImplementsOwnedTunnels == Life!Spec

-----------------------------------------------------------------------------
(* Routes and the status.  A pass may start from any old copy of the       *)
(* object; these say what a copy that is out of date can do, and what no   *)
(* copy can.                                                               *)

\* The account agrees with the status: a live route of the object is the one
\* that the status describes, and a deleted object under Delete left none.
Scoped(p) ==
  IF api[p].phase = "gone" THEN api[p].policy = "Delete" => CidrsOf(p) = {}
  ELSE \A i \in CidrsOf(p) : /\ cidrs[i].network = api[p].network
                             /\ cidrs[i].tunnel = api[p].tunnel
                             /\ api[p].route \in {None, i}

\* The copy that the pass works with says of the account what the server says,
\* and names the tunnel that ensureRoute is given.
Informed ==
  /\ Obj.tunnel = api[P].tunnel /\ Obj.route = api[P].route
  /\ Obj.network = api[P].network
  /\ At("createRoute") => Obj.tunnel = work.tunnel

\* Only a step of a pass that works with an old status makes the two disagree:
\* while the Service moves, tunnels go and calls fail, an object has one route at
\* most, the status names its network before it is made and until it is gone, and
\* it is gone before its object.
ScopeKept ==
  [][\A p \in Routes :
       Scoped(p) /\ (P = p /\ work' # work => Informed) => Scoped(p)']_vars

\* finalize deletes a tunnel only when the object's route to it is gone, unless
\* it works with an old status.
RouteBeforeTunnel ==
  [][\A t \in Tunnels :
       /\ tunnels[t].state = "live" /\ tunnels'[t].state = "deleted"
       /\ Exists(P) /\ Informed /\ Scoped(P)
       => CidrsOf(P) = {}]_vars

\* When ensureRoute creates a route, the API server already holds what cleanup
\* needs to find it though its identifier is never recorded (the comment in
\* ensureRoute): the finalizer, the network, no other route, and no tunnel that
\* privateOwned would tell from that of the route.
ScopeBeforeRoute ==
  [][\A i \in Cidrs :
       LET p == cidrs'[i].owner
       IN  cidrs[i].state = "unused" /\ cidrs'[i].state = "live" /\ p \in Routes =>
             /\ Exists(p) /\ api[p].finalizer
             /\ api[p].network = cidrs'[i].network /\ api[p].route = None
             /\ api[p].tunnel \in {None, cidrs'[i].tunnel}]_vars

\* While an object exists, whatever was made for it, remotely or in the cluster,
\* is guarded by the finalizer.
FinalizerFirst ==
  \A p \in Routes :
    Exists(p) /\ ~api[p].finalizer =>
      /\ TunnelsOf(p) = {} /\ CidrsOf(p) = {}
      /\ secret[p] = None /\ ~deployed[p]

\* With policy Delete no CIDR route outlives its object.
NoOrphanRoute ==
  \A p \in Routes :
    api[p].phase = "gone" /\ api[p].policy = "Delete" => CidrsOf(p) = {}

\* The route that the status records is live but not as the status describes it,
\* which deleteRoute and ensureRoute refuse to touch.
Refused(p) ==
  LET i == api[p].route
  IN  /\ Routed(i)
      /\ cidrs[i].network # api[p].network \/ api[p].tunnel \notin {None, cidrs[i].tunnel}

\* A deletion does not hang: from whatever copies passes start and whatever
\* failed before, finalize completes, unless the provider it needs is missing,
\* foreign or has no valid token, or deleteRoute refuses the recorded route.
Usable(p) == \/ provider[ProviderOf[p]] \in {"ok", "notready"}
             \/ api[p].policy = "Retain"
             \/ api[p].tunnel = None /\ api[p].network = None
DeletionCompletes ==
  \A p \in Routes : <>[](api[p].phase = "deleting" => ~Usable(p) \/ Refused(p))

\* An earlier object of the provider has the address of the Service, or none
\* yet but wants it.
Preceded(p) ==
  LET n == address[api[p].service]
  IN  \E q \in Routes :
        /\ api[q].phase = "live" /\ ProviderOf[q] = ProviderOf[p] /\ Rank[q] < Rank[p]
        /\ \/ api[q].network = n
           \/ api[q].network = None /\ address[api[q].service] = n

\* An object that passes validate, and whose network nobody else routes, ends
\* up with a live tunnel, the token of that tunnel in the Secret, a connector, a
\* route of the Service's present address to the tunnel, and a status that says
\* so of the present generation: through failures, old copies, tunnels and
\* routes that somebody removes and a Service that moves.  Excepted are the
\* states in which ensureRoute refuses: a route recorded not as it is, and one
\* of the network to another tunnel.
EventuallyRouted ==
  \A p \in Routes : <>[](
    LET o == api[p]
        n == address[o.service]
    IN  /\ o.phase = "live" /\ provider[ProviderOf[p]] = "ok" /\ valid[p]
        /\ n # None /\ ~Preceded(p) /\ ~Refused(p)
        /\ \A i \in CidrsFor(n) : cidrs[i].owner = p /\ cidrs[i].tunnel = o.tunnel
        => /\ Live(o.tunnel) /\ secret[p] = o.tunnel /\ deployed[p]
           /\ Routed(o.route) /\ cidrs[o.route].network = n
           /\ cidrs[o.route].tunnel = o.tunnel
           /\ o.network = n
           /\ o.cond = [accepted |-> "True", programmed |-> "True", gen |-> o.gen])

\* An object that validate rejects, while its provider can still be used, ends
\* up without a route if the account agrees with its status, and the status says
\* that it is not accepted; of two objects of a Service, in whatever order they
\* were created and seen, the later gives the network up and does not take it
\* back.
EventuallyWithdrawn ==
  \A p \in Routes : <>[](
    /\ api[p].phase = "live" /\ Scoped(p)
    /\ \/ provider[ProviderOf[p]] = "notready"
       \/ provider[ProviderOf[p]] = "ok"
          /\ (~valid[p] \/ address[api[p].service] = None \/ Preceded(p))
    => CidrsOf(p) = {} /\ api[p].cond.accepted = "False")
=============================================================================
