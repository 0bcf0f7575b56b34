------------------------- MODULE PrivateRouteProofs -------------------------
(***************************************************************************)
(* Proofs about PrivateRoute, for any objects, tunnels, routes, edits,     *)
(* faults and crashes, and for passes that start from any copy of the      *)
(* object: types, the life of tunnels, routes and the status that          *)
(* describes them, and that the controller implements OwnedTunnels.        *)
(***************************************************************************)
EXTENDS PrivateRoute, FiniteSetTheorems, TLAPS

-----------------------------------------------------------------------------
(* Calls and moves.                                                        *)

Removing == {"deleteRoute", "clear"}
Routing  == {"getRoute", "list", "persist", "createRoute", "recordRoute", "secret", "deploy",
             "resources"}
Ensuring == {"getTunnel", "find", "create", "record"} \cup Routing
Cleaning == {"finDeploy", "finSecret", "finTunnel", "finRemove"}

\* Where the pass goes on once a route is removed.
Aim == IF work.pc \in Removing THEN work.after ELSE work.pc

\* The pass is in order: ensureTunnel, ensureRoute and ensureConnector run with
\* the network that validate found.
Control ==
  /\ work.pc \in Removing => work.after \in {"status", "find", "getRoute", "list", "finDeploy"}
  /\ Aim \in Ensuring => work.network \in Networks

\* The values that a pass starts from.
LEMMA Values ==
  /\ NewObject \in Object /\ Idle \in Worker /\ Idle.pc = "idle" /\ Idle.obj = NewObject
  /\ Idle.tunnel = None
  /\ NewObject.phase = "absent" /\ NewObject.finalizer = FALSE /\ NewObject.tunnel = None
  /\ NewObject.route = None /\ NewObject.network = None
  /\ \A n : n \in Tunnels \/ n \in Cidrs \/ n \in Networks => n # None
<1>1. (CHOOSE s \in Services : TRUE) \in Services /\ (CHOOSE p \in Routes : TRUE) \in Routes
  BY SomeAssumption
<1>2. NewObject \in Object
  BY <1>1 DEF NewObject, Object, Conditions
<1>3. Idle \in Worker
  BY <1>1, <1>2 DEF Idle, Worker, Steps
<1>4. QED
  BY <1>2, <1>3, NoneAssumption DEF Idle, NewObject

\* The initial states have the types.
LEMMA InitType == Init => TypeOK /\ Control
<1>1. SUFFICES ASSUME Init PROVE TypeOK /\ Control
  OBVIOUS
<1>2. (CHOOSE p \in Routes : TRUE) \in Routes
  BY SomeAssumption
<1>3. /\ tunnels \in [Tunnels -> Tunnel] /\ cidrs \in [Cidrs -> Cidr]
      /\ \A i \in Cidrs : cidrs[i].owner = Outsider
  BY <1>1, <1>2 DEF Init, Tunnel, Cidr, RemoteStates
<1>4. provider \in [Providers -> ProviderStates] /\ address \in [Services -> Networks \cup {None}]
  BY <1>1 DEF Init, ProviderStates
<1>5. QED
  BY <1>1, <1>3, <1>4, Values, NoneAssumption
  DEF Init, TypeOK, Control, Aim, Removing, Ensuring, Routing

\* A call fails, succeeds or loses its response.
LEMMA Calls ==
  ASSUME TypeOK, NEW r
  PROVE  /\ Call(r) => faults' \in Nat
         /\ \A possible \in BOOLEAN :
              CloudflareCall(possible, r) => /\ faults' \in Nat
                                             /\ r # "failed" => possible
BY DEF TypeOK, Call, Fault, CloudflareCall

\* The pass goes on at pc with what it has, or ends.
Moves(w) ==
  /\ work' \in Worker
  /\ w.pc = "idle" => work' = Idle
  /\ w.pc # "idle" => work' = w

Continues(pc) ==
  /\ work' \in Worker
  /\ pc = "idle" => work' = Idle
  /\ pc # "idle" =>
       /\ work'.pc = pc /\ work'.p = work.p /\ work'.obj = work.obj
       /\ work'.accepted = work.accepted /\ work'.network = work.network
       /\ work'.tunnel = work.tunnel /\ work'.id = work.id /\ work'.after = work.after

Stops == /\ work' \in Worker /\ work'.pc \in {"fail", "idle"}
         /\ work' = Idle \/ (work'.p = work.p /\ work'.obj = work.obj /\ work'.tunnel = work.tunnel)

\* A pass enters a place with its local state, or starts afresh when it ends.
LEMMA Enters ==
  ASSUME NEW w \in Worker, Enter(w)
  PROVE  Moves(w)
BY Values DEF Enter, Moves

\* A pass that goes on keeps what it has; one that fails may report the error.
LEMMA Goes ==
  ASSUME TypeOK
  PROVE  /\ \A pc \in Steps : Goto(pc) => Continues(pc)
         /\ Goto(Error) => Stops
         /\ \A r : \A pc \in Steps : GotoIf(r, pc) =>
              /\ r = "ok" => Continues(pc)
              /\ r # "ok" => Stops
<1>1. work \in Worker
  BY DEF TypeOK
<1>2. ASSUME NEW pc \in Steps, Goto(pc)
      PROVE  Continues(pc)
  BY <1>1, <1>2, Values DEF Goto, Enter, Continues, Worker
<1>3. ASSUME NEW pc \in {"fail", "idle"}, Goto(pc)
      PROVE  Stops
  BY <1>2, <1>3, Values DEF Continues, Stops, Steps
<1>4. Goto(Error) => Stops
  BY <1>3 DEF Error
<1>5. QED
  BY <1>2, <1>4 DEF GotoIf

\* A merge changes only what differs between the object before and after.
LEMMA Merges ==
  ASSUME TypeOK, NEW base \in Object, NEW new \in Object
  PROVE  LET m == Merged(base, new)
         IN  /\ m \in Object
             /\ m.phase = api[P].phase /\ m.finalizer = api[P].finalizer
             /\ m.gen = api[P].gen /\ m.policy = api[P].policy /\ m.service = api[P].service
             /\ m.tunnel = IF new.tunnel # base.tunnel THEN new.tunnel ELSE api[P].tunnel
             /\ m.route = IF new.route # base.route THEN new.route ELSE api[P].route
             /\ m.network = IF new.network # base.network THEN new.network ELSE api[P].network
<1>1. P \in Routes /\ api[P] \in Object
  BY DEF TypeOK, Worker, P
<1> DEFINE t == IF new.tunnel # base.tunnel THEN new.tunnel ELSE api[P].tunnel
           i == IF new.route # base.route THEN new.route ELSE api[P].route
           n == IF new.network # base.network THEN new.network ELSE api[P].network
           c == IF new.cond # base.cond THEN new.cond ELSE api[P].cond
<1>2. /\ t \in Tunnels \cup {None} /\ i \in Cidrs \cup {None} /\ n \in Networks \cup {None}
      /\ c \in Conditions
  BY <1>1 DEF Object
<1>3. Merged(base, new) = [api[P] EXCEPT !.tunnel = t, !.route = i, !.network = n, !.cond = c]
  BY DEF Merged, Sent
<1> HIDE DEF t, i, n, c
<1>4. QED
  <2>1. Merged(base, new) \in Object
    BY <1>1, <1>2, <1>3 DEF Object
  <2>2. QED
    BY <1>1, <1>3, <2>1 DEF t, i, n, Object

\* What a patch of the status does: the fields that the pass has changed since
\* it last saw the object are sent, and the pass continues with the result.
LEMMA Patches ==
  ASSUME TypeOK, NEW new \in Object, NEW r, NEW pc \in Steps, PatchStatus(new, r, pc)
  PROVE  /\ api' \in [Routes -> Object] /\ faults' \in Nat /\ work' \in Worker
         /\ \A p \in Routes \ {P} : api'[p] = api[p]
         /\ api'[P].phase = api[P].phase /\ api'[P].finalizer = api[P].finalizer
         /\ api'[P].gen = api[P].gen /\ api'[P].policy = api[P].policy
         /\ api'[P].service = api[P].service
         /\ api'[P].tunnel = api[P].tunnel \/ (new.tunnel # Obj.tunnel /\ api'[P].tunnel = new.tunnel)
         /\ api'[P].route = api[P].route \/ (new.route # Obj.route /\ api'[P].route = new.route)
         /\ api'[P].network = api[P].network
              \/ (new.network # Obj.network /\ api'[P].network = new.network)
         /\ api' = api \/ Exists(P)
         /\ r # "ok" => Stops
         /\ r = "ok" =>
              /\ Exists(P)
              /\ new.tunnel # Obj.tunnel => api'[P].tunnel = new.tunnel
              /\ new.route # Obj.route => api'[P].route = new.route
              /\ new.network # Obj.network => api'[P].network = new.network
              /\ pc = "idle" => work' = Idle
              /\ pc # "idle" =>
                   /\ work'.pc = pc /\ work'.p = work.p /\ work'.obj = api'[P]
                   /\ work'.accepted = work.accepted /\ work'.network = work.network
                   /\ work'.tunnel = work.tunnel /\ work'.id = work.id /\ work'.after = work.after
<1> DEFINE m == Merged(Obj, new)
<1>1. P \in Routes /\ Obj \in Object /\ work \in Worker /\ api[P] \in Object
  BY DEF TypeOK, Worker, P, Obj
<1>2. /\ m \in Object
      /\ m.phase = api[P].phase /\ m.finalizer = api[P].finalizer
      /\ m.gen = api[P].gen /\ m.policy = api[P].policy /\ m.service = api[P].service
      /\ m.tunnel = IF new.tunnel # Obj.tunnel THEN new.tunnel ELSE api[P].tunnel
      /\ m.route = IF new.route # Obj.route THEN new.route ELSE api[P].route
      /\ m.network = IF new.network # Obj.network THEN new.network ELSE api[P].network
  BY <1>1, Merges
<1>3. /\ IF Exists(P) THEN Call(r) ELSE r = "failed" /\ UNCHANGED faults
      /\ api' = IF r # "failed" THEN [api EXCEPT ![P] = m] ELSE api
      /\ IF r = "ok" THEN Enter([work EXCEPT !.pc = pc, !.obj = m]) ELSE Goto(Error)
  BY DEF PatchStatus, Applied
<1> HIDE DEF m
<1>4. api' \in [Routes -> Object] /\ faults' \in Nat
  BY <1>1, <1>2, <1>3, Calls DEF TypeOK
<1>5. r # "ok" => Stops
  BY <1>3, Goes
<1>6. ASSUME r = "ok"
      PROVE  /\ api'[P] = m /\ work' \in Worker
             /\ pc = "idle" => work' = Idle
             /\ pc # "idle" =>
                  /\ work'.pc = pc /\ work'.p = work.p /\ work'.obj = m
                  /\ work'.accepted = work.accepted /\ work'.network = work.network
                  /\ work'.tunnel = work.tunnel /\ work'.id = work.id /\ work'.after = work.after
  BY ZenonT(60), <1>1, <1>2, <1>3, <1>6, Values DEF TypeOK, Enter, Worker
<1>7. QED
  BY <1>1, <1>2, <1>3, <1>4, <1>5, <1>6 DEF TypeOK, Stops

\* The ends of a pass, and the places it goes on to.
LEMMA Lands ==
  /\ Stops => Control'
  /\ work' = Idle => Control'
  /\ work'.pc \notin Removing /\ (work'.pc \in Ensuring => work'.network \in Networks) => Control'
BY Values DEF Stops, Control, Aim, Removing, Ensuring, Routing

-----------------------------------------------------------------------------
(* Types.                                                                  *)

\* What a step of the pass leaves typed, its local state apart.
Typed ==
  /\ api' \in [Routes -> Object] /\ cache' \in [Routes -> Object]
  /\ tunnels' \in [Tunnels -> Tunnel] /\ cidrs' \in [Cidrs -> Cidr]
  /\ \A i \in Cidrs : cidrs'[i].owner \in Routes =>
                        cidrs'[i].network \in Networks /\ cidrs'[i].tunnel \in Tunnels
  /\ secret' \in [Routes -> Tunnels \cup {None}] /\ deployed' \in [Routes -> BOOLEAN]
  /\ provider' \in [Providers -> ProviderStates] /\ valid' \in [Routes -> BOOLEAN]
  /\ address' \in [Services -> Networks \cup {None}]
  /\ edits' \in Nat /\ faults' \in Nat

\* The pass and its object.
LEMMA Fields ==
  ASSUME TypeOK
  PROVE  /\ work \in Worker /\ P \in Routes /\ Obj \in Object /\ api[P] \in Object
         /\ cache[P] \in Object
         /\ work.network \in Networks \cup {None} /\ work.tunnel \in Tunnels \cup {None}
         /\ work.id \in Cidrs \cup {None} /\ work.after \in Steps
         /\ Obj.service \in Services /\ Obj.tunnel \in Tunnels \cup {None}
         /\ Obj.route \in Cidrs \cup {None} /\ Obj.network \in Networks \cup {None}
BY DEF TypeOK, Worker, Object, P, Obj

\* The pass up to the network that validate finds.
LEMMA OpeningType ==
  ASSUME TypeOK, Control, AddFinalizer \/ Validate \/ DeleteRoute \/ Clear
  PROVE  work' \in Worker /\ Typed /\ Control'
<1>1. CASE AddFinalizer
  <2> DEFINE g == [Obj EXCEPT !.finalizer = TRUE]
  <2>1. g \in Object
    BY Fields DEF Object
  <2>2. PICK r \in Results : UpdateObject(g, r)
    BY <1>1 DEF AddFinalizer
  <2> HIDE DEF g
  <2>3. api' \in [Routes -> Object] /\ faults' \in Nat
    BY <2>1, <2>2, Fields, Calls DEF UpdateObject, TypeOK
  <2>4. work' = Idle \/ Stops
    BY <2>2, Goes DEF UpdateObject, Continues, Steps
  <2>5. QED
    BY <1>1, <2>3, <2>4, Lands, Values
    DEF AddFinalizer, TypeOK, Typed, remote, children, world, Stops
<1>2. CASE Validate
  <2>1. ~Rejected(P) => address[Obj.service] \in Networks
    BY Fields DEF Rejected, TypeOK
  <2>2. CASE ~Rejected(P)
    <3>1. work' = [work EXCEPT !.pc = "getTunnel", !.accepted = TRUE,
                               !.network = address[Obj.service]]
      BY <1>2, <2>2 DEF Validate
    <3>2. /\ work' \in Worker /\ work'.pc = "getTunnel"
          /\ work'.network \in Networks
      BY <2>1, <2>2, <3>1, Fields DEF Worker, Steps
    <3>3. QED
      BY <1>2, <3>2, Lands
      DEF Validate, TypeOK, Typed, remote, children, world, Removing
  <2>3. CASE Rejected(P)
    <3>1. PICK pc \in {"deleteRoute", "status"} :
            work' = [work EXCEPT !.pc = pc, !.after = "status"]
      BY <1>2, <2>3 DEF Validate
    <3>2. work' \in Worker /\ work'.pc = pc /\ work'.after = "status"
      BY <3>1, Fields DEF Worker, Steps
    <3>3. Control'
      BY <3>2 DEF Control, Aim, Removing, Ensuring, Routing
    <3>4. QED
      BY <1>2, <3>2, <3>3 DEF Validate, TypeOK, Typed, remote, children, world
  <2>4. QED
    BY <2>2, <2>3
<1>3. CASE DeleteRoute
  <2>1. PICK r \in Results, targets \in SUBSET Cidrs :
          /\ \E possible \in BOOLEAN : CloudflareCall(possible, r)
          /\ cidrs' = IF Applied(r)
                THEN [i \in Cidrs |-> IF i \in targets
                        THEN [cidrs[i] EXCEPT !.state = "deleted"] ELSE cidrs[i]]
                ELSE cidrs
          /\ GotoIf(r, "clear")
    <3>1. \A n : CidrsFor(n) \subseteq Cidrs
      BY DEF CidrsFor
    <3>2. QED
      BY <1>3, <3>1 DEF DeleteRoute
  <2>2. faults' \in Nat
    BY <2>1, Calls
  <2>3. Continues("clear") \/ Stops
    BY <2>1, Goes DEF Steps
  <2>4. /\ cidrs' \in [Cidrs -> Cidr]
        /\ \A i \in Cidrs : /\ cidrs'[i].owner = cidrs[i].owner
                            /\ cidrs'[i].network = cidrs[i].network
                            /\ cidrs'[i].tunnel = cidrs[i].tunnel
    BY <2>1 DEF TypeOK, Cidr, RemoteStates
  <2>5. Control' /\ work' \in Worker
    BY <1>3, <2>3, Lands DEF DeleteRoute, At, Continues, Stops, Control, Aim, Removing
  <2>6. QED
    BY <1>3, <2>2, <2>4, <2>5 DEF DeleteRoute, TypeOK, Typed, children, world
<1>4. CASE Clear
  <2> DEFINE f == [Obj EXCEPT !.route = None, !.network = None,
                      !.tunnel = IF work.after = "find" THEN None ELSE @]
  <2>1. f \in Object
    BY Fields DEF Object
  <2>2. PICK r \in Results : PatchStatus(f, r, work.after)
    BY <1>4 DEF Clear
  <2> HIDE DEF f
  <2>3. PICK pc \in Steps : pc = work.after /\ pc # "idle"
    BY <1>4, Fields DEF Clear, At, Control, Removing
  <2>4. /\ api' \in [Routes -> Object] /\ faults' \in Nat /\ work' \in Worker
        /\ Stops \/ (work'.pc = pc /\ work'.network = work.network)
    BY <2>1, <2>2, <2>3, Patches
  <2>5. Control'
    BY <1>4, <2>3, <2>4, Lands DEF Clear, At, Control, Aim, Removing, Ensuring, Routing
  <2>6. QED
    BY <1>4, <2>4, <2>5 DEF Clear, TypeOK, Typed, remote, children, world
<1>5. QED
  BY <1>1, <1>2, <1>3, <1>4

\* ensureTunnel
LEMMA TunnelType ==
  ASSUME TypeOK, Control, EnsureTunnel
  PROVE  work' \in Worker /\ Typed /\ Control'
<1> DEFINE Found(t) == work' = [work EXCEPT !.pc = "record", !.tunnel = t]
<1>1. work.pc \in {"getTunnel", "find", "create", "record"} /\ work.network \in Networks
  BY DEF EnsureTunnel, GetTunnel, Find, CreateTunnel, RecordTunnel, At, Control, Aim, Removing,
         Ensuring
<1>2. ASSUME NEW t \in Tunnels, Enter([work EXCEPT !.pc = "record", !.tunnel = t])
      PROVE  work' \in Worker /\ Control'
  <2> DEFINE w == [work EXCEPT !.pc = "record", !.tunnel = t]
  <2>1. w \in Worker /\ w.pc = "record" /\ w.network = work.network
    BY Fields DEF Worker, Steps
  <2>2. Moves(w)
    BY <1>2, <2>1, Enters
  <2> HIDE DEF w
  <2>3. QED
    BY <1>1, <2>1, <2>2, Lands DEF Moves, Removing
<1>3. ASSUME NEW pc \in {"find", "create", "getRoute"}, Continues(pc)
      PROVE  work' \in Worker /\ Control'
  BY <1>1, <1>3, Lands DEF Continues, Removing
<1>4. Stops => work' \in Worker /\ Control'
  BY Lands DEF Stops
<1>5. CASE GetTunnel
  <2>1. faults' \in Nat
    BY <1>5, Calls DEF GetTunnel, TypeOK
  <2>2. work' \in Worker /\ Control'
    <3>1. CASE Goto("find")
      BY <1>3, <3>1, Goes DEF Steps
    <3>2. CASE Goto(Error)
      BY <1>4, <3>2, Goes
    <3>3. CASE Live(Obj.tunnel) /\ Enter([work EXCEPT !.pc = "record", !.tunnel = Obj.tunnel])
      BY <1>2, <3>3 DEF Live
    <3>4. CASE Enter([work EXCEPT !.after = "find",
                      !.pc = IF Obj.network # None THEN "deleteRoute" ELSE "clear"])
      <4> DEFINE w(pc) == [work EXCEPT !.after = "find", !.pc = pc]
      <4>1. PICK pc \in Removing : Enter(w(pc))
        BY <3>4 DEF Removing
      <4>2. /\ w(pc) \in Worker /\ w(pc).pc = pc /\ w(pc).after = "find"
            /\ w(pc).network = work.network
        BY ZenonT(60), Fields DEF Worker, Steps, Removing
      <4>3. Moves(w(pc))
        BY <4>1, <4>2, Enters
      <4> HIDE DEF w
      <4>4. QED
        BY <1>1, <4>2, <4>3 DEF Moves, Control, Aim, Removing
    <3>5. QED
      BY <1>5, <3>1, <3>2, <3>3, <3>4 DEF GetTunnel
  <2>3. QED
    BY <1>5, <2>1, <2>2 DEF GetTunnel, TypeOK, Typed, remote, children, world
<1>6. CASE Find
  <2>1. faults' \in Nat
    BY <1>6, Calls DEF Find
  <2>2. work' \in Worker /\ Control'
    <3>1. \A r : GotoIf(r, "create") => work' \in Worker /\ Control'
      BY <1>3, <1>4, Goes DEF Steps
    <3>2. TunnelsOf(P) \subseteq Tunnels
      BY DEF TunnelsOf
    <3>3. QED
      BY <1>2, <1>6, <3>1, <3>2 DEF Find
  <2>3. QED
    BY <1>6, <2>1, <2>2 DEF Find, TypeOK, Typed, remote, children, world
<1>7. CASE CreateTunnel
  <2>1. PICK t \in Tunnels, r \in Results :
          /\ CloudflareCall(TRUE, r)
          /\ tunnels' = IF Applied(r)
               THEN [tunnels EXCEPT ![t] = [state |-> "live", owner |-> P]] ELSE tunnels
          /\ IF r = "ok" THEN Enter([work EXCEPT !.pc = "record", !.tunnel = t])
             ELSE Goto(Error)
    BY <1>7 DEF CreateTunnel
  <2>2. faults' \in Nat /\ tunnels' \in [Tunnels -> Tunnel]
    BY <2>1, Fields, Calls DEF TypeOK, Tunnel, RemoteStates
  <2>3. work' \in Worker /\ Control'
    BY <1>2, <1>4, <2>1, Goes
  <2>4. QED
    BY <1>7, <2>2, <2>3 DEF CreateTunnel, TypeOK, Typed, children, world
<1>8. CASE RecordTunnel
  <2> DEFINE new == [Obj EXCEPT !.tunnel = work.tunnel]
  <2>1. PICK r \in Results, m \in Object :
          /\ IF Exists(P) THEN Call(r) ELSE r = "failed" /\ UNCHANGED faults
          /\ api' = IF Applied(r) THEN [api EXCEPT ![P] = m] ELSE api
          /\ r # "ok" => Goto(Error)
          /\ r = "ok" => \E pc \in {"deleteRoute", "getRoute"} :
               Enter([work EXCEPT !.obj = m, !.after = "getRoute", !.pc = pc])
    <3>1. new \in Object
      BY Fields DEF Object
    <3>2. Merged(Obj, new) \in Object
      BY <3>1, Fields, Merges
    <3>3. QED
      BY <1>8, <3>2 DEF RecordTunnel
  <2>2. faults' \in Nat /\ api' \in [Routes -> Object]
    BY <2>1, Fields, Calls DEF TypeOK
  <2>3. work' \in Worker /\ Control'
    <3>1. CASE r = "ok"
      <4> DEFINE w(pc) == [work EXCEPT !.obj = m, !.after = "getRoute", !.pc = pc]
      <4>1. PICK pc \in {"deleteRoute", "getRoute"} : Enter(w(pc))
        BY <2>1, <3>1
      <4>2. /\ w(pc) \in Worker /\ w(pc).pc = pc /\ w(pc).after = "getRoute"
            /\ w(pc).network = work.network
        BY ZenonT(60), Fields DEF Worker, Steps
      <4>3. Moves(w(pc))
        BY <4>1, <4>2, Enters
      <4> HIDE DEF w
      <4>4. QED
        BY <1>1, <4>2, <4>3 DEF Moves, Control, Aim, Removing
    <3>2. CASE r # "ok"
      BY <1>4, <2>1, <3>2, Goes
    <3>3. QED
      BY <3>1, <3>2
  <2>4. QED
    BY <1>8, <2>2, <2>3 DEF RecordTunnel, TypeOK, Typed, remote, children, world
<1>9. QED
  BY <1>5, <1>6, <1>7, <1>8 DEF EnsureTunnel

\* ensureRoute
LEMMA RouteType ==
  ASSUME TypeOK, Control, EnsureRoute
  PROVE  work' \in Worker /\ Typed /\ Control'
<1>1. work.pc \in {"getRoute", "list", "persist", "createRoute", "recordRoute"}
      /\ work.network \in Networks
  BY DEF EnsureRoute, GetRoute, ListRoutes, Persist, CreateRoute, RecordRoute, At, Control, Aim,
         Removing, Ensuring, Routing
<1>2. ASSUME NEW i \in Cidrs, Enter([work EXCEPT !.pc = "recordRoute", !.id = i])
      PROVE  work' \in Worker /\ Control'
  <2> DEFINE w == [work EXCEPT !.pc = "recordRoute", !.id = i]
  <2>1. w \in Worker /\ w.pc = "recordRoute" /\ w.network = work.network
    BY Fields DEF Worker, Steps
  <2>2. Moves(w)
    BY <1>2, <2>1, Enters
  <2> HIDE DEF w
  <2>3. QED
    BY <1>1, <2>1, <2>2, Lands DEF Moves, Removing
<1>3. ASSUME NEW pc \in {"list", "secret", "createRoute", "persist"}, Continues(pc)
      PROVE  work' \in Worker /\ Control'
  BY <1>1, <1>3, Lands DEF Continues, Removing
<1>4. Stops => work' \in Worker /\ Control'
  BY Lands DEF Stops
<1>5. CASE GetRoute
  <2>1. faults' \in Nat
    BY <1>5, Calls DEF GetRoute, TypeOK
  <2>2. work' \in Worker /\ Control'
    <3>1. Goto("list") \/ Goto("secret") => work' \in Worker /\ Control'
      BY <1>3, Goes DEF Steps
    <3>2. Goto(Error) => work' \in Worker /\ Control'
      BY <1>4, Goes
    <3>3. CASE Enter([work EXCEPT !.pc = "clear", !.after = "list"])
      <4> DEFINE w == [work EXCEPT !.pc = "clear", !.after = "list"]
      <4>1. /\ w \in Worker /\ w.pc = "clear" /\ w.after = "list"
            /\ w.network = work.network
        BY Fields DEF Worker, Steps
      <4>2. Moves(w)
        BY <3>3, <4>1, Enters
      <4> HIDE DEF w
      <4>3. QED
        BY <1>1, <4>1, <4>2 DEF Moves, Control, Aim, Removing
    <3>4. QED
      BY <1>5, <3>1, <3>2, <3>3 DEF GetRoute
  <2>3. QED
    BY <1>5, <2>1, <2>2 DEF GetRoute, TypeOK, Typed, remote, children, world
<1>6. CASE ListRoutes
  <2>1. faults' \in Nat
    BY <1>6, Calls DEF ListRoutes
  <2>2. Goto("createRoute") \/ Goto("persist") => work' \in Worker /\ Control'
    BY <1>3, Goes DEF Steps
  <2>3. Goto(Error) => work' \in Worker /\ Control'
    BY <1>4, Goes
  <2>4. CidrsFor(work.network) \subseteq Cidrs
    BY DEF CidrsFor
  <2>5. work' \in Worker /\ Control'
    BY <1>2, <1>6, <2>2, <2>3, <2>4 DEF ListRoutes
  <2>6. QED
    BY <1>6, <2>1, <2>5 DEF ListRoutes, TypeOK, Typed, remote, children, world
<1>7. CASE Persist
  <2> DEFINE new == [Obj EXCEPT !.network = work.network]
  <2>1. new \in Object
    BY Fields DEF Object
  <2>2. PICK r \in Results : PatchStatus(new, r, "createRoute")
    BY <1>7 DEF Persist
  <2> HIDE DEF new
  <2>3. /\ api' \in [Routes -> Object] /\ faults' \in Nat /\ work' \in Worker
        /\ Stops \/ (work'.pc = "createRoute" /\ work'.network = work.network)
    BY <2>1, <2>2, Patches DEF Steps
  <2>4. QED
    BY <1>1, <1>7, <2>3, Lands
    DEF Persist, TypeOK, Typed, remote, children, world, Removing
<1>8. CASE CreateRoute
  <2>1. PICK i \in Cidrs, r \in Results :
          /\ CloudflareCall(CidrsFor(work.network) = {} /\ Live(work.tunnel), r)
          /\ cidrs' = IF Applied(r)
               THEN [cidrs EXCEPT ![i] = [state |-> "live", owner |-> P,
                       network |-> work.network, tunnel |-> work.tunnel]]
               ELSE cidrs
          /\ IF r = "ok" THEN Enter([work EXCEPT !.pc = "recordRoute", !.id = i])
             ELSE Goto(Error)
    BY <1>8 DEF CreateRoute
  <2>2. faults' \in Nat /\ (Applied(r) => work.tunnel \in Tunnels)
    BY <2>1, Calls DEF Applied, Live
  <2>3. /\ cidrs' \in [Cidrs -> Cidr]
        /\ \A j \in Cidrs : cidrs'[j].owner \in Routes =>
                              cidrs'[j].network \in Networks /\ cidrs'[j].tunnel \in Tunnels
    BY <1>1, <2>1, <2>2, Fields DEF TypeOK, Cidr, RemoteStates
  <2>4. work' \in Worker /\ Control'
    BY <1>2, <1>4, <2>1, Goes
  <2>5. QED
    BY <1>8, <2>2, <2>3, <2>4 DEF CreateRoute, TypeOK, Typed, children, world
<1>9. CASE RecordRoute
  <2> DEFINE new == [Obj EXCEPT !.route = work.id, !.network = work.network]
  <2>1. new \in Object
    BY Fields DEF Object
  <2>2. PICK r \in Results : PatchStatus(new, r, "secret")
    BY <1>9 DEF RecordRoute
  <2> HIDE DEF new
  <2>3. /\ api' \in [Routes -> Object] /\ faults' \in Nat /\ work' \in Worker
        /\ Stops \/ (work'.pc = "secret" /\ work'.network = work.network)
    BY <2>1, <2>2, Patches DEF Steps
  <2>4. QED
    BY <1>1, <1>9, <2>3, Lands
    DEF RecordRoute, TypeOK, Typed, remote, children, world, Removing
<1>10. QED
  BY <1>5, <1>6, <1>7, <1>8, <1>9 DEF EnsureRoute

\* ensureConnector, and the reports.
LEMMA ConnectType ==
  ASSUME TypeOK, Control, Connect \/ Fail
  PROVE  work' \in Worker /\ Typed /\ Control'
<1>1. work.pc \in {"secret", "deploy", "resources"} => work.network \in Networks
  BY DEF Control, Aim, Removing, Ensuring, Routing
<1>2. ASSUME NEW pc \in {"deploy", "resources"}, Continues(pc), work.network \in Networks
      PROVE  work' \in Worker /\ Control'
  BY <1>2, Lands DEF Continues, Removing
<1>3. Stops => work' \in Worker /\ Control'
  BY Lands DEF Stops
<1>4. CASE WriteSecret
  <2>1. PICK r \in Results :
          /\ CloudflareCall(Live(work.tunnel), r)
          /\ secret' = IF Applied(r) THEN [secret EXCEPT ![P] = work.tunnel] ELSE secret
          /\ GotoIf(r, "deploy")
    BY <1>4 DEF WriteSecret
  <2>2. faults' \in Nat /\ secret' \in [Routes -> Tunnels \cup {None}]
    BY <2>1, Calls, Fields DEF TypeOK, Live
  <2>3. work' \in Worker /\ Control'
    BY <1>1, <1>2, <1>3, <1>4, <2>1, Goes DEF WriteSecret, At, Steps
  <2>4. QED
    BY <1>4, <2>2, <2>3 DEF WriteSecret, TypeOK, Typed, remote, world
<1>5. CASE WriteDeployment
  <2>1. PICK r \in Results :
          /\ Call(r)
          /\ deployed' = IF Applied(r) THEN [deployed EXCEPT ![P] = TRUE] ELSE deployed
          /\ GotoIf(r, "resources")
    BY <1>5 DEF WriteDeployment
  <2>2. faults' \in Nat
    BY <2>1, Calls
  <2>3. deployed' \in [Routes -> BOOLEAN]
    <3>1. P \in Routes /\ deployed \in [Routes -> BOOLEAN]
      BY Fields DEF TypeOK
    <3>2. deployed' \in {deployed, [deployed EXCEPT ![P] = TRUE]}
      BY <2>1
    <3>3. QED
      BY <3>1, <3>2
  <2>4. work' \in Worker /\ Control'
    BY <1>1, <1>2, <1>3, <1>5, <2>1, Goes DEF WriteDeployment, At, Steps
  <2>5. QED
    BY <1>5, <2>2, <2>3, <2>4 DEF WriteDeployment, TypeOK, Typed, remote, world
<1>6. CASE WriteResources
  <2>1. PICK r \in Results : PatchStatus(Obj, r, "status")
    BY <1>6 DEF WriteResources
  <2>2. /\ api' \in [Routes -> Object] /\ faults' \in Nat /\ work' \in Worker
        /\ Stops \/ work'.pc = "status"
    BY <2>1, Fields, Patches DEF Steps
  <2>3. QED
    BY <1>6, <2>2, Lands
    DEF WriteResources, TypeOK, Typed, remote, children, world, Removing, Ensuring, Routing
<1>7. CASE WriteStatus
  <2>1. PICK new \in Object, r \in Results : PatchStatus(new, r, "idle")
    <3> DEFINE cond == [accepted   |-> IF work.accepted THEN "True" ELSE "False",
                        programmed |-> IF Obj.route # None THEN "True" ELSE "False",
                        gen        |-> Obj.gen]
    <3>1. cond \in Conditions
      BY Fields DEF Conditions, Object
    <3> HIDE DEF cond
    <3>2. [Obj EXCEPT !.cond = cond] \in Object
      BY <3>1, Fields DEF Object
    <3>3. QED
      BY <1>7, <3>2 DEF WriteStatus, cond
  <2>2. /\ api' \in [Routes -> Object] /\ faults' \in Nat /\ work' \in Worker
        /\ Stops \/ work' = Idle
    BY <2>1, Patches DEF Steps
  <2>3. QED
    BY <1>7, <2>2, Lands DEF WriteStatus, TypeOK, Typed, remote, children, world
<1>8. CASE Fail
  <2>1. Continues("idle")
    BY <1>8, Goes DEF Fail, Steps
  <2>2. api' \in [Routes -> Object] /\ faults' \in Nat
    <3> DEFINE base == cache[P]
               new  == [base EXCEPT !.cond.programmed = "Unknown", !.cond.gen = base.gen]
    <3>1. new \in Object
      BY Fields DEF Object, Conditions
    <3> HIDE DEF new
    <3>2. Merged(base, new) \in Object
      BY <3>1, Fields, Merges
    <3>3. PICK r \in Results : \/ /\ Call(r)
                                 /\ api' = IF Applied(r)
                                           THEN [api EXCEPT ![P] = Merged(base, new)] ELSE api
                               \/ r = "failed" /\ UNCHANGED <<api, faults>>
      BY <1>8 DEF Fail, new
    <3>4. QED
      BY <3>2, <3>3, Fields, Calls DEF TypeOK
  <2>3. QED
    BY <1>8, <2>1, <2>2, Lands
    DEF Fail, Continues, TypeOK, Typed, remote, children, world
<1>9. QED
  BY <1>4, <1>5, <1>6, <1>7, <1>8 DEF Connect

\* finalize
LEMMA FinalizeType ==
  ASSUME TypeOK, Control, Finalize
  PROVE  work' \in Worker /\ Typed /\ Control'
<1>1. ASSUME NEW pc \in Cleaning, Continues(pc)
      PROVE  work' \in Worker /\ Control'
  BY <1>1, Lands DEF Continues, Cleaning, Removing, Ensuring, Routing
<1>2. Stops => work' \in Worker /\ Control'
  BY Lands DEF Stops
<1>3. CASE FinRoute
  <2>1. CASE /\ work' = [work EXCEPT !.pc = "deleteRoute", !.after = "finDeploy"]
             /\ Obj.network # None
    <3>1. work' \in Worker /\ work'.pc = "deleteRoute" /\ work'.after = "finDeploy"
      BY <2>1, Fields DEF Worker, Steps
    <3>2. QED
      BY <1>3, <3>1
      DEF FinRoute, TypeOK, Typed, remote, children, world, Control, Aim, Removing, Ensuring,
          Routing
  <2>2. CASE work' = [work EXCEPT !.pc = "finDeploy"]
    <3>1. work' \in Worker /\ work'.pc = "finDeploy"
      BY <2>2, Fields DEF Worker, Steps
    <3>2. QED
      BY <1>3, <3>1, Lands
      DEF FinRoute, TypeOK, Typed, remote, children, world, Removing, Ensuring, Routing
  <2>3. QED
    BY <1>3, <2>1, <2>2 DEF FinRoute
<1>4. CASE FinDeploy
  <2>1. PICK r \in Results :
          /\ Call(r)
          /\ deployed' = IF Applied(r) THEN [deployed EXCEPT ![P] = FALSE] ELSE deployed
          /\ GotoIf(r, "finSecret")
    BY <1>4 DEF FinDeploy
  <2>2. faults' \in Nat
    BY <2>1, Calls
  <2>3. deployed' \in [Routes -> BOOLEAN]
    <3>1. P \in Routes /\ deployed \in [Routes -> BOOLEAN]
      BY Fields DEF TypeOK
    <3>2. deployed' \in {deployed, [deployed EXCEPT ![P] = FALSE]}
      BY <2>1
    <3>3. QED
      BY <3>1, <3>2
  <2>4. work' \in Worker /\ Control'
    BY <1>1, <1>2, <2>1, Goes DEF Steps, Cleaning
  <2>5. QED
    BY <1>4, <2>2, <2>3, <2>4 DEF FinDeploy, TypeOK, Typed, remote, world
<1>5. CASE FinSecret
  <2>1. PICK r \in Results :
          /\ Call(r)
          /\ secret' = IF Applied(r) THEN [secret EXCEPT ![P] = None] ELSE secret
          /\ GotoIf(r, "finTunnel")
    BY <1>5 DEF FinSecret
  <2>2. faults' \in Nat /\ secret' \in [Routes -> Tunnels \cup {None}]
    BY <2>1, Calls DEF TypeOK
  <2>3. work' \in Worker /\ Control'
    BY <1>1, <1>2, <2>1, Goes DEF Steps, Cleaning
  <2>4. QED
    BY <1>5, <2>2, <2>3 DEF FinSecret, TypeOK, Typed, remote, world
<1>6. CASE FinTunnel
  <2>1. Continues("finRemove") \/ Stops
    BY <1>6, Goes DEF FinTunnel, Steps
  <2>2. faults' \in Nat
    BY <1>6, Calls DEF FinTunnel, TypeOK
  <2>3. /\ \/ tunnels' = tunnels
           \/ Live(Obj.tunnel) /\ tunnels' = [tunnels EXCEPT ![Obj.tunnel].state = "deleted"]
    BY <1>6 DEF FinTunnel
  <2>4. tunnels' \in [Tunnels -> Tunnel]
    BY <2>3 DEF TypeOK, Live, Tunnel, RemoteStates
  <2>5. QED
    BY <1>1, <1>2, <1>6, <2>1, <2>2, <2>4 DEF FinTunnel, TypeOK, Typed, children, world, Cleaning
<1>7. CASE FinRemove
  <2> DEFINE g == [Obj EXCEPT !.finalizer = FALSE, !.phase = "gone"]
  <2>1. g \in Object
    BY Fields DEF Object
  <2>2. PICK r \in Results : UpdateObject(g, r)
    BY <1>7 DEF FinRemove
  <2> HIDE DEF g
  <2>3. api' \in [Routes -> Object] /\ faults' \in Nat
    BY <2>1, <2>2, Calls DEF UpdateObject, TypeOK
  <2>4. work' = Idle \/ Stops
    BY <2>2, Goes DEF UpdateObject, Continues, Steps
  <2>5. QED
    BY <1>7, <2>3, <2>4, Lands, Values
    DEF FinRemove, TypeOK, Typed, remote, children, world, Stops
<1>8. QED
  BY <1>3, <1>4, <1>5, <1>6, <1>7 DEF Finalize

\* A step of the pass.
LEMMA StepType ==
  ASSUME TypeOK, Control, Step
  PROVE  TypeOK' /\ Control'
<1>1. work' \in Worker /\ Typed /\ Control'
  BY OpeningType, TunnelType, RouteType, ConnectType, FinalizeType DEF Step
<1>2. QED
  BY <1>1 DEF TypeOK, Typed

\* The manager: a pass starts, a crash, a watch event.
LEMMA ManagerType ==
  ASSUME TypeOK, Control, Crash \/ \E p \in Routes : Start(p) \/ Deliver(p)
  PROVE  TypeOK' /\ Control'
<1>1. CASE Crash
  BY <1>1, Values, Lands DEF Crash, Fault, TypeOK, remote, children, world
<1>2. ASSUME NEW p \in Routes, Start(p)
      PROVE  TypeOK' /\ Control'
  <2>1. PICK pc \in {"finRoute", "validate", "addFinalizer"} :
          work' = [Idle EXCEPT !.pc = pc, !.p = p, !.obj = cache[p]]
    BY <1>2 DEF Start
  <2>2. cache[p] \in Object
    BY DEF TypeOK
  <2>3. work' \in Worker /\ work'.pc = pc
    BY <2>1, <2>2, Values DEF Worker, Steps
  <2>4. QED
    BY <1>2, <2>3, Lands
    DEF Start, TypeOK, remote, children, world, Removing, Ensuring, Routing
<1>3. ASSUME NEW p \in Routes, Deliver(p)
      PROVE  TypeOK' /\ Control'
  BY <1>3 DEF Deliver, TypeOK, remote, children, world, Control, Aim
<1>4. QED
  BY <1>1, <1>2, <1>3

\* Everybody else leaves the pass alone.
LEMMA OthersType ==
  ASSUME TypeOK, Others
  PROVE  TypeOK' /\ work' = work /\ cache' = cache /\ children' = children
<1>1. ASSUME NEW p \in Routes, CreateObject(p) \/ EditObject(p) \/ DeleteObject(p)
      PROVE  /\ api' \in [Routes -> Object] /\ edits' \in Nat
             /\ UNCHANGED <<cache, work, tunnels, cidrs, secret, deployed, provider, valid,
                            address, faults>>
  <2>1. api[p] \in Object
    BY DEF TypeOK
  <2>2. CASE CreateObject(p)
    <3>1. PICK policy \in {"Delete", "Retain"}, s \in Services :
            api' = [api EXCEPT ![p] = [@ EXCEPT !.phase = "live", !.gen = 1,
                                           !.policy = policy, !.service = s]]
      BY <2>2, PolicyAssumption DEF CreateObject
    <3>2. api' \in [Routes -> Object]
      BY ZenonT(60), <2>1, <3>1 DEF TypeOK, Object
    <3>3. QED
      BY <2>2, <3>2 DEF CreateObject, remote, children, world, TypeOK
  <2>3. CASE EditObject(p)
    <3>1. PICK policy \in {"Delete", "Retain"}, s \in Services :
            LET new == [api[p] EXCEPT !.policy = policy, !.service = s]
            IN  api' = [api EXCEPT ![p] = [new EXCEPT !.gen = @ + 1]]
      BY <2>3, PolicyAssumption DEF EditObject
    <3>2. [api[p] EXCEPT !.policy = policy, !.service = s] \in Object
      BY <2>1, <3>1 DEF Object
    <3>3. \A o \in Object : [o EXCEPT !.gen = @ + 1] \in Object
      BY DEF Object
    <3>4. api' \in [Routes -> Object]
      BY <3>1, <3>2, <3>3 DEF TypeOK
    <3>5. QED
      BY <2>3, <3>4 DEF EditObject, Edit, remote, children, TypeOK
  <2>4. CASE DeleteObject(p)
    BY <2>1, <2>4 DEF DeleteObject, remote, children, world, TypeOK, Object
  <2>5. QED
    BY <1>1, <2>2, <2>3, <2>4
<1>2. ASSUME NEW t \in Tunnels, RemoveTunnel(t)
      PROVE  /\ tunnels' \in [Tunnels -> Tunnel] /\ edits' \in Nat
             /\ UNCHANGED <<api, cache, work, cidrs, secret, deployed, provider, valid,
                            address, faults>>
  BY <1>2 DEF RemoveTunnel, Edit, children, TypeOK, Tunnel, RemoteStates
<1>3. ASSUME NEW i \in Cidrs, RemoveCidr(i)
      PROVE  /\ cidrs' \in [Cidrs -> Cidr] /\ edits' \in Nat
             /\ \A j \in Cidrs : /\ cidrs'[j].owner = cidrs[j].owner
                                 /\ cidrs'[j].network = cidrs[j].network
                                 /\ cidrs'[j].tunnel = cidrs[j].tunnel
             /\ UNCHANGED <<api, cache, work, tunnels, secret, deployed, provider, valid,
                            address, faults>>
  BY <1>3 DEF RemoveCidr, Edit, children, TypeOK, Cidr, RemoteStates
<1>4. ASSUME NEW n \in Networks, AddCidr(n)
      PROVE  /\ cidrs' \in [Cidrs -> Cidr] /\ edits' \in Nat
             /\ \A j \in Cidrs : \/ cidrs'[j] = cidrs[j]
                                 \/ cidrs'[j].owner = Outsider
             /\ UNCHANGED <<api, cache, work, tunnels, secret, deployed, provider, valid,
                            address, faults>>
  <2> DEFINE i == CHOOSE j \in {k \in Cidrs : cidrs[k].state = "unused"} : TRUE
  <2>1. PICK t \in Tunnels \cup {None} :
          cidrs' = [cidrs EXCEPT ![i] = [state |-> "live", owner |-> Outsider,
                                         network |-> n, tunnel |-> t]]
    BY <1>4 DEF AddCidr
  <2> HIDE DEF i
  <2>2. [state |-> "live", owner |-> Outsider, network |-> n, tunnel |-> t] \in Cidr
    BY DEF Cidr, RemoteStates
  <2>3. cidrs' \in [Cidrs -> Cidr] /\ \A j \in Cidrs : cidrs'[j] = cidrs[j] \/ cidrs'[j].owner = Outsider
    BY <2>1, <2>2 DEF TypeOK
  <2>4. QED
    BY <1>4, <2>3 DEF AddCidr, Edit, children, TypeOK
<1>5. ASSUME NEW p \in Routes, ChangeValid(p)
      PROVE  /\ valid' \in [Routes -> BOOLEAN] /\ edits' \in Nat
             /\ UNCHANGED <<api, cache, work, tunnels, cidrs, secret, deployed, provider,
                            address, faults>>
  BY <1>5 DEF ChangeValid, Edit, remote, children, TypeOK
<1>6. ASSUME NEW n \in Providers, ChangeProvider(n)
      PROVE  /\ provider' \in [Providers -> ProviderStates] /\ edits' \in Nat
             /\ UNCHANGED <<api, cache, work, tunnels, cidrs, secret, deployed, valid,
                            address, faults>>
  BY <1>6 DEF ChangeProvider, Edit, remote, children, TypeOK
<1>7. ASSUME NEW s \in Services, ChangeAddress(s)
      PROVE  /\ address' \in [Services -> Networks \cup {None}] /\ edits' \in Nat
             /\ UNCHANGED <<api, cache, work, tunnels, cidrs, secret, deployed, provider,
                            valid, faults>>
  BY <1>7 DEF ChangeAddress, Edit, remote, children, TypeOK
<1>8. CASE \E p \in Routes : CreateObject(p) \/ EditObject(p) \/ DeleteObject(p)
  BY <1>1, <1>8 DEF TypeOK, children
<1>9. CASE (\E t \in Tunnels : RemoveTunnel(t)) \/ (\E i \in Cidrs : RemoveCidr(i))
  BY <1>2, <1>3, <1>9 DEF TypeOK, children
<1>10. CASE \E n \in Networks : AddCidr(n)
  BY <1>4, <1>10, NoneAssumption DEF TypeOK, children
<1>11. CASE \/ \E p \in Routes : ChangeValid(p)
            \/ \E n \in Providers : ChangeProvider(n)
            \/ \E s \in Services : ChangeAddress(s)
  BY <1>5, <1>6, <1>7, <1>11 DEF TypeOK, children
<1>12. QED
  BY <1>8, <1>9, <1>10, <1>11 DEF Others

\* Types and control are inductive.
LEMMA NextType == TypeOK /\ Control /\ [Next]_vars => TypeOK' /\ Control'
<1>1. SUFFICES ASSUME TypeOK, Control, [Next]_vars PROVE TypeOK' /\ Control'
  OBVIOUS
<1>2. CASE Others
  BY <1>1, <1>2, OthersType DEF Control, Aim
<1>3. CASE UNCHANGED vars
  BY <1>1, <1>3 DEF vars, TypeOK, Control, Aim
<1>4. QED
  BY <1>1, <1>2, <1>3, StepType, ManagerType DEF Next

\* Every variable has its type, and a route made for an object leads a network
\* to a tunnel: ensureRoute runs with what validate and ensureTunnel found.
THEOREM TypeCorrect == Spec => []TypeOK
<1>1. Spec => [](TypeOK /\ Control)
  BY InitType, NextType, PTL DEF Spec
<1>2. QED
  BY <1>1, PTL

-----------------------------------------------------------------------------
(* What a step of the pass writes.                                         *)

\* A pass writes the object it is about: its status, or its finalizer.
SameSpec ==
  /\ api'[P].phase = api[P].phase /\ api'[P].finalizer = api[P].finalizer
  /\ api'[P].gen = api[P].gen /\ api'[P].policy = api[P].policy
  /\ api'[P].service = api[P].service
  /\ api' = api \/ Exists(P)
SameStatus == /\ api'[P].tunnel = api[P].tunnel /\ api'[P].route = api[P].route
              /\ api'[P].network = api[P].network /\ api'[P].policy = api[P].policy
Guards == /\ At("addFinalizer") /\ api[P] = Obj /\ SameStatus
          /\ api'[P].phase = api[P].phase /\ api'[P].finalizer = TRUE
Frees  == /\ At("finRemove") /\ api[P] = Obj /\ SameStatus
          /\ api'[P].phase = "gone" /\ api'[P].finalizer = FALSE

\* What it may change of the status.
Links == /\ api'[P].tunnel # api[P].tunnel =>
              \/ At("record") /\ api'[P].tunnel = work.tunnel
              \/ At("clear") /\ work.after = "find" /\ api'[P].tunnel = None
         /\ api'[P].route # api[P].route =>
              \/ At("recordRoute") /\ api'[P].route = work.id
              \/ At("clear") /\ api'[P].route = None
         /\ api'[P].network # api[P].network =>
              \/ (At("persist") \/ At("recordRoute")) /\ api'[P].network = work.network
              \/ At("clear") /\ api'[P].network = None

\* The objects in the API server.
LEMMA ObjectWrites ==
  ASSUME TypeOK, Control, Step
  PROVE  /\ cache' = cache /\ UNCHANGED world
         /\ \A p \in Routes \ {P} : api'[p] = api[p]
         /\ SameSpec \/ Guards \/ Frees
         /\ Links
<1>1. cache' = cache /\ UNCHANGED world
  BY DEF Step, AddFinalizer, Validate, DeleteRoute, Clear, EnsureTunnel, GetTunnel, Find,
         CreateTunnel, RecordTunnel, EnsureRoute, GetRoute, ListRoutes, Persist, CreateRoute,
         RecordRoute, Connect, WriteSecret, WriteDeployment, WriteResources, WriteStatus, Fail,
         Finalize, FinRoute, FinDeploy, FinSecret, FinTunnel, FinRemove
<1>2. CASE UNCHANGED api
  BY <1>1, <1>2 DEF SameSpec, Links
<1>3. ASSUME NEW new \in Object, NEW r \in Results, UpdateObject(new, r), api' # api
      PROVE  api[P] = Obj /\ api' = [api EXCEPT ![P] = new]
  BY <1>3 DEF UpdateObject, Applied
<1>4. CASE AddFinalizer /\ api' # api
  <2> DEFINE g == [Obj EXCEPT !.finalizer = TRUE]
  <2>1. /\ g \in Object /\ g.finalizer = TRUE /\ g.phase = Obj.phase /\ g.policy = Obj.policy
        /\ g.tunnel = Obj.tunnel /\ g.route = Obj.route /\ g.network = Obj.network
    BY Fields DEF Object
  <2>2. \E r \in Results : UpdateObject(g, r)
    BY <1>4 DEF AddFinalizer
  <2> HIDE DEF g
  <2>3. api[P] = Obj /\ api' = [api EXCEPT ![P] = g]
    BY <1>3, <1>4, <2>1, <2>2
  <2>4. Guards /\ Links /\ \A p \in Routes \ {P} : api'[p] = api[p]
    BY <1>4, <2>1, <2>3, Fields DEF AddFinalizer, Guards, SameStatus, Links, TypeOK
  <2>5. QED
    BY <1>1, <2>4
<1>5. CASE FinRemove /\ api' # api
  <2> DEFINE g == [Obj EXCEPT !.finalizer = FALSE, !.phase = "gone"]
  <2>1. /\ g \in Object /\ g.finalizer = FALSE /\ g.phase = "gone" /\ g.policy = Obj.policy
        /\ g.tunnel = Obj.tunnel /\ g.route = Obj.route /\ g.network = Obj.network
    BY Fields DEF Object
  <2>2. \E r \in Results : UpdateObject(g, r)
    BY <1>5 DEF FinRemove
  <2> HIDE DEF g
  <2>3. api[P] = Obj /\ api' = [api EXCEPT ![P] = g]
    BY <1>3, <1>5, <2>1, <2>2
  <2>4. Frees /\ Links /\ \A p \in Routes \ {P} : api'[p] = api[p]
    BY <1>5, <2>1, <2>3, Fields DEF FinRemove, Frees, SameStatus, Links, TypeOK
  <2>5. QED
    BY <1>1, <2>4
<1>6. CASE Clear
  <2> DEFINE f == [Obj EXCEPT !.route = None, !.network = None,
                      !.tunnel = IF work.after = "find" THEN None ELSE @]
  <2>1. /\ f \in Object /\ f.route = None /\ f.network = None
        /\ f.tunnel = IF work.after = "find" THEN None ELSE Obj.tunnel
    BY Fields DEF Object
  <2>2. PICK r \in Results : PatchStatus(f, r, work.after)
    BY <1>6 DEF Clear
  <2> HIDE DEF f
  <2>3. SameSpec /\ Links /\ \A p \in Routes \ {P} : api'[p] = api[p]
    <3>1. PICK pc \in Steps : pc = work.after
      BY Fields
    <3>2. QED
      BY <1>6, <2>1, <2>2, <3>1, Patches DEF Clear, SameSpec, Links
  <2>4. QED
    BY <1>1, <2>3
<1>7. CASE RecordTunnel
  <2> DEFINE new == [Obj EXCEPT !.tunnel = work.tunnel]
             m   == Merged(Obj, new)
  <2>1. new \in Object /\ new.tunnel = work.tunnel /\ new.route = Obj.route /\ new.network = Obj.network
    BY Fields DEF Object
  <2>2. api' = api \/ (Exists(P) /\ api' = [api EXCEPT ![P] = m])
    BY <1>7 DEF RecordTunnel, Applied
  <2> HIDE DEF new
  <2>3. /\ m.phase = api[P].phase /\ m.finalizer = api[P].finalizer
        /\ m.gen = api[P].gen /\ m.policy = api[P].policy /\ m.service = api[P].service
        /\ m.route = api[P].route /\ m.network = api[P].network
        /\ m.tunnel \in {api[P].tunnel, work.tunnel}
    BY <2>1, Fields, Merges
  <2> HIDE DEF m
  <2>4. SameSpec /\ Links /\ \A p \in Routes \ {P} : api'[p] = api[p]
    BY <1>7, <2>2, <2>3, Fields DEF RecordTunnel, SameSpec, Links, TypeOK
  <2>5. QED
    BY <1>1, <2>4
<1>8. CASE Persist
  <2> DEFINE new == [Obj EXCEPT !.network = work.network]
  <2>1. /\ new \in Object /\ new.tunnel = Obj.tunnel /\ new.route = Obj.route
        /\ new.network = work.network
    BY Fields DEF Object
  <2>2. PICK r \in Results : PatchStatus(new, r, "createRoute")
    BY <1>8 DEF Persist
  <2> HIDE DEF new
  <2>3. SameSpec /\ Links /\ \A p \in Routes \ {P} : api'[p] = api[p]
    BY <1>8, <2>1, <2>2, Patches DEF Persist, SameSpec, Links, Steps
  <2>4. QED
    BY <1>1, <2>3
<1>9. CASE RecordRoute
  <2> DEFINE new == [Obj EXCEPT !.route = work.id, !.network = work.network]
  <2>1. /\ new \in Object /\ new.tunnel = Obj.tunnel
        /\ new.route = work.id /\ new.network = work.network
    BY Fields DEF Object
  <2>2. PICK r \in Results : PatchStatus(new, r, "secret")
    BY <1>9 DEF RecordRoute
  <2> HIDE DEF new
  <2>3. SameSpec /\ Links /\ \A p \in Routes \ {P} : api'[p] = api[p]
    BY <1>9, <2>1, <2>2, Patches DEF RecordRoute, SameSpec, Links, Steps
  <2>4. QED
    BY <1>1, <2>3
<1>10. ASSUME NEW new \in Object, NEW r \in Results, NEW pc \in Steps, PatchStatus(new, r, pc),
              new.tunnel = Obj.tunnel, new.route = Obj.route, new.network = Obj.network
       PROVE  SameSpec /\ Links /\ \A p \in Routes \ {P} : api'[p] = api[p]
  BY <1>10, Patches DEF SameSpec, Links
<1>11. CASE WriteResources
  <2>1. PICK r \in Results : PatchStatus(Obj, r, "status")
    BY <1>11 DEF WriteResources
  <2>2. QED
    BY <1>1, <1>10, <2>1, Fields DEF Steps
<1>12. CASE WriteStatus
  <2> DEFINE cond == [accepted   |-> IF work.accepted THEN "True" ELSE "False",
                      programmed |-> IF Obj.route # None THEN "True" ELSE "False",
                      gen        |-> Obj.gen]
             new  == [Obj EXCEPT !.cond = cond]
  <2>1. cond \in Conditions
    BY Fields DEF Conditions, Object
  <2>2. PICK r \in Results : PatchStatus(new, r, "idle")
    BY <1>12 DEF WriteStatus
  <2> HIDE DEF cond
  <2>3. /\ new \in Object /\ new.tunnel = Obj.tunnel /\ new.route = Obj.route
        /\ new.network = Obj.network
    BY <2>1, Fields DEF Object
  <2>4. QED
    BY <1>1, <1>10, <2>2, <2>3 DEF Steps
<1>13. CASE Fail
  <2> DEFINE base == cache[P]
             new  == [base EXCEPT !.cond.programmed = "Unknown", !.cond.gen = base.gen]
             m    == Merged(base, new)
  <2>1. /\ new \in Object /\ new.tunnel = base.tunnel /\ new.route = base.route
        /\ new.network = base.network
    BY Fields DEF Object, Conditions
  <2>2. api' = api \/ (Exists(P) /\ api' = [api EXCEPT ![P] = m])
    BY <1>13 DEF Fail, Applied
  <2> HIDE DEF new
  <2>3. /\ m.phase = api[P].phase /\ m.finalizer = api[P].finalizer
        /\ m.gen = api[P].gen /\ m.policy = api[P].policy /\ m.service = api[P].service
        /\ m.route = api[P].route /\ m.network = api[P].network /\ m.tunnel = api[P].tunnel
    BY <2>1, Fields, Merges
  <2> HIDE DEF m
  <2>4. SameSpec /\ Links /\ \A p \in Routes \ {P} : api'[p] = api[p]
    BY <2>2, <2>3, Fields DEF SameSpec, Links, TypeOK
  <2>5. QED
    BY <1>1, <2>4
<1>14. QED
  BY <1>2, <1>4, <1>5, <1>6, <1>7, <1>8, <1>9, <1>11, <1>12, <1>13
  DEF Step, Validate, DeleteRoute, EnsureTunnel, GetTunnel, Find, CreateTunnel, EnsureRoute,
      GetRoute, ListRoutes, CreateRoute, Connect, WriteSecret, WriteDeployment, Finalize,
      FinRoute, FinDeploy, FinSecret, FinTunnel

\* What it makes and deletes in Cloudflare.
Makes(t) == /\ At("create") /\ tunnels[t].state = "unused"
            /\ tunnels' = [tunnels EXCEPT ![t] = [state |-> "live", owner |-> P]]
Drops    == /\ At("finTunnel") /\ Obj.policy = "Delete" /\ Live(Obj.tunnel)
            /\ tunnels' = [tunnels EXCEPT ![Obj.tunnel].state = "deleted"]
Opens(i) == /\ At("createRoute") /\ CidrsFor(work.network) = {} /\ Live(work.tunnel)
            /\ cidrs[i].state = "unused"
            /\ cidrs' = [cidrs EXCEPT ![i] = [state |-> "live", owner |-> P,
                           network |-> work.network, tunnel |-> work.tunnel]]
Closes   == /\ At("deleteRoute")
            /\ cidrs' \in [Cidrs -> Cidr]
            /\ \A i \in Cidrs :
                 cidrs'[i] # cidrs[i] =>
                   /\ Routed(i) /\ cidrs[i].owner = P
                   /\ cidrs'[i].state = "deleted" /\ cidrs'[i].owner = P
                   /\ cidrs'[i].network = cidrs[i].network /\ cidrs'[i].tunnel = cidrs[i].tunnel

\* ensureTunnel and finalize alone write tunnels.
LEMMA TunnelWrites ==
  ASSUME TypeOK, Step
  PROVE  tunnels' = tunnels \/ (\E t \in Tunnels : Makes(t)) \/ Drops
<1>1. CASE CreateTunnel
  <2>1. PICK t \in {u \in Tunnels : tunnels[u].state = "unused"}, r \in Results :
          tunnels' = IF Applied(r)
            THEN [tunnels EXCEPT ![t] = [state |-> "live", owner |-> P]] ELSE tunnels
    BY <1>1 DEF CreateTunnel
  <2>2. QED
    BY <1>1, <2>1 DEF CreateTunnel, Makes
<1>2. CASE FinTunnel
  BY <1>2 DEF FinTunnel, Drops
<1>3. QED
  BY <1>1, <1>2
  DEF Step, AddFinalizer, Validate, DeleteRoute, Clear, EnsureTunnel, GetTunnel, Find,
      RecordTunnel, EnsureRoute, GetRoute, ListRoutes, Persist, CreateRoute, RecordRoute,
      Connect, WriteSecret, WriteDeployment, WriteResources, WriteStatus, Fail, Finalize,
      FinRoute, FinDeploy, FinSecret, FinRemove, remote

\* ensureRoute and deleteRoute alone write routes, and delete only their own.
LEMMA CidrWrites ==
  ASSUME TypeOK, Step
  PROVE  cidrs' = cidrs \/ (\E i \in Cidrs : Opens(i)) \/ Closes
<1>1. CASE CreateRoute
  <2>1. PICK i \in {j \in Cidrs : cidrs[j].state = "unused"}, r \in Results :
          /\ CloudflareCall(CidrsFor(work.network) = {} /\ Live(work.tunnel), r)
          /\ cidrs' = IF Applied(r)
               THEN [cidrs EXCEPT ![i] = [state |-> "live", owner |-> P,
                       network |-> work.network, tunnel |-> work.tunnel]]
               ELSE cidrs
    BY <1>1 DEF CreateRoute
  <2>2. Applied(r) => CidrsFor(work.network) = {} /\ Live(work.tunnel)
    BY <2>1, Calls DEF Applied, Live
  <2>3. QED
    BY <1>1, <2>1, <2>2 DEF CreateRoute, Opens
<1>2. CASE DeleteRoute
  <2> DEFINE targets  == IF Obj.route # None THEN {Obj.route} \cap CidrsFor(Obj.network)
                         ELSE {i \in CidrsFor(Obj.network) : PrivateOwned(i)}
             mismatch == /\ Routed(Obj.route)
                         /\ ~PrivateOwned(Obj.route) \/ cidrs[Obj.route].network # Obj.network
  <2>1. PICK r \in Results, usable \in BOOLEAN :
          /\ CloudflareCall(usable /\ ~mismatch, r)
          /\ cidrs' = IF Applied(r)
                THEN [i \in Cidrs |-> IF i \in targets
                        THEN [cidrs[i] EXCEPT !.state = "deleted"] ELSE cidrs[i]]
                ELSE cidrs
    BY <1>2 DEF DeleteRoute
  <2>2. Applied(r) => ~mismatch
    BY <2>1, Calls DEF Applied, Routed
  <2>3. ASSUME Applied(r), NEW i \in targets
        PROVE  Routed(i) /\ cidrs[i].owner = P
    BY <2>2, <2>3 DEF CidrsFor, PrivateOwned
  <2>4. cidrs' \in [Cidrs -> Cidr]
    BY <2>1 DEF TypeOK, Cidr, RemoteStates
  <2> HIDE DEF targets, mismatch
  <2>5. \A i \in Cidrs : cidrs'[i] # cidrs[i] =>
          /\ Applied(r) /\ i \in targets /\ cidrs[i] \in Cidr
          /\ cidrs'[i] = [cidrs[i] EXCEPT !.state = "deleted"]
    BY <2>1 DEF TypeOK
  <2>6. Closes
    BY <1>2, <2>3, <2>4, <2>5 DEF DeleteRoute, Closes, Cidr
  <2>7. QED
    BY <2>6
<1>3. QED
  BY <1>1, <1>2
  DEF Step, AddFinalizer, Validate, Clear, EnsureTunnel, GetTunnel, Find, CreateTunnel,
      RecordTunnel, EnsureRoute, GetRoute, ListRoutes, Persist, RecordRoute, Connect,
      WriteSecret, WriteDeployment, WriteResources, WriteStatus, Fail, Finalize, FinRoute,
      FinDeploy, FinSecret, FinTunnel, FinRemove, remote

\* The connector of the object.
LEMMA ChildWrites ==
  ASSUME TypeOK, Step
  PROVE  /\ \A p \in Routes \ {P} : secret'[p] = secret[p] /\ deployed'[p] = deployed[p]
         /\ ~At("secret") => secret'[P] \in {secret[P], None}
         /\ ~At("deploy") => (deployed'[P] => deployed[P])
BY Fields
DEF TypeOK, Step, AddFinalizer, Validate, DeleteRoute, Clear, EnsureTunnel, GetTunnel, Find,
    CreateTunnel, RecordTunnel, EnsureRoute, GetRoute, ListRoutes, Persist, CreateRoute,
    RecordRoute, Connect, WriteSecret, WriteDeployment, WriteResources, WriteStatus, Fail,
    Finalize, FinRoute, FinDeploy, FinSecret, FinTunnel, FinRemove, children, At

\* Only the owner of a network is added to the account by others, and only an
\* identifier that was never used.
LEMMA OthersCidrs ==
  ASSUME TypeOK, Others
  PROVE  /\ cidrs' \in [Cidrs -> Cidr]
         /\ \A i \in Cidrs :
              cidrs'[i] # cidrs[i] =>
                \/ /\ Routed(i) /\ cidrs'[i].state = "removed"
                   /\ cidrs'[i].owner = cidrs[i].owner /\ cidrs'[i].tunnel = cidrs[i].tunnel
                   /\ cidrs'[i].network = cidrs[i].network
                \/ /\ cidrs[i].state = "unused" /\ cidrs'[i].state = "live"
                   /\ cidrs'[i].owner = Outsider /\ CidrsFor(cidrs'[i].network) = {}
                   /\ \A j \in Cidrs \ {i} : cidrs'[j] = cidrs[j]
<1>1. CASE cidrs' = cidrs
  BY <1>1 DEF TypeOK
<1>2. ASSUME NEW i \in Cidrs, RemoveCidr(i)
      PROVE  cidrs' = [cidrs EXCEPT ![i].state = "removed"] /\ Routed(i)
  BY <1>2 DEF RemoveCidr
<1>3. CASE \E i \in Cidrs : RemoveCidr(i)
  BY <1>2, <1>3 DEF TypeOK, Cidr, RemoteStates
<1>4. CASE \E n \in Networks : AddCidr(n)
  <2> DEFINE unused == {k \in Cidrs : cidrs[k].state = "unused"}
             i == CHOOSE j \in unused : TRUE
  <2>1. PICK n \in Networks, t \in Tunnels \cup {None} :
          /\ Cardinality(unused) > 1 /\ CidrsFor(n) = {}
          /\ cidrs' = [cidrs EXCEPT ![i] = [state |-> "live", owner |-> Outsider,
                                            network |-> n, tunnel |-> t]]
    BY <1>4 DEF AddCidr
  <2> HIDE DEF unused
  <2>2. unused # {}
    BY <2>1, FS_EmptySet
  <2>3. i \in unused
    BY <2>2
  <2> HIDE DEF i
  <2>4. [state |-> "live", owner |-> Outsider, network |-> n, tunnel |-> t] \in Cidr
    BY DEF Cidr, RemoteStates
  <2>5. QED
    BY <2>1, <2>3, <2>4 DEF TypeOK, unused
<1>5. QED
  BY <1>1, <1>3, <1>4
  DEF Others, CreateObject, EditObject, DeleteObject, ChangeValid, ChangeProvider,
      ChangeAddress, RemoveTunnel, remote

\* What others do to tunnels and objects.
LEMMA OthersWrites ==
  ASSUME TypeOK, Others
  PROVE  /\ \A t \in Tunnels : /\ tunnels'[t].owner = tunnels[t].owner
                               /\ \/ tunnels'[t].state = tunnels[t].state
                                  \/ Live(t) /\ tunnels'[t].state = "removed"
         /\ \A p \in Routes :
              /\ api'[p].finalizer = api[p].finalizer /\ api'[p].tunnel = api[p].tunnel
              /\ api'[p].route = api[p].route /\ api'[p].network = api[p].network
              /\ \/ api'[p].phase = api[p].phase
                 \/ api[p].phase = "absent" /\ api'[p].phase = "live"
                 \/ /\ api[p].phase = "live"
                    /\ api'[p].phase = IF api[p].finalizer THEN "deleting" ELSE "gone"
              /\ api'[p].policy = api[p].policy \/ api'[p].phase \in {"live", "deleting"}
<1>1. ASSUME NEW p \in Routes, CreateObject(p)
      PROVE  /\ \A q \in Routes \ {p} : api'[q] = api[q]
             /\ api'[p].finalizer = api[p].finalizer /\ api'[p].tunnel = api[p].tunnel
             /\ api'[p].route = api[p].route /\ api'[p].network = api[p].network
             /\ api[p].phase = "absent" /\ api'[p].phase = "live"
  BY <1>1 DEF CreateObject, TypeOK, Object
<1>2. ASSUME NEW p \in Routes, EditObject(p)
      PROVE  /\ \A q \in Routes \ {p} : api'[q] = api[q]
             /\ api'[p].finalizer = api[p].finalizer /\ api'[p].tunnel = api[p].tunnel
             /\ api'[p].route = api[p].route /\ api'[p].network = api[p].network
             /\ api'[p].phase = api[p].phase /\ Exists(p)
  BY <1>2 DEF EditObject, TypeOK, Object
<1>3. ASSUME NEW p \in Routes, DeleteObject(p)
      PROVE  /\ \A q \in Routes \ {p} : api'[q] = api[q]
             /\ api'[p].finalizer = api[p].finalizer /\ api'[p].tunnel = api[p].tunnel
             /\ api'[p].route = api[p].route /\ api'[p].network = api[p].network
             /\ api[p].phase = "live" /\ api'[p].policy = api[p].policy
             /\ api'[p].phase = IF api[p].finalizer THEN "deleting" ELSE "gone"
  BY <1>3 DEF DeleteObject, TypeOK, Object
<1>4. CASE \E p \in Routes : CreateObject(p) \/ EditObject(p) \/ DeleteObject(p)
  <2>1. tunnels' = tunnels
    BY <1>4 DEF CreateObject, EditObject, DeleteObject, remote
  <2>2. CASE \E p \in Routes : CreateObject(p)
    BY <1>1, <2>1, <2>2
  <2>3. CASE \E p \in Routes : EditObject(p)
    BY <1>2, <2>1, <2>3 DEF Exists
  <2>4. CASE \E p \in Routes : DeleteObject(p)
    BY <1>3, <2>1, <2>4
  <2>5. QED
    BY <1>4, <2>2, <2>3, <2>4
<1>5. CASE \E t \in Tunnels : RemoveTunnel(t)
  BY <1>5 DEF RemoveTunnel, TypeOK, Tunnel, Live
<1>6. QED
  BY <1>4, <1>5
  DEF Others, ChangeValid, ChangeProvider, ChangeAddress, RemoveCidr, AddCidr, remote

\* deleteRoute deletes only routes whose comment names the object of the pass.
THEOREM DeletesOwnRoutes == Spec => OwnRoutesOnly
<1>1. ASSUME TypeOK, [Next]_vars
      PROVE  [\A i \in Cidrs :
                cidrs[i].state = "live" /\ cidrs'[i].state = "deleted"
                  => cidrs[i].owner = work.p]_vars
  <2>1. SUFFICES ASSUME NEW i \in Cidrs, cidrs[i].state = "live", cidrs'[i].state = "deleted", Next
                 PROVE  cidrs[i].owner = work.p
    BY <1>1
  <2>2. CASE Step
    BY <1>1, <2>1, <2>2, CidrWrites DEF Opens, Closes, TypeOK, P
  <2>3. CASE Others
    BY <1>1, <2>1, <2>3, OthersCidrs
  <2>4. CASE Crash \/ \E p \in Routes : Start(p) \/ Deliver(p)
    BY <2>1, <2>4 DEF Crash, Start, Deliver, remote
  <2>5. QED
    BY <2>1, <2>2, <2>3, <2>4 DEF Next
<1>2. QED
  BY <1>1, TypeCorrect, PTL DEF Spec, OwnRoutesOnly

-----------------------------------------------------------------------------
(* Where a step of the pass goes when it does not end the pass.            *)

\* The rest of the pass's local state stays.
Keeps == work'.p = work.p /\ work'.obj = work.obj /\ work'.network = work.network
Reads == /\ work'.p = work.p /\ work'.obj = api'[P] /\ work'.network = work.network
         /\ work'.tunnel = work.tunnel /\ Exists(P)

\* After deleteRoute, all that the recorded identifier, or else the network and
\* the comment, pointed to.
Emptied ==
  /\ Routed(Obj.route) => PrivateOwned(Obj.route) /\ cidrs[Obj.route].network = Obj.network
  /\ \A i \in CidrsFor(Obj.network) :
       i = Obj.route \/ (Obj.route = None /\ PrivateOwned(i)) => cidrs'[i].state = "deleted"

OpeningMoves ==
  \/ /\ At("validate") /\ work'.p = work.p /\ work'.obj = work.obj /\ work'.tunnel = work.tunnel
     /\ work'.pc \in {"getTunnel", "deleteRoute", "status"}
     /\ work'.pc = "deleteRoute" => work'.after = "status"
  \/ /\ At("deleteRoute") /\ Keeps /\ work'.tunnel = work.tunnel
     /\ work'.pc = "clear" /\ work'.after = work.after /\ Emptied
  \/ /\ At("clear") /\ Reads /\ work'.pc = work.after
     /\ Obj.route # None => api'[P].route = None
     /\ Obj.network # None => api'[P].network = None
     /\ Obj.tunnel # None /\ work.after = "find" => api'[P].tunnel = None

TunnelMoves ==
  \/ /\ At("getTunnel") /\ Keeps
     /\ \/ work'.pc = "find" /\ work'.tunnel = work.tunnel /\ Obj.tunnel = None
        \/ work'.pc = "record" /\ work'.tunnel = Obj.tunnel /\ Live(Obj.tunnel)
        \/ /\ work'.pc = IF Obj.network # None THEN "deleteRoute" ELSE "clear"
           /\ work'.after = "find" /\ work'.tunnel = work.tunnel /\ Obj.tunnel # None
  \/ /\ At("find") /\ Keeps
     /\ \/ work'.pc = "record" /\ work'.tunnel \in TunnelsOf(P)
        \/ work'.pc = "create" /\ work'.tunnel = work.tunnel /\ TunnelsOf(P) = {}
  \/ /\ At("create") /\ Keeps /\ work'.pc = "record"
     /\ work'.tunnel \in Tunnels /\ Makes(work'.tunnel)
  \/ /\ At("record") /\ Reads /\ work'.after = "getRoute"
     /\ work'.pc = IF api'[P].network \notin {None, work.network} THEN "deleteRoute"
                   ELSE "getRoute"
     /\ api'[P].tunnel = IF work.tunnel # Obj.tunnel THEN work.tunnel ELSE api[P].tunnel

RouteMoves ==
  \/ /\ At("getRoute") /\ Keeps /\ work'.tunnel = work.tunnel
     /\ \/ work'.pc = "list" /\ Obj.route = None
        \/ work'.pc = "clear" /\ work'.after = "list" /\ Obj.route # None /\ ~Routed(Obj.route)
        \/ work'.pc = "secret"
  \/ /\ At("list") /\ Keeps /\ work'.tunnel = work.tunnel
     /\ \/ /\ work'.pc \in {"createRoute", "persist"} /\ CidrsFor(work.network) = {}
           /\ work'.pc = "createRoute" <=> Obj.network = work.network
        \/ work'.pc = "recordRoute" /\ work'.id \in CidrsFor(work.network) /\ PrivateOwned(work'.id)
  \/ /\ At("persist") /\ Reads /\ work'.pc = "createRoute"
     /\ api'[P].network = IF work.network # Obj.network THEN work.network ELSE api[P].network
  \/ /\ At("createRoute") /\ Keeps /\ work'.tunnel = work.tunnel
     /\ work'.pc = "recordRoute" /\ work'.id \in Cidrs /\ Opens(work'.id)
  \/ At("recordRoute") /\ Reads /\ work'.pc = "secret"

ConnectMoves ==
  /\ work'.p = work.p /\ work'.tunnel = work.tunnel /\ work'.network = work.network
  /\ work'.obj = work.obj \/ work'.obj = api'[P]
  /\ \/ At("secret") /\ work'.pc = "deploy" /\ work'.obj = work.obj
     \/ At("deploy") /\ work'.pc = "resources" /\ work'.obj = work.obj
     \/ At("resources") /\ work'.pc = "status" /\ work'.obj = api'[P]

FinalMoves ==
  /\ work'.p = work.p /\ work'.tunnel = work.tunnel /\ work'.obj = work.obj
  /\ \/ /\ At("finRoute")
        /\ \/ work'.pc = "deleteRoute" /\ work'.after = "finDeploy" /\ Obj.network # None
           \/ work'.pc = "finDeploy" /\ (Obj.policy = "Delete" => Obj.network = None)
     \/ At("finDeploy") /\ work'.pc = "finSecret" /\ ~deployed'[P]
     \/ At("finSecret") /\ work'.pc = "finTunnel" /\ secret'[P] = None
     \/ /\ At("finTunnel") /\ work'.pc = "finRemove"
        /\ Obj.policy = "Delete" /\ Obj.tunnel \in Tunnels =>
             tunnels'[Obj.tunnel].state # "live"

\* Up to the network that validate finds, and where a route is removed.
LEMMA OpensAndMoves ==
  ASSUME TypeOK, Control, AddFinalizer \/ Validate \/ DeleteRoute \/ Clear
  PROVE  Stops \/ OpeningMoves
<1>1. CASE AddFinalizer
  <2>1. PICK r \in Results : GotoIf(r, "idle")
    BY <1>1 DEF AddFinalizer, UpdateObject
  <2>2. QED
    BY <2>1, Goes, Values DEF Continues, Stops, Steps
<1>2. CASE Validate
  <2>1. work' \in {[work EXCEPT !.pc = "getTunnel", !.accepted = TRUE,
                                !.network = address[Obj.service]],
                   [work EXCEPT !.pc = "deleteRoute", !.after = "status"],
                   [work EXCEPT !.pc = "status", !.after = "status"]}
    BY <1>2 DEF Validate
  <2>2. QED
    BY <1>2, <2>1, Fields DEF Validate, OpeningMoves, Worker
<1>3. CASE DeleteRoute
  <2> DEFINE targets  == IF Obj.route # None THEN {Obj.route} \cap CidrsFor(Obj.network)
                         ELSE {i \in CidrsFor(Obj.network) : PrivateOwned(i)}
             mismatch == /\ Routed(Obj.route)
                         /\ ~PrivateOwned(Obj.route) \/ cidrs[Obj.route].network # Obj.network
  <2>1. PICK r \in Results, usable \in BOOLEAN :
          /\ CloudflareCall(usable /\ ~mismatch, r)
          /\ cidrs' = IF Applied(r)
                THEN [i \in Cidrs |-> IF i \in targets
                        THEN [cidrs[i] EXCEPT !.state = "deleted"] ELSE cidrs[i]]
                ELSE cidrs
          /\ GotoIf(r, "clear")
    BY <1>3 DEF DeleteRoute
  <2>2. CASE r = "ok"
    <3>1. Routed(Obj.route) =>
            PrivateOwned(Obj.route) /\ cidrs[Obj.route].network = Obj.network
      <4>1. Applied(r) => ~mismatch
        BY <2>1, Calls DEF Applied, Routed
      <4>2. Applied(r)
        BY <2>2 DEF Applied
      <4>3. QED
        BY <4>1, <4>2
    <3>2. \A i \in targets : cidrs'[i].state = "deleted"
      BY <2>1, <2>2 DEF Applied, CidrsFor, TypeOK, Cidr
    <3>3. Emptied
      <4>1. ASSUME NEW i \in CidrsFor(Obj.network),
                   i = Obj.route \/ (Obj.route = None /\ PrivateOwned(i))
            PROVE  i \in targets
        BY <4>1, NoneAssumption DEF CidrsFor
      <4> HIDE DEF targets
      <4>2. QED
        BY <3>1, <3>2, <4>1 DEF Emptied
    <3> HIDE DEF targets, mismatch
    <3>4. Continues("clear")
      BY <2>1, <2>2, Goes DEF Steps
    <3>5. QED
      BY <1>3, <3>3, <3>4 DEF DeleteRoute, Continues, OpeningMoves, Keeps
  <2>3. CASE r # "ok"
    BY <2>1, <2>3, Goes DEF Steps
  <2>4. QED
    BY <2>2, <2>3
<1>4. CASE Clear
  <2> DEFINE f == [Obj EXCEPT !.route = None, !.network = None,
                      !.tunnel = IF work.after = "find" THEN None ELSE @]
  <2>1. /\ f \in Object /\ f.route = None /\ f.network = None
        /\ f.tunnel = IF work.after = "find" THEN None ELSE Obj.tunnel
    BY Fields DEF Object
  <2>2. PICK r \in Results : PatchStatus(f, r, work.after)
    BY <1>4 DEF Clear
  <2> HIDE DEF f
  <2>3. PICK pc \in Steps : pc = work.after /\ pc # "idle"
    BY <1>4, Fields DEF Clear, At, Control, Removing
  <2>4. QED
    BY <1>4, <2>1, <2>2, <2>3, Patches DEF Clear, OpeningMoves, Reads
<1>5. QED
  BY <1>1, <1>2, <1>3, <1>4

\* ensureTunnel ends with the tunnel that the status names.
LEMMA EnsuresTunnel ==
  ASSUME TypeOK, EnsureTunnel
  PROVE  Stops \/ TunnelMoves
<1>1. ASSUME NEW t \in Tunnels, Enter([work EXCEPT !.pc = "record", !.tunnel = t])
      PROVE  Keeps /\ work'.pc = "record" /\ work'.tunnel = t
  BY <1>1, Fields DEF Enter, Worker, Keeps
<1>2. CASE GetTunnel
  <2>1. CASE Obj.tunnel = None /\ Goto("find")
    BY <1>2, <2>1, Goes DEF GetTunnel, TunnelMoves, Continues, Keeps, Steps
  <2>2. CASE Goto(Error)
    BY <2>2, Goes
  <2>3. CASE Live(Obj.tunnel) /\ Enter([work EXCEPT !.pc = "record", !.tunnel = Obj.tunnel])
    BY <1>1, <1>2, <2>3 DEF GetTunnel, TunnelMoves, Live
  <2>4. CASE /\ Obj.tunnel # None
             /\ Enter([work EXCEPT !.after = "find",
                         !.pc = IF Obj.network # None THEN "deleteRoute" ELSE "clear"])
    BY <1>2, <2>4, Fields DEF GetTunnel, TunnelMoves, Enter, Worker, Keeps
  <2>5. QED
    BY <1>2, <2>1, <2>2, <2>3, <2>4 DEF GetTunnel
<1>3. CASE Find
  <2>1. PICK r \in Results :
          \/ \E t \in TunnelsOf(P) : Enter([work EXCEPT !.pc = "record", !.tunnel = t])
          \/ GotoIf(r, "create") /\ (r = "ok" => TunnelsOf(P) = {})
    BY <1>3 DEF Find, Results
  <2>2. CASE GotoIf(r, "create") /\ (r = "ok" => TunnelsOf(P) = {})
    BY <1>3, <2>2, Goes DEF Find, TunnelMoves, Continues, Keeps, Steps
  <2>3. CASE \E t \in TunnelsOf(P) : Enter([work EXCEPT !.pc = "record", !.tunnel = t])
    BY <1>1, <1>3, <2>3 DEF Find, TunnelMoves, TunnelsOf
  <2>4. QED
    BY <2>1, <2>2, <2>3
<1>4. CASE CreateTunnel
  <2>1. PICK t \in Tunnels, r \in Results :
          /\ tunnels[t].state = "unused"
          /\ tunnels' = IF Applied(r)
               THEN [tunnels EXCEPT ![t] = [state |-> "live", owner |-> P]] ELSE tunnels
          /\ IF r = "ok" THEN Enter([work EXCEPT !.pc = "record", !.tunnel = t])
             ELSE Goto(Error)
    BY <1>4 DEF CreateTunnel
  <2>2. CASE r = "ok"
    <3>1. Makes(t)
      BY <1>4, <2>1, <2>2 DEF CreateTunnel, Makes, Applied
    <3>2. Keeps /\ work'.pc = "record" /\ work'.tunnel = t
      BY <1>1, <2>1, <2>2
    <3>3. QED
      BY <1>4, <3>1, <3>2 DEF CreateTunnel, TunnelMoves
  <2>3. CASE r # "ok"
    BY <2>1, <2>3, Goes
  <2>4. QED
    BY <2>2, <2>3
<1>5. CASE RecordTunnel
  <2> DEFINE new == [Obj EXCEPT !.tunnel = work.tunnel]
             m   == Merged(Obj, new)
             pc  == IF m.network \notin {None, work.network} THEN "deleteRoute" ELSE "getRoute"
  <2>1. new \in Object /\ new.tunnel = work.tunnel
    BY Fields DEF Object
  <2>2. PICK r \in Results :
          /\ Exists(P) \/ r = "failed"
          /\ api' = IF Applied(r) THEN [api EXCEPT ![P] = m] ELSE api
          /\ r # "ok" => Goto(Error)
          /\ r = "ok" => Enter([work EXCEPT !.obj = m, !.after = "getRoute", !.pc = pc])
    BY <1>5 DEF RecordTunnel
  <2> HIDE DEF new
  <2>3. m.tunnel = IF work.tunnel # Obj.tunnel THEN work.tunnel ELSE api[P].tunnel
    BY <2>1, Fields, Merges
  <2> HIDE DEF m
  <2>4. CASE r = "ok"
    <3>1. api'[P] = m /\ Exists(P)
      BY <2>2, <2>4, Fields DEF Applied, TypeOK
    <3>2. /\ work'.p = work.p /\ work'.obj = m /\ work'.network = work.network
          /\ work'.tunnel = work.tunnel /\ work'.after = "getRoute" /\ work'.pc = pc
      BY <2>2, <2>4, Fields DEF Enter, Worker
    <3>3. QED
      BY <1>5, <2>3, <3>1, <3>2 DEF RecordTunnel, TunnelMoves, Reads
  <2>5. CASE r # "ok"
    BY <2>2, <2>5, Goes
  <2>6. QED
    BY <2>4, <2>5
<1>6. QED
  BY <1>2, <1>3, <1>4, <1>5 DEF EnsureTunnel

\* ensureRoute ends with the route that the status names.
LEMMA EnsuresRoute ==
  ASSUME TypeOK, EnsureRoute
  PROVE  Stops \/ RouteMoves
<1>1. ASSUME NEW i \in Cidrs, Enter([work EXCEPT !.pc = "recordRoute", !.id = i])
      PROVE  Keeps /\ work'.pc = "recordRoute" /\ work'.tunnel = work.tunnel /\ work'.id = i
  BY <1>1, Fields DEF Enter, Worker, Keeps
<1>2. CASE GetRoute
  <2>1. CASE Obj.route = None /\ Goto("list")
    BY <1>2, <2>1, Goes DEF GetRoute, RouteMoves, Continues, Keeps, Steps
  <2>2. CASE Goto(Error)
    BY <2>2, Goes
  <2>3. CASE /\ Obj.route # None /\ ~Routed(Obj.route)
             /\ Enter([work EXCEPT !.pc = "clear", !.after = "list"])
    BY <1>2, <2>3, Fields DEF GetRoute, RouteMoves, Enter, Worker, Keeps
  <2>4. CASE Goto("secret")
    BY <1>2, <2>4, Goes DEF GetRoute, RouteMoves, Continues, Keeps, Steps
  <2>5. QED
    BY <1>2, <2>1, <2>2, <2>3, <2>4 DEF GetRoute
<1>3. CASE ListRoutes
  <2>1. CASE /\ CidrsFor(work.network) = {}
             /\ Goto(IF Obj.network = work.network THEN "createRoute" ELSE "persist")
    <3>1. CASE Obj.network = work.network
      BY <1>3, <2>1, <3>1, Goes DEF ListRoutes, RouteMoves, Continues, Keeps, Steps
    <3>2. CASE Obj.network # work.network
      BY <1>3, <2>1, <3>2, Goes DEF ListRoutes, RouteMoves, Continues, Keeps, Steps
    <3>3. QED
      BY <3>1, <3>2
  <2>2. CASE Goto(Error)
    BY <2>2, Goes
  <2>3. CASE \E i \in CidrsFor(work.network) :
               PrivateOwned(i) /\ Enter([work EXCEPT !.pc = "recordRoute", !.id = i])
    BY <1>1, <1>3, <2>3 DEF ListRoutes, RouteMoves, CidrsFor
  <2>4. QED
    BY <1>3, <2>1, <2>2, <2>3 DEF ListRoutes
<1>4. CASE Persist
  <2> DEFINE new == [Obj EXCEPT !.network = work.network]
  <2>1. /\ new \in Object /\ new.tunnel = Obj.tunnel /\ new.route = Obj.route
        /\ new.network = work.network
    BY Fields DEF Object
  <2>2. PICK r \in Results : PatchStatus(new, r, "createRoute")
    BY <1>4 DEF Persist
  <2> HIDE DEF new
  <2>3. QED
    BY <1>4, <2>1, <2>2, Patches DEF Persist, RouteMoves, Reads, Steps
<1>5. CASE CreateRoute
  <2>1. PICK i \in Cidrs, r \in Results :
          /\ cidrs[i].state = "unused"
          /\ CloudflareCall(CidrsFor(work.network) = {} /\ Live(work.tunnel), r)
          /\ cidrs' = IF Applied(r)
               THEN [cidrs EXCEPT ![i] = [state |-> "live", owner |-> P,
                       network |-> work.network, tunnel |-> work.tunnel]]
               ELSE cidrs
          /\ IF r = "ok" THEN Enter([work EXCEPT !.pc = "recordRoute", !.id = i])
             ELSE Goto(Error)
    BY <1>5 DEF CreateRoute
  <2>2. CASE r = "ok"
    <3>1. CidrsFor(work.network) = {} /\ Live(work.tunnel)
      BY <2>1, <2>2, Calls DEF Live
    <3>2. Opens(i)
      BY <1>5, <2>1, <2>2, <3>1 DEF CreateRoute, Opens, Applied
    <3>3. Keeps /\ work'.pc = "recordRoute" /\ work'.tunnel = work.tunnel /\ work'.id = i
      BY <1>1, <2>1, <2>2
    <3>4. QED
      BY <1>5, <3>2, <3>3 DEF CreateRoute, RouteMoves
  <2>3. CASE r # "ok"
    BY <2>1, <2>3, Goes
  <2>4. QED
    BY <2>2, <2>3
<1>6. CASE RecordRoute
  <2> DEFINE new == [Obj EXCEPT !.route = work.id, !.network = work.network]
  <2>1. new \in Object
    BY Fields DEF Object
  <2>2. PICK r \in Results : PatchStatus(new, r, "secret")
    BY <1>6 DEF RecordRoute
  <2> HIDE DEF new
  <2>3. QED
    BY <1>6, <2>1, <2>2, Patches DEF RecordRoute, RouteMoves, Reads, Steps
<1>7. QED
  BY <1>2, <1>3, <1>4, <1>5, <1>6 DEF EnsureRoute

\* ensureConnector and the status follow in order.
LEMMA ConnectsAndReports ==
  ASSUME TypeOK, Connect \/ Fail
  PROVE  Stops \/ ConnectMoves
<1>1. CASE WriteSecret
  BY <1>1, Goes DEF WriteSecret, ConnectMoves, Continues, Steps
<1>2. CASE WriteDeployment
  BY <1>2, Goes DEF WriteDeployment, ConnectMoves, Continues, Steps
<1>3. CASE WriteResources
  <2>1. PICK r \in Results : PatchStatus(Obj, r, "status")
    BY <1>3 DEF WriteResources
  <2>2. QED
    BY <1>3, <2>1, Fields, Patches DEF WriteResources, ConnectMoves, Steps
<1>4. CASE WriteStatus
  <2> DEFINE cond == [accepted   |-> IF work.accepted THEN "True" ELSE "False",
                      programmed |-> IF Obj.route # None THEN "True" ELSE "False",
                      gen        |-> Obj.gen]
             new  == [Obj EXCEPT !.cond = cond]
  <2>1. cond \in Conditions
    BY Fields DEF Conditions, Object
  <2>2. PICK r \in Results : PatchStatus(new, r, "idle")
    BY <1>4 DEF WriteStatus
  <2> HIDE DEF cond
  <2>3. new \in Object
    BY <2>1, Fields DEF Object
  <2>4. QED
    BY <2>2, <2>3, Patches, Values DEF Steps, Stops
<1>5. CASE Fail
  BY <1>5, Goes, Values DEF Fail, Continues, Stops, Steps
<1>6. QED
  BY <1>1, <1>2, <1>3, <1>4, <1>5 DEF Connect

\* finalize goes on only with what was cleaned up.
LEMMA Finalizes ==
  ASSUME TypeOK, Finalize
  PROVE  Stops \/ FinalMoves
<1>1. CASE FinRoute
  <2>1. CASE /\ work' = [work EXCEPT !.pc = "deleteRoute", !.after = "finDeploy"]
             /\ Obj.network # None
    BY <1>1, <2>1, Fields DEF FinRoute, FinalMoves, Worker
  <2>2. CASE /\ work' = [work EXCEPT !.pc = "finDeploy"]
             /\ Obj.policy = "Delete" => Obj.network = None
    BY <1>1, <2>2, Fields DEF FinRoute, FinalMoves, Worker
  <2>3. QED
    BY <1>1, <2>1, <2>2 DEF FinRoute
<1>2. CASE FinDeploy
  <2>1. PICK r \in Results :
          /\ deployed' = IF Applied(r) THEN [deployed EXCEPT ![P] = FALSE] ELSE deployed
          /\ GotoIf(r, "finSecret")
    BY <1>2 DEF FinDeploy
  <2>2. r = "ok" => ~deployed'[P]
    BY <2>1, Fields DEF Applied, TypeOK
  <2>3. QED
    BY <1>2, <2>1, <2>2, Goes DEF FinDeploy, FinalMoves, Continues, Steps
<1>3. CASE FinSecret
  <2>1. PICK r \in Results :
          /\ secret' = IF Applied(r) THEN [secret EXCEPT ![P] = None] ELSE secret
          /\ GotoIf(r, "finTunnel")
    BY <1>3 DEF FinSecret
  <2>2. r = "ok" => secret'[P] = None
    BY <2>1, Fields DEF Applied, TypeOK
  <2>3. QED
    BY <1>3, <2>1, <2>2, Goes DEF FinSecret, FinalMoves, Continues, Steps
<1>4. CASE FinTunnel
  <2>1. CASE Obj.policy = "Delete" /\ Obj.tunnel # None
    <3>1. PICK r \in Results :
            /\ tunnels' = IF Applied(r) /\ Live(Obj.tunnel)
                          THEN [tunnels EXCEPT ![Obj.tunnel].state = "deleted"] ELSE tunnels
            /\ GotoIf(r, "finRemove")
      BY <1>4, <2>1 DEF FinTunnel
    <3>2. r = "ok" /\ Obj.tunnel \in Tunnels => tunnels'[Obj.tunnel].state # "live"
      BY <3>1 DEF Applied, TypeOK, Tunnel, Live
    <3>3. QED
      BY <1>4, <3>1, <3>2, Goes DEF FinTunnel, FinalMoves, Continues, Steps
  <2>2. CASE ~(Obj.policy = "Delete" /\ Obj.tunnel # None)
    <3>1. Goto("finRemove")
      BY <1>4, <2>2 DEF FinTunnel
    <3>2. QED
      BY <1>4, <2>2, <3>1, Goes, NoneAssumption DEF FinTunnel, FinalMoves, Continues, Steps
  <2>3. QED
    BY <2>1, <2>2
<1>5. CASE FinRemove
  <2>1. PICK r \in Results : GotoIf(r, "idle")
    BY <1>5 DEF FinRemove, UpdateObject
  <2>2. QED
    BY <2>1, Goes, Values DEF Continues, Stops, Steps
<1>6. QED
  BY <1>1, <1>2, <1>3, <1>4, <1>5 DEF Finalize

\* All together.
LEMMA StepMoves ==
  ASSUME TypeOK, Control, Step
  PROVE  Stops \/ OpeningMoves \/ TunnelMoves \/ RouteMoves \/ ConnectMoves \/ FinalMoves
BY OpensAndMoves, EnsuresTunnel, EnsuresRoute, ConnectsAndReports, Finalizes DEF Step

-----------------------------------------------------------------------------
(* What passes keep that start from old copies.                            *)

\* The finalizer, once there, stays until the object is gone.
Guarded(p) == api[p].finalizer \/ api[p].phase = "gone"

\* The tunnels that an object may name were made for it.
Owns(p, t) ==
  t # None => t \in Tunnels /\ tunnels[t].state # "unused" /\ tunnels[t].owner = p

Finalizing == {"finRoute"} \cup Cleaning

\* What every copy of an object may say, however old.
Copied(p) ==
  /\ api[p].phase = "deleting" => api[p].finalizer
  /\ cache[p].phase = "deleting" => cache[p].finalizer /\ api[p].phase \in {"deleting", "gone"}
  /\ cache[p].finalizer => Guarded(p)
  /\ Owns(p, api[p].tunnel) /\ Owns(p, cache[p].tunnel)

\* What a pass may rely on.
Guarding ==
  /\ At("addFinalizer") => Obj.phase = "live"
  /\ work.pc \notin {"idle", "addFinalizer", "fail"} => Guarded(P)
  /\ Aim \in Routing => Exists(P)
  /\ Aim \in Finalizing => api[P].phase \in {"deleting", "gone"}
  /\ Owns(P, Obj.tunnel) /\ Owns(P, work.tunnel)
Cleaned ==
  /\ work.pc \in {"finSecret", "finTunnel", "finRemove"} => ~deployed[P]
  /\ work.pc \in {"finTunnel", "finRemove"} => secret[P] = None
  /\ At("finRemove") /\ Obj.policy = "Delete" => ~Live(Obj.tunnel)
  /\ At("create") => TunnelsOf(P) = {}

\* An object without the finalizer has nothing.
Bare(p) ==
  ~Guarded(p) =>
    /\ TunnelsOf(p) = {} /\ CidrsOf(p) = {} /\ secret[p] = None /\ ~deployed[p]
    /\ api[p].tunnel = None /\ api[p].route = None /\ api[p].network = None

LifeInv ==
  /\ TypeOK /\ Control
  /\ \A p \in Routes : Copied(p) /\ Bare(p)
  /\ Guarding /\ Cleaned
  /\ OneTunnelEach /\ CleanFinalization

\* What no step takes back.
Lasts(p) ==
  /\ Guarded(p) => Guarded(p)'
  /\ api[p].phase \in {"deleting", "gone"} => api'[p].phase \in {"deleting", "gone"}
  /\ api[p].phase = "gone" =>
       api'[p].phase = "gone" /\ api'[p].tunnel = api[p].tunnel /\ api'[p].policy = api[p].policy
  /\ Exists(p) /\ Guarded(p) => Exists(p)' \/ (p = P /\ At("finRemove"))
Used(t) ==
  tunnels[t].state # "unused" =>
    /\ tunnels'[t].state # "unused" /\ tunnels'[t].owner = tunnels[t].owner
    /\ tunnels[t].state # "live" => tunnels'[t].state # "live"

\* Every step keeps this.
LEMMA Lasting ==
  ASSUME TypeOK, Control, Guarding, [Next]_vars
  PROVE  (\A p \in Routes : Lasts(p)) /\ (\A t \in Tunnels : Used(t))
<1>1. CASE Step
  <2>1. ASSUME NEW t \in Tunnels
        PROVE  Used(t)
    <3>1. CASE tunnels' = tunnels
      BY <3>1 DEF Used
    <3>2. CASE \E u \in Tunnels : Makes(u)
      BY <3>2, <2>1 DEF Used, Makes, TypeOK
    <3>3. CASE Drops
      BY <3>3, <2>1 DEF Used, Drops, TypeOK, Tunnel, Live
    <3>4. QED
      BY <1>1, <3>1, <3>2, <3>3, TunnelWrites
  <2>2. ASSUME NEW p \in Routes
        PROVE  Lasts(p)
    <3>1. CASE p # P
      BY <1>1, <2>2, <3>1, ObjectWrites DEF Lasts, Guarded, Exists
    <3>2. CASE p = P /\ SameSpec
      BY <3>2 DEF Lasts, Guarded, Exists, SameSpec
    <3>3. CASE p = P /\ Guards
      BY <3>3 DEF Lasts, Guarded, Exists, Guards, SameStatus, Guarding
    <3>4. CASE p = P /\ Frees
      BY <3>4 DEF Lasts, Guarded, Exists, Frees, SameStatus
    <3>5. QED
      BY <1>1, <3>1, <3>2, <3>3, <3>4, ObjectWrites
  <2>3. QED
    BY <2>1, <2>2
<1>2. CASE Others
  <2>1. ASSUME NEW t \in Tunnels
        PROVE  Used(t)
    BY <1>2, <2>1, OthersWrites DEF Used
  <2>2. ASSUME NEW p \in Routes
        PROVE  Lasts(p)
    BY <1>2, <2>2, OthersWrites DEF Lasts, Guarded, Exists
  <2>3. QED
    BY <2>1, <2>2
<1>3. CASE Crash \/ (\E p \in Routes : Start(p) \/ Deliver(p)) \/ UNCHANGED vars
  <2>1. tunnels' = tunnels /\ api' = api
    BY <1>3 DEF Crash, Start, Deliver, remote, vars
  <2>2. QED
    BY <2>1 DEF Lasts, Used, Guarded, Exists
<1>4. QED
  BY <1>1, <1>2, <1>3 DEF Next

\* A tunnel made for an object stays one.
LEMMA Owning ==
  ASSUME NEW p, NEW t, Owns(p, t), \A u \in Tunnels : Used(u)
  PROVE  t # None => t \in Tunnels /\ tunnels'[t].state # "unused" /\ tunnels'[t].owner = p
BY DEF Owns, Used

\* No step takes a finalizer or an object away from a copy.
LEMMA CopiesStep ==
  ASSUME LifeInv, [Next]_vars, NEW p \in Routes
  PROVE  Copied(p)'
<1>1. TypeOK /\ Control /\ Copied(p) /\ Guarding /\ Lasts(p) /\ \A u \in Tunnels : Used(u)
  BY Lasting DEF LifeInv
<1>2. api'[p].phase = "deleting" => api'[p].finalizer
  <2>1. CASE Step
    BY <1>1, <2>1, ObjectWrites DEF Copied, SameSpec, Guards, Frees
  <2>2. CASE Others
    BY <1>1, <2>2, OthersWrites DEF Copied
  <2>3. CASE Crash \/ (\E q \in Routes : Start(q) \/ Deliver(q)) \/ UNCHANGED vars
    BY <1>1, <2>3 DEF Copied, Crash, Start, Deliver, vars
  <2>4. QED
    BY <2>1, <2>2, <2>3 DEF Next
<1>3. PICK t : /\ t = api'[p].tunnel
               /\ t # None => t \in Tunnels /\ tunnels'[t].state # "unused" /\ tunnels'[t].owner = p
  <2>1. CASE api'[p].tunnel = api[p].tunnel
    BY <1>1, <2>1, Owning DEF Copied
  <2>2. CASE api'[p].tunnel = None
    BY <2>2
  <2>3. CASE p = P /\ api'[p].tunnel = work.tunnel
    BY <1>1, <2>3, Owning DEF Guarding
  <2>4. CASE Step
    BY <1>1, <2>1, <2>2, <2>3, <2>4, ObjectWrites DEF Links
  <2>5. CASE Others
    BY <1>1, <2>1, <2>5, OthersWrites
  <2>6. CASE Crash \/ (\E q \in Routes : Start(q) \/ Deliver(q)) \/ UNCHANGED vars
    BY <2>1, <2>6 DEF Crash, Start, Deliver, vars
  <2>7. QED
    BY <2>4, <2>5, <2>6 DEF Next
<1>4. CASE cache'[p] = cache[p]
  <2>1. PICK u : /\ u = cache'[p].tunnel
                 /\ u # None => u \in Tunnels /\ tunnels'[u].state # "unused" /\ tunnels'[u].owner = p
    BY <1>1, <1>4, Owning DEF Copied
  <2>2. /\ cache'[p].phase = "deleting" =>
             cache'[p].finalizer /\ api'[p].phase \in {"deleting", "gone"}
        /\ cache'[p].finalizer => Guarded(p)'
    BY <1>1, <1>4 DEF Copied, Lasts
  <2>3. QED
    BY <1>2, <1>3, <2>1, <2>2 DEF Copied, Owns
<1>5. CASE cache'[p] = api'[p]
  BY <1>2, <1>3, <1>5 DEF Copied, Owns, Guarded
<1>6. QED
  <2>1. CASE Step
    BY <1>1, <1>4, <2>1, ObjectWrites
  <2>2. CASE Others \/ UNCHANGED vars \/ \E q \in Routes : Start(q)
    BY <1>4, <2>2
    DEF Others, CreateObject, EditObject, DeleteObject, ChangeValid, ChangeProvider,
        ChangeAddress, RemoveTunnel, RemoveCidr, AddCidr, Start, vars
  <2>3. CASE Crash \/ \E q \in Routes : Deliver(q)
    BY <1>1, <1>4, <1>5, <2>3 DEF Crash, Deliver, TypeOK
  <2>4. QED
    BY <2>1, <2>2, <2>3 DEF Next

\* Where a step of the pass comes from.
LEMMA Comes ==
  ASSUME TypeOK, Control, Step
  PROVE  \/ Stops
         \/ /\ work.pc \notin {"idle", "addFinalizer", "fail"}
            /\ work'.pc \notin {"idle", "addFinalizer", "fail"} \/ At("clear")
            /\ work'.p = work.p
            /\ work'.obj = work.obj \/ work'.obj = api'[P]
            /\ Aim' \in Routing => Aim \in Routing \/ Exists(P)
            /\ Aim' \in Finalizing => Aim \in Finalizing
            /\ \/ work'.tunnel = work.tunnel
               \/ work'.tunnel = Obj.tunnel
               \/ work'.tunnel \in TunnelsOf(P)
               \/ work'.tunnel \in Tunnels /\ Makes(work'.tunnel)
            /\ work'.pc = "create" => TunnelsOf(P) = {} /\ At("find")
            /\ work'.pc = "finSecret" => ~deployed'[P]
            /\ work'.pc = "finTunnel" => At("finSecret") /\ secret'[P] = None
            /\ work'.pc = "finRemove" =>
                 /\ At("finTunnel") /\ work'.obj = work.obj
                 /\ Obj.policy = "Delete" /\ Obj.tunnel \in Tunnels =>
                      tunnels'[Obj.tunnel].state # "live"
<1>1. CASE OpeningMoves
  BY <1>1 DEF OpeningMoves, Control, Aim, Removing, Routing, Ensuring, Finalizing, Cleaning,
              At, Keeps, Reads, Obj
<1>2. CASE TunnelMoves
  BY <1>2 DEF TunnelMoves, Control, Aim, Removing, Routing, Ensuring, Finalizing, Cleaning,
              At, Keeps, Reads, Obj
<1>3. CASE RouteMoves
  BY <1>3 DEF RouteMoves, Control, Aim, Removing, Routing, Ensuring, Finalizing, Cleaning,
              At, Keeps, Reads, Obj
<1>4. CASE ConnectMoves \/ FinalMoves
  BY <1>4 DEF ConnectMoves, FinalMoves, Control, Aim, Removing, Routing, Ensuring, Finalizing,
              Cleaning, At, Obj
<1>5. QED
  BY <1>1, <1>2, <1>3, <1>4, StepMoves

\* A pass keeps what it relies on.
LEMMA GuardingStep ==
  ASSUME LifeInv, [Next]_vars
  PROVE  Guarding'
<1>1. /\ TypeOK /\ Control /\ Guarding /\ P \in Routes /\ Lasts(P) /\ Copied(P)
      /\ \A u \in Tunnels : Used(u)
  BY Lasting, Fields DEF LifeInv
<1>2. CASE work' = Idle
  BY <1>2, Values
  DEF Guarding, Aim, Removing, Routing, Finalizing, Cleaning, At, Owns, Obj
<1>3. CASE Step
  <2>1. CASE Stops /\ work' # Idle
    <3>1. work'.pc \in {"fail", "idle"} /\ work'.p = work.p /\ work'.obj = work.obj
          /\ work'.tunnel = work.tunnel
      BY <2>1 DEF Stops
    <3>2. PICK t, u : /\ t = Obj.tunnel /\ u = work.tunnel
                      /\ t # None => t \in Tunnels /\ tunnels'[t].state # "unused"
                                     /\ tunnels'[t].owner = P
                      /\ u # None => u \in Tunnels /\ tunnels'[u].state # "unused"
                                     /\ tunnels'[u].owner = P
      BY <1>1, Owning DEF Guarding
    <3>3. QED
      BY <3>1, <3>2
      DEF Guarding, Aim, Removing, Routing, Finalizing, Cleaning, At, Owns, Obj, P
  <2>2. CASE ~Stops
    <3>1. /\ work.pc \notin {"idle", "addFinalizer", "fail"}
          /\ work'.pc \notin {"idle", "addFinalizer", "fail"} \/ At("clear")
          /\ work'.p = work.p
          /\ work'.obj = work.obj \/ work'.obj = api'[P]
          /\ Aim' \in Routing => Aim \in Routing \/ Exists(P)
          /\ Aim' \in Finalizing => Aim \in Finalizing
          /\ \/ work'.tunnel = work.tunnel
             \/ work'.tunnel = Obj.tunnel
             \/ work'.tunnel \in TunnelsOf(P)
             \/ work'.tunnel \in Tunnels /\ Makes(work'.tunnel)
      BY <1>1, <1>3, <2>2, Comes
    <3>2. Guarded(P)' /\ work'.pc # "addFinalizer"
      <4>1. work'.pc # "addFinalizer"
        <5>1. CASE At("clear")
          BY <1>1, <1>3, <2>2, <5>1, StepMoves
          DEF OpeningMoves, TunnelMoves, RouteMoves, ConnectMoves, FinalMoves, Control, At,
              Removing
        <5>2. QED
          BY <3>1, <5>1
      <4>2. Guarded(P)
        BY <1>1, <3>1 DEF Guarding
      <4>3. QED
        BY <1>1, <3>1, <4>1, <4>2 DEF Lasts, Guarded, P
    <3>3. Aim' \in Routing => Exists(P)'
      <4>1. SUFFICES ASSUME Aim' \in Routing
                     PROVE  Exists(P)'
        OBVIOUS
      <4>2. Exists(P) /\ Guarded(P)
        BY <1>1, <3>1, <4>1 DEF Guarding
      <4>3. ~At("finRemove")
        BY <3>1, <4>1, <1>1, <1>3, <2>2, StepMoves
        DEF OpeningMoves, TunnelMoves, RouteMoves, ConnectMoves, FinalMoves, At
      <4>4. QED
        BY <1>1, <3>1, <4>2, <4>3 DEF Lasts, Exists, P
    <3>4. Aim' \in Finalizing => api'[P].phase \in {"deleting", "gone"}
      BY <1>1, <3>1 DEF Guarding, Lasts
    <3>5. PICK t : /\ t = work'.obj.tunnel
                   /\ t # None => t \in Tunnels /\ tunnels'[t].state # "unused"
                                  /\ tunnels'[t].owner = P
      <4>1. CASE work'.obj = work.obj
        BY <1>1, <4>1, Owning DEF Guarding, Obj
      <4>2. CASE work'.obj = api'[P]
        BY <1>1, <4>2, CopiesStep DEF Copied, Owns
      <4>3. QED
        BY <3>1, <4>1, <4>2
    <3>6. PICK u : /\ u = work'.tunnel
                   /\ u # None => u \in Tunnels /\ tunnels'[u].state # "unused"
                                  /\ tunnels'[u].owner = P
      <4>1. CASE work'.tunnel = work.tunnel \/ work'.tunnel = Obj.tunnel
        BY <1>1, <4>1, Owning DEF Guarding
      <4>2. CASE work'.tunnel \in TunnelsOf(P)
        BY <1>1, <4>2 DEF TunnelsOf, Live, Used
      <4>3. CASE work'.tunnel \in Tunnels /\ Makes(work'.tunnel)
        BY <1>1, <4>3 DEF Makes, TypeOK
      <4>4. QED
        BY <3>1, <4>1, <4>2, <4>3
    <3>7. QED
      BY <3>1, <3>2, <3>3, <3>4, <3>5, <3>6 DEF Guarding, Owns, At, Obj, P
  <2>3. QED
    BY <1>2, <2>1, <2>2
<1>4. CASE Others \/ UNCHANGED vars \/ \E p \in Routes : Deliver(p)
  <2>1. work' = work
    BY <1>4
    DEF Others, CreateObject, EditObject, DeleteObject, ChangeValid, ChangeProvider,
        ChangeAddress, RemoveTunnel, RemoveCidr, AddCidr, Deliver, vars
  <2>2. PICK t, u : /\ t = Obj.tunnel /\ u = work.tunnel
                    /\ t # None => t \in Tunnels /\ tunnels'[t].state # "unused"
                                   /\ tunnels'[t].owner = P
                    /\ u # None => u \in Tunnels /\ tunnels'[u].state # "unused"
                                   /\ tunnels'[u].owner = P
    BY <1>1, Owning DEF Guarding
  <2>3. Aim \in Routing => Exists(P)'
    <3>1. ASSUME Aim \in Routing
          PROVE  Exists(P) /\ Guarded(P)
      BY <1>1, <3>1
      DEF Guarding, Aim, Removing, Routing
    <3>2. CASE At("finRemove")
      BY <3>2 DEF At, Aim, Removing, Routing
    <3>3. QED
      BY <1>1, <2>1, <3>1, <3>2 DEF Lasts, Exists, P
  <2>4. QED
    BY <1>1, <2>1, <2>2, <2>3 DEF Guarding, Lasts, Guarded, Owns, At, Obj, P, Aim
<1>5. ASSUME NEW p \in Routes, Start(p)
      PROVE  Guarding'
  <2>1. /\ work'.p = p /\ work'.obj = cache[p] /\ work'.tunnel = None
        /\ work'.pc \in {"finRoute", "validate", "addFinalizer"}
        /\ cache[p].phase \in {"live", "deleting"}
        /\ work'.pc = "finRoute" => cache[p].phase = "deleting"
        /\ work'.pc # "finRoute" => cache[p].phase = "live"
        /\ work'.pc = "validate" => cache[p].finalizer
        /\ api' = api /\ tunnels' = tunnels
    BY <1>5, Values DEF Start, remote, Worker
  <2>2. Copied(p)
    BY DEF LifeInv
  <2>3. QED
    BY <2>1, <2>2
    DEF Guarding, Copied, Guarded, Owns, At, Obj, P, Aim, Removing, Routing, Finalizing,
        Cleaning
<1>6. QED
  BY <1>2, <1>3, <1>4, <1>5 DEF Next, Crash

\* What finalize has cleaned up stays so.
LEMMA CleanedStep ==
  ASSUME LifeInv, [Next]_vars
  PROVE  Cleaned'
<1>1. /\ TypeOK /\ Control /\ Cleaned /\ P \in Routes /\ Guarding
      /\ \A u \in Tunnels : Used(u)
  BY Lasting, Fields DEF LifeInv
<1>2. CASE work'.pc \notin {"finSecret", "finTunnel", "finRemove", "create"}
  BY <1>2 DEF Cleaned, At
<1>3. CASE Step /\ ~Stops
  <2>1. /\ work.pc \notin {"idle", "addFinalizer", "fail"}
        /\ work'.p = work.p
        /\ work'.pc = "create" => TunnelsOf(P) = {} /\ At("find")
        /\ work'.pc = "finSecret" => ~deployed'[P]
        /\ work'.pc = "finTunnel" => At("finSecret") /\ secret'[P] = None
        /\ work'.pc = "finRemove" =>
             /\ At("finTunnel") /\ work'.obj = work.obj
             /\ Obj.policy = "Delete" /\ Obj.tunnel \in Tunnels =>
                  tunnels'[Obj.tunnel].state # "live"
    BY <1>1, <1>3, Comes
  <2>2. work'.pc \in {"finTunnel", "finRemove"} => ~deployed'[P]
    BY <1>1, <1>3, <2>1, ChildWrites DEF Cleaned, At
  <2>3. work'.pc = "finRemove" => secret'[P] = None
    BY <1>1, <1>3, <2>1, ChildWrites DEF Cleaned, At
  <2>4. work'.pc = "create" => tunnels' = tunnels
    BY <1>1, <1>3, <2>1, TunnelWrites DEF Makes, Drops, At
  <2>5. QED
    BY <2>1, <2>2, <2>3, <2>4 DEF Cleaned, At, Obj, P, Live, TunnelsOf
<1>4. CASE Others \/ UNCHANGED vars \/ \E p \in Routes : Deliver(p)
  <2>1. work' = work /\ secret' = secret /\ deployed' = deployed
    BY <1>4
    DEF Others, CreateObject, EditObject, DeleteObject, ChangeValid, ChangeProvider,
        ChangeAddress, RemoveTunnel, RemoveCidr, AddCidr, Deliver, vars, children
  <2>2. ASSUME NEW t \in Tunnels, tunnels'[t].state = "live"
        PROVE  tunnels[t].state = "live" /\ tunnels'[t].owner = tunnels[t].owner
    <3>1. CASE Others
      BY <1>1, <2>2, <3>1, OthersWrites DEF Live
    <3>2. CASE UNCHANGED vars \/ \E p \in Routes : Deliver(p)
      BY <2>2, <3>2 DEF Deliver, remote, vars
    <3>3. QED
      BY <1>4, <3>1, <3>2
  <2>3. At("finRemove") /\ Obj.policy = "Delete" => ~Live(Obj.tunnel)'
    BY <1>1, <2>1, <2>2 DEF Cleaned, Live, Obj
  <2>4. At("create") => TunnelsOf(P)' = {}
    BY <1>1, <2>1, <2>2 DEF Cleaned, Live, TunnelsOf, P
  <2>5. QED
    BY <1>1, <2>1, <2>3, <2>4 DEF Cleaned, At, Obj, P
<1>5. CASE (Step /\ Stops) \/ Crash \/ \E p \in Routes : Start(p)
  BY <1>2, <1>5, Values DEF Stops, Crash, Start, Worker
<1>6. QED
  BY <1>3, <1>4, <1>5 DEF Next

\* A step makes a tunnel or a route only for the object of a pass past the
\* finalizer.
LEMMA BareStep ==
  ASSUME LifeInv, [Next]_vars, NEW p \in Routes
  PROVE  Bare(p)'
<1>1. /\ TypeOK /\ Control /\ Guarding /\ P \in Routes /\ Lasts(p) /\ Bare(p)
  BY Lasting, Fields DEF LifeInv
<1>2. SUFFICES ASSUME ~Guarded(p), ~Guarded(p)'
               PROVE  Bare(p)'
  BY <1>1 DEF Bare, Lasts
<1>3. CASE Step
  <2>1. p = P => work.pc \in {"idle", "addFinalizer", "fail"}
    BY <1>1, <1>2 DEF Guarding
  <2>2. /\ secret'[p] = None /\ ~deployed'[p]
    <3>1. secret[p] = None /\ ~deployed[p]
      BY <1>1, <1>2 DEF Bare
    <3>2. QED
      BY <1>1, <1>3, <2>1, <3>1, ChildWrites DEF At
  <2>3. api'[p].tunnel = None /\ api'[p].route = None /\ api'[p].network = None
    BY <1>1, <1>2, <1>3, <2>1, ObjectWrites DEF Bare, Links, At
  <2>4. ASSUME NEW t \in Tunnels, tunnels'[t].state = "live", tunnels'[t].owner = p
        PROVE  tunnels[t].state = "live" /\ tunnels[t].owner = p
    <3>1. CASE \E u \in Tunnels : Makes(u)
      BY <1>1, <2>1, <2>4, <3>1 DEF Makes, TypeOK, At
    <3>2. CASE Drops
      BY <1>1, <2>4, <3>2 DEF Drops, TypeOK, Tunnel
    <3>3. QED
      BY <1>1, <1>3, <2>4, <3>1, <3>2, TunnelWrites
  <2>5. ASSUME NEW i \in Cidrs, cidrs'[i].state = "live", cidrs'[i].owner = p
        PROVE  cidrs[i].state = "live" /\ cidrs[i].owner = p
    <3>1. CASE \E j \in Cidrs : Opens(j)
      BY <1>1, <2>1, <2>5, <3>1 DEF Opens, TypeOK, At
    <3>2. CASE Closes
      BY <1>1, <2>5, <3>2 DEF Closes
    <3>3. QED
      BY <1>1, <1>3, <2>5, <3>1, <3>2, CidrWrites
  <2>6. QED
    BY <1>1, <1>2, <2>2, <2>3, <2>4, <2>5 DEF Bare, TunnelsOf, CidrsOf, Live, Routed
<1>4. CASE Others
  <2>1. secret' = secret /\ deployed' = deployed
    BY <1>4
    DEF Others, CreateObject, EditObject, DeleteObject, ChangeValid, ChangeProvider,
        ChangeAddress, RemoveTunnel, RemoveCidr, AddCidr, children
  <2>2. TunnelsOf(p)' = {}
    BY <1>1, <1>2, <1>4, OthersWrites DEF Bare, TunnelsOf, Live
  <2>3. CidrsOf(p)' = {}
    <3>1. ASSUME NEW i \in Cidrs, cidrs'[i].state = "live", cidrs'[i].owner = p
          PROVE  i \in CidrsOf(p)
      BY <1>1, <1>4, <3>1, OthersCidrs, NoneAssumption DEF CidrsOf, Routed
    <3>2. QED
      BY <1>1, <1>2, <3>1 DEF Bare, CidrsOf, Routed
  <2>4. QED
    BY <1>1, <1>2, <1>4, <2>1, <2>2, <2>3, OthersWrites DEF Bare
<1>5. CASE Crash \/ (\E q \in Routes : Start(q) \/ Deliver(q)) \/ UNCHANGED vars
  <2>1. UNCHANGED <<api, tunnels, cidrs, secret, deployed>>
    BY <1>5 DEF Crash, Start, Deliver, remote, children, vars
  <2>2. QED
    BY <1>1, <1>2, <2>1 DEF Bare, Guarded, TunnelsOf, CidrsOf, Live, Routed
<1>6. QED
  BY <1>3, <1>4, <1>5 DEF Next

\* A tunnel is made only when the look-up of this pass found none.
LEMMA TunnelStep ==
  ASSUME LifeInv, [Next]_vars
  PROVE  OneTunnelEach'
<1>1. TypeOK /\ Control /\ OneTunnelEach /\ Cleaned /\ P \in Routes
  BY Fields DEF LifeInv
<1>2. SUFFICES ASSUME NEW p \in Routes, NEW t1 \in Tunnels, NEW t2 \in Tunnels,
                      tunnels'[t1].state = "live", tunnels'[t1].owner = p,
                      tunnels'[t2].state = "live", tunnels'[t2].owner = p
               PROVE  t1 = t2
  BY DEF OneTunnelEach, TunnelsOf, Live
<1>3. CASE \E u \in Tunnels : Makes(u)
  <2>1. PICK u \in Tunnels : Makes(u)
    BY <1>3
  <2>2. \A t \in Tunnels \ {u} : tunnels'[t] = tunnels[t]
    BY <2>1 DEF Makes
  <2>3. TunnelsOf(P) = {} /\ tunnels'[u].owner = P
    BY <1>1, <2>1 DEF Makes, Cleaned, TypeOK
  <2>4. CASE p = P
    BY <1>2, <2>2, <2>3, <2>4 DEF TunnelsOf, Live
  <2>5. CASE p # P
    BY <1>1, <1>2, <2>2, <2>3, <2>5 DEF OneTunnelEach, TunnelsOf, Live
  <2>6. QED
    BY <2>4, <2>5
<1>4. CASE \A t \in Tunnels : tunnels'[t].state = "live" =>
             tunnels[t].state = "live" /\ tunnels'[t].owner = tunnels[t].owner
  BY <1>1, <1>2, <1>4 DEF OneTunnelEach, TunnelsOf, Live
<1>5. QED
  <2>1. CASE Step
    <3>1. CASE Drops
      BY <1>1, <1>4, <3>1 DEF Drops, TypeOK, Tunnel
    <3>2. CASE tunnels' = tunnels
      BY <1>4, <3>2
    <3>3. QED
      BY <1>1, <1>3, <2>1, <3>1, <3>2, TunnelWrites
  <2>2. CASE Others
    BY <1>1, <1>4, <2>2, OthersWrites DEF Live
  <2>3. CASE Crash \/ (\E q \in Routes : Start(q) \/ Deliver(q)) \/ UNCHANGED vars
    BY <1>4, <2>3 DEF Crash, Start, Deliver, remote, vars
  <2>4. QED
    BY <2>1, <2>2, <2>3 DEF Next

\* An object is gone only once its finalizer is, or without ever having one.
LEMMA CleanStep ==
  ASSUME LifeInv, [Next]_vars
  PROVE  CleanFinalization'
<1>1. SUFFICES ASSUME NEW p \in Routes, api'[p].phase = "gone"
               PROVE  /\ secret'[p] = None /\ ~deployed'[p]
                      /\ api'[p].policy = "Delete" /\ api'[p].tunnel # None =>
                           ~(api'[p].tunnel \in Tunnels /\ tunnels'[api'[p].tunnel].state = "live")
  BY DEF CleanFinalization, Live
<1>2. /\ TypeOK /\ Control /\ Guarding /\ Cleaned /\ P \in Routes /\ Lasts(p)
      /\ Copied(p) /\ Bare(p) /\ \A u \in Tunnels : Used(u)
  BY Lasting, Fields DEF LifeInv
<1>3. ASSUME NEW t \in Tunnels, t = api[p].tunnel, ~Live(t)
      PROVE  tunnels'[t].state # "live"
  BY <1>2, <1>3, NoneAssumption DEF Copied, Owns, Used, Live
<1>4. ASSUME UNCHANGED <<secret, deployed>> \/ Step
      PROVE  /\ secret'[p] = secret[p] \/ secret'[p] = None \/ (p = P /\ Exists(P))
             /\ deployed'[p] => deployed[p] \/ (p = P /\ Exists(P))
  <2>1. At("secret") \/ At("deploy") => Exists(P)
    BY <1>2 DEF Guarding, At, Aim, Removing, Routing
  <2>2. QED
    BY <1>2, <1>4, <2>1, ChildWrites
<1>5. CASE api[p].phase = "gone"
  <2>1. /\ api'[p].tunnel = api[p].tunnel /\ api'[p].policy = api[p].policy
        /\ secret[p] = None /\ ~deployed[p] /\ ~Exists(p)
        /\ api[p].policy = "Delete" /\ api[p].tunnel # None => ~Live(api[p].tunnel)
    BY <1>2, <1>5 DEF Lasts, LifeInv, CleanFinalization, Exists
  <2>2. UNCHANGED <<secret, deployed>> \/ Step
    BY DEF Next, Others, CreateObject, EditObject, DeleteObject, ChangeValid, ChangeProvider,
           ChangeAddress, RemoveTunnel, RemoveCidr, AddCidr, Crash, Start, Deliver, children,
           vars
  <2>3. secret'[p] = None /\ ~deployed'[p]
    BY <1>4, <2>1, <2>2
  <2>4. QED
    BY <1>3, <2>1, <2>3
<1>6. CASE api[p].phase # "gone" /\ Step
  <2>1. p = P /\ Frees
    BY <1>1, <1>2, <1>6, ObjectWrites DEF SameSpec, Guards
  <2>2. At("finRemove") /\ api[P] = Obj /\ SameStatus
    BY <2>1 DEF Frees
  <2>3. secret[P] = None /\ ~deployed[P] /\ (Obj.policy = "Delete" => ~Live(Obj.tunnel))
    BY <1>2, <2>2 DEF Cleaned, At
  <2>4. secret'[P] = None /\ ~deployed'[P]
    BY <1>2, <1>6, <2>2, <2>3, ChildWrites DEF At
  <2>5. tunnels' = tunnels
    BY <1>2, <1>6, <2>2, TunnelWrites DEF Makes, Drops, At
  <2>6. QED
    BY <2>1, <2>2, <2>3, <2>4, <2>5 DEF SameStatus, Live
<1>7. CASE api[p].phase # "gone" /\ Others
  <2>1. /\ api[p].phase = "live" /\ ~api[p].finalizer /\ api'[p].tunnel = api[p].tunnel
    BY <1>1, <1>2, <1>7, OthersWrites
  <2>2. secret[p] = None /\ ~deployed[p] /\ api[p].tunnel = None
    BY <1>2, <1>7, <2>1 DEF Bare, Guarded
  <2>3. UNCHANGED <<secret, deployed>>
    BY <1>7
    DEF Others, CreateObject, EditObject, DeleteObject, ChangeValid, ChangeProvider,
        ChangeAddress, RemoveTunnel, RemoveCidr, AddCidr, children
  <2>4. QED
    BY <2>1, <2>2, <2>3
<1>8. CASE Crash \/ (\E q \in Routes : Start(q) \/ Deliver(q)) \/ UNCHANGED vars
  BY <1>1, <1>5, <1>8 DEF Crash, Start, Deliver, vars
<1>9. QED
  BY <1>5, <1>6, <1>7, <1>8 DEF Next

\* The inductive invariant that the two theorems follow from.
LEMMA LifeHolds == Spec => []LifeInv
<1>1. Init => LifeInv
  <2>1. SUFFICES ASSUME Init PROVE LifeInv
    OBVIOUS
  <2>2. \A p \in Routes :
          /\ api[p] = NewObject /\ cache[p] = NewObject /\ secret[p] = None /\ ~deployed[p]
    BY <2>1 DEF Init
  <2>3. /\ \A t \in Tunnels : tunnels[t].state = "unused"
        /\ \A i \in Cidrs : cidrs[i].state = "unused"
        /\ work = Idle
    BY <2>1 DEF Init
  <2>4. \A p \in Routes : Copied(p) /\ Bare(p)
    BY <2>2, <2>3, Values
    DEF Copied, Bare, Guarded, Owns, TunnelsOf, CidrsOf, Live, Routed
  <2>5. Guarding /\ Cleaned
    BY <2>3, Values
    DEF Guarding, Cleaned, At, Aim, Removing, Routing, Finalizing, Cleaning, Owns, Obj
  <2>6. OneTunnelEach /\ CleanFinalization
    BY <2>2, <2>3, Values DEF OneTunnelEach, CleanFinalization, TunnelsOf, Live
  <2>7. QED
    BY <2>1, <2>4, <2>5, <2>6, InitType DEF LifeInv
<1>2. LifeInv /\ [Next]_vars => LifeInv'
  <2>1. SUFFICES ASSUME LifeInv, [Next]_vars PROVE LifeInv'
    OBVIOUS
  <2>2. TypeOK' /\ Control'
    BY <2>1, NextType DEF LifeInv
  <2>3. (\A p \in Routes : Copied(p) /\ Bare(p))'
    BY <2>1, CopiesStep, BareStep
  <2>4. QED
    BY <2>1, <2>2, <2>3, GuardingStep, CleanedStep, TunnelStep, CleanStep DEF LifeInv
<1>3. QED
  BY <1>1, <1>2, PTL DEF Spec

\* However a creation fails, however stale the object a pass starts from, an
\* object never has two tunnels: ensureTunnel looks for one by its name first.
THEOREM OneTunnel == Spec => []OneTunnelEach
<1>1. LifeInv => OneTunnelEach
  BY DEF LifeInv
<1>2. QED
  BY <1>1, LifeHolds, PTL

\* finalize removes the finalizer only when the connector is gone and, with
\* policy Delete, the tunnel the status names.
THEOREM FinalizationCleans == Spec => []CleanFinalization
<1>1. LifeInv => CleanFinalization
  BY DEF LifeInv
<1>2. QED
  BY <1>1, LifeHolds, PTL

\* While an object exists, whatever was made for it, remotely or in the cluster,
\* is guarded by the finalizer.
THEOREM GuardedFirst == Spec => []FinalizerFirst
<1>1. LifeInv => FinalizerFirst
  BY DEF LifeInv, Bare, Guarded, FinalizerFirst, Exists
<1>2. QED
  BY <1>1, LifeHolds, PTL

-----------------------------------------------------------------------------
(* Routes and the status, whatever copies passes start from.               *)

\* A live tunnel that a copy of an object names is the one that the server's
\* names, if it names any.
Agrees(p, t) == Live(t) => api[p].tunnel \in {None, t}
TunnelNamed  == (\A p \in Routes : Agrees(p, cache[p].tunnel)) /\ Agrees(P, Obj.tunnel)

\* The patch that ends ensureTunnel brings the object in memory up to date: when
\* ensureRoute and ensureConnector run, it agrees with the server.
Agreed ==
  Aim \in Routing =>
    /\ Obj.tunnel = api[P].tunnel /\ Obj.route = api[P].route /\ Obj.network = api[P].network

\* What each part of the pass has established of the status and the account.
TunnelFound ==
  /\ work.pc \in {"find", "create"} => Obj.tunnel = None
  /\ work.pc \in Removing /\ work.after = "find" => Obj.tunnel # None
  /\ At("record") =>
       /\ Obj.tunnel \in {None, work.tunnel}
       /\ Obj.tunnel = work.tunnel => api[P].tunnel \in {None, work.tunnel}
       /\ \A t \in TunnelsOf(P) : t = work.tunnel
  /\ Aim \in Routing => api[P].tunnel \in {None, work.tunnel}
NetworkFound ==
  /\ work.pc \in Routing => api[P].network \in {None, work.network}
  /\ At("persist") => api[P].network = None
  /\ At("createRoute") => api[P].network = work.network
  /\ work.pc \in {"list", "persist", "createRoute", "recordRoute"} => api[P].route = None
RouteFound ==
  /\ At("clear") =>
       \A i \in CidrsOf(P) :
         ~(/\ cidrs[i].network = Obj.network /\ cidrs[i].tunnel = Obj.tunnel
           /\ Obj.route \in {None, i})
  /\ work.pc \in Removing /\ work.after = "finDeploy" => Obj.network # None
  /\ work.pc \in Cleaning /\ Obj.policy = "Delete" => Obj.network = None
  /\ At("recordRoute") =>
       \A i \in CidrsOf(P) : cidrs[i].network = work.network => i = work.id

\* An account has at most one route of a network.
OneRouteEach ==
  \A i, j \in Cidrs : Routed(i) /\ Routed(j) /\ cidrs[i].network = cidrs[j].network => i = j

ScopeInv ==
  LifeInv /\ TunnelNamed /\ Agreed /\ TunnelFound /\ NetworkFound /\ RouteFound /\ OneRouteEach

\* Only a pass at createRoute adds to the routes of an object.
LEMMA CidrsShrink ==
  ASSUME TypeOK, [Next]_vars, NEW p \in Routes, NEW i \in Cidrs,
         cidrs'[i].state = "live", cidrs'[i].owner = p
  PROVE  \/ /\ i \in CidrsOf(p)
            /\ cidrs'[i].network = cidrs[i].network /\ cidrs'[i].tunnel = cidrs[i].tunnel
         \/ p = P /\ Step /\ Opens(i)
<1>1. CASE Step
  <2>1. CASE \E j \in Cidrs : Opens(j)
    <3>1. PICK j \in Cidrs : Opens(j)
      BY <2>1
    <3>2. CASE i = j
      BY <1>1, <3>1, <3>2 DEF Opens, TypeOK
    <3>3. CASE i # j
      BY <3>1, <3>3 DEF Opens, CidrsOf, Routed
    <3>4. QED
      BY <3>2, <3>3
  <2>2. CASE Closes
    BY <2>2 DEF Closes, CidrsOf, Routed
  <2>3. CASE cidrs' = cidrs
    BY <2>3 DEF CidrsOf, Routed
  <2>4. QED
    BY <1>1, <2>1, <2>2, <2>3, CidrWrites
<1>2. CASE Others
  BY <1>2, OthersCidrs, NoneAssumption DEF CidrsOf, Routed
<1>3. CASE Crash \/ (\E q \in Routes : Start(q) \/ Deliver(q)) \/ UNCHANGED vars
  BY <1>3 DEF Crash, Start, Deliver, remote, vars, CidrsOf, Routed
<1>4. QED
  BY <1>1, <1>2, <1>3 DEF Next

\* Cloudflare has no second route of a network.
LEMMA OneRouteStep ==
  ASSUME TypeOK, OneRouteEach, [Next]_vars
  PROVE  OneRouteEach'
<1>1. SUFFICES ASSUME NEW i \in Cidrs, NEW j \in Cidrs, i # j,
                      cidrs'[i].state = "live", cidrs'[j].state = "live",
                      cidrs'[i].network = cidrs'[j].network
               PROVE  FALSE
  BY DEF OneRouteEach, Routed
<1>2. CASE \A k \in {i, j} : Routed(k) /\ cidrs'[k].network = cidrs[k].network
  BY <1>1, <1>2 DEF OneRouteEach
<1>3. CASE Step
  <2>1. CASE \E k \in Cidrs : Opens(k)
    <3>1. PICK k \in Cidrs : Opens(k)
      BY <2>1
    <3>2. /\ \A l \in Cidrs \ {k} : cidrs'[l] = cidrs[l]
          /\ cidrs'[k].network = work.network /\ CidrsFor(work.network) = {}
      BY <3>1 DEF Opens, TypeOK
    <3>3. QED
      BY <1>1, <1>2, <3>2 DEF CidrsFor, Routed
  <2>2. CASE cidrs' = cidrs \/ Closes
    BY <1>1, <1>2, <2>2 DEF Closes, Routed
  <2>3. QED
    BY <1>3, <2>1, <2>2, CidrWrites
<1>4. CASE Others
  <2>1. CASE \E k \in {i, j} : cidrs[k].state = "unused" /\ cidrs'[k] # cidrs[k]
    <3>1. PICK k \in {i, j} : cidrs[k].state = "unused" /\ cidrs'[k] # cidrs[k]
      BY <2>1
    <3>2. CidrsFor(cidrs'[k].network) = {} /\ \A l \in Cidrs \ {k} : cidrs'[l] = cidrs[l]
      BY <1>1, <1>4, <3>1, OthersCidrs DEF Routed
    <3>3. PICK l \in {i, j} : l # k
      BY <1>1
    <3>4. l \in CidrsFor(cidrs'[k].network)
      BY <1>1, <3>1, <3>2, <3>3 DEF CidrsFor, Routed
    <3>5. QED
      BY <3>2, <3>4
  <2>2. CASE ~\E k \in {i, j} : cidrs[k].state = "unused" /\ cidrs'[k] # cidrs[k]
    <3>1. \A k \in {i, j} : cidrs'[k] = cidrs[k]
      BY <1>1, <1>4, <2>2, OthersCidrs
    <3>2. QED
      BY <1>1, <1>2, <3>1 DEF Routed
  <2>3. QED
    BY <2>1, <2>2
<1>5. CASE Crash \/ (\E q \in Routes : Start(q) \/ Deliver(q)) \/ UNCHANGED vars
  BY <1>1, <1>2, <1>5 DEF Crash, Start, Deliver, remote, vars, Routed
<1>6. QED
  BY <1>3, <1>4, <1>5 DEF Next

\* The server takes no other tunnel than a live one that a copy names.
LEMMA AgreesStep ==
  ASSUME LifeInv, TunnelFound, [Next]_vars, NEW p \in Routes, NEW t \in Tunnels,
         Agrees(p, t), Owns(p, t), tunnels'[t].state = "live"
  PROVE  api'[p].tunnel \in {None, t}
<1>1. TypeOK /\ Control /\ Guarding /\ Used(t) /\ P \in Routes
  BY Lasting, Fields DEF LifeInv
<1>2. t \in TunnelsOf(p) /\ api[p].tunnel \in {None, t}
  BY <1>1, NoneAssumption DEF Used, Owns, Agrees, TunnelsOf, Live
<1>3. CASE Step
  <2>1. CASE p = P
    BY <1>1, <1>2, <1>3, <2>1, ObjectWrites DEF Links, TunnelFound
  <2>2. CASE p # P
    BY <1>1, <1>2, <1>3, <2>2, ObjectWrites
  <2>3. QED
    BY <2>1, <2>2
<1>4. CASE Others
  BY <1>1, <1>2, <1>4, OthersWrites
<1>5. CASE Crash \/ (\E q \in Routes : Start(q) \/ Deliver(q)) \/ UNCHANGED vars
  BY <1>2, <1>5 DEF Crash, Start, Deliver, vars
<1>6. QED
  BY <1>3, <1>4, <1>5 DEF Next

\* Copies come from the server.
LEMMA TunnelNamedStep ==
  ASSUME LifeInv, TunnelFound, TunnelNamed, [Next]_vars
  PROVE  TunnelNamed'
<1>1. /\ TypeOK /\ Control /\ Guarding /\ P \in Routes
      /\ \A p \in Routes : Copied(p)
  BY Fields DEF LifeInv
<1>2. ASSUME NEW p \in Routes
      PROVE  Agrees(p, cache[p].tunnel)'
  <2>1. CASE cache'[p] = cache[p]
    <3>1. PICK t : t = cache[p].tunnel
      OBVIOUS
    <3>2. Agrees(p, t) /\ Owns(p, t)
      BY <1>1, <3>1 DEF TunnelNamed, Copied
    <3>3. t \in Tunnels /\ tunnels'[t].state = "live" => api'[p].tunnel \in {None, t}
      BY <3>2, AgreesStep
    <3>4. QED
      BY <2>1, <3>1, <3>3 DEF Agrees, Live
  <2>2. CASE cache'[p] = api'[p]
    BY <2>2 DEF Agrees
  <2>3. cache'[p] = cache[p] \/ cache'[p] = api'[p]
    BY <1>1, ObjectWrites
    DEF Next, Others, CreateObject, EditObject, DeleteObject, ChangeValid, ChangeProvider,
        ChangeAddress, RemoveTunnel, RemoveCidr, AddCidr, Crash, Start, Deliver, TypeOK, vars
  <2>4. QED
    BY <2>1, <2>2, <2>3
<1>3. CASE work'.p = work.p /\ work'.obj = work.obj
  <2>1. PICK t : t = Obj.tunnel
    OBVIOUS
  <2>2. Agrees(P, t) /\ Owns(P, t)
    BY <1>1, <2>1 DEF TunnelNamed, Guarding
  <2>3. t \in Tunnels /\ tunnels'[t].state = "live" => api'[P].tunnel \in {None, t}
    BY <1>1, <2>2, AgreesStep
  <2>4. Agrees(P, Obj.tunnel)'
    BY <1>3, <2>1, <2>3 DEF Agrees, Live, Obj, P
  <2>5. QED
    BY <1>2, <2>4 DEF TunnelNamed
<1>4. CASE work'.p = work.p /\ work'.obj = api'[P]
  <2>1. Agrees(P, Obj.tunnel)'
    BY <1>4 DEF Agrees, Obj, P
  <2>2. QED
    BY <1>2, <2>1 DEF TunnelNamed
<1>5. CASE work' = Idle
  <2>1. ~Live(Obj.tunnel)'
    BY <1>5, Values, NoneAssumption DEF Live, Obj
  <2>2. QED
    BY <1>2, <2>1 DEF TunnelNamed, Agrees
<1>6. ASSUME NEW p \in Routes, Start(p)
      PROVE  TunnelNamed'
  <2>1. work'.p = p /\ work'.obj = cache[p] /\ cache' = cache
    BY <1>6, Values DEF Start, Worker
  <2>2. Agrees(p, cache[p].tunnel)'
    BY <1>2
  <2>3. Agrees(P, Obj.tunnel)'
    BY <2>1, <2>2 DEF Agrees, Live, Obj, P
  <2>4. QED
    BY <1>2, <2>3 DEF TunnelNamed
<1>7. CASE Step /\ ~Stops
  BY <1>1, <1>3, <1>4, <1>7, StepMoves
  DEF OpeningMoves, TunnelMoves, RouteMoves, ConnectMoves, FinalMoves, Keeps, Reads
<1>8. CASE Step /\ Stops
  BY <1>3, <1>5, <1>8 DEF Stops
<1>9. CASE Others \/ UNCHANGED vars \/ \E p \in Routes : Deliver(p)
  BY <1>3, <1>9
  DEF Others, CreateObject, EditObject, DeleteObject, ChangeValid, ChangeProvider,
      ChangeAddress, RemoveTunnel, RemoveCidr, AddCidr, Deliver, vars
<1>10. QED
  BY <1>5, <1>6, <1>7, <1>8, <1>9 DEF Next, Crash

\* What happens to a pass when it does not take a step of its own.
Begins == work'.pc \in {"idle", "fail", "addFinalizer", "validate", "finRoute"}
Waits ==
  /\ work' = work
  /\ api'[P].tunnel = api[P].tunnel /\ api'[P].route = api[P].route
  /\ api'[P].network = api[P].network
  /\ \A i \in CidrsOf(P)' : /\ i \in CidrsOf(P) /\ cidrs'[i].network = cidrs[i].network
                            /\ cidrs'[i].tunnel = cidrs[i].tunnel
  /\ \A t \in TunnelsOf(P)' : t \in TunnelsOf(P)

\* The manager, users and failures start a pass afresh or leave it alone.
LEMMA Elsewhere ==
  ASSUME TypeOK, Control, [Next]_vars, ~Step \/ Stops
  PROVE  Begins \/ Waits
<1>1. CASE Step /\ Stops
  BY <1>1, Values DEF Stops, Begins
<1>2. CASE Crash
  BY <1>2, Values DEF Crash, Begins
<1>3. CASE \E p \in Routes : Start(p)
  BY <1>3, Values DEF Start, Begins, Worker
<1>4. CASE ~Step /\ (Others \/ (\E p \in Routes : Deliver(p)) \/ UNCHANGED vars)
  <2>1. work' = work /\ P \in Routes
    BY <1>4, Fields
    DEF Others, CreateObject, EditObject, DeleteObject, ChangeValid, ChangeProvider,
        ChangeAddress, RemoveTunnel, RemoveCidr, AddCidr, Deliver, vars
  <2>2. /\ api'[P].tunnel = api[P].tunnel /\ api'[P].route = api[P].route
        /\ api'[P].network = api[P].network
    BY <1>4, <2>1, OthersWrites DEF Deliver, vars
  <2>3. \A i \in Cidrs : cidrs'[i].state = "live" /\ cidrs'[i].owner = P =>
          /\ i \in CidrsOf(P) /\ cidrs'[i].network = cidrs[i].network
          /\ cidrs'[i].tunnel = cidrs[i].tunnel
    BY <1>4, <2>1, CidrsShrink
  <2>4. \A t \in Tunnels : tunnels'[t].state = "live" /\ tunnels'[t].owner = P =>
          t \in TunnelsOf(P)
    BY <1>4, OthersWrites DEF TunnelsOf, Live, Deliver, remote, vars
  <2>5. QED
    BY <2>1, <2>2, <2>3, <2>4 DEF Waits, CidrsOf, TunnelsOf, Routed, Live, P
<1>5. QED
  BY <1>1, <1>2, <1>3, <1>4 DEF Next

\* ensureRoute and ensureConnector read what they write.
LEMMA AgreedStep ==
  ASSUME ScopeInv, [Next]_vars
  PROVE  Agreed'
<1>1. TypeOK /\ Control /\ Agreed /\ P \in Routes
  BY Fields DEF ScopeInv, LifeInv
<1>2. CASE Begins
  BY <1>2 DEF Begins, Agreed, Aim, Removing, Routing
<1>3. CASE Waits
  BY <1>1, <1>3 DEF Waits, Agreed, Aim, Obj, P
<1>4. CASE Step /\ ~Stops
  <2>1. /\ work'.p = work.p
        /\ \/ work'.obj = api'[P]
           \/ /\ work'.obj = work.obj
              /\ Aim' \in Routing => Aim \in Routing
              /\ work.pc \notin {"record", "clear", "recordRoute", "persist"}
    BY <1>1, <1>4, StepMoves
    DEF OpeningMoves, TunnelMoves, RouteMoves, ConnectMoves, FinalMoves, Keeps, Reads, At,
        Aim, Removing, Routing
  <2>2. CASE work'.obj = api'[P]
    BY <2>1, <2>2 DEF Agreed, Obj, P
  <2>3. CASE /\ work'.obj = work.obj
             /\ Aim' \in Routing => Aim \in Routing
             /\ work.pc \notin {"record", "clear", "recordRoute", "persist"}
    <3>1. /\ api'[P].tunnel = api[P].tunnel /\ api'[P].route = api[P].route
          /\ api'[P].network = api[P].network
      BY <1>1, <1>4, <2>3, ObjectWrites DEF Links, At
    <3>2. QED
      BY <1>1, <2>1, <2>3, <3>1 DEF Agreed, Obj, P
  <2>4. QED
    BY <2>1, <2>2, <2>3
<1>5. QED
  BY <1>1, <1>2, <1>3, <1>4, Elsewhere

\* The tunnel of the pass is the one that the status names, or it names none.
LEMMA TunnelFoundStep ==
  ASSUME ScopeInv, [Next]_vars
  PROVE  TunnelFound'
<1>1. /\ TypeOK /\ Control /\ TunnelFound /\ TunnelNamed /\ Cleaned /\ OneTunnelEach
      /\ P \in Routes /\ Owns(P, Obj.tunnel)
  BY Fields DEF ScopeInv, LifeInv, Guarding
<1>2. CASE Begins
  BY <1>2 DEF Begins, TunnelFound, At, Aim, Removing, Routing
<1>3. CASE Waits
  BY <1>1, <1>3 DEF Waits, TunnelFound, At, Aim, Obj, P
<1>4. CASE Step /\ ~Stops
  <2>1. Links /\ (OpeningMoves \/ TunnelMoves \/ RouteMoves \/ ConnectMoves \/ FinalMoves)
    BY <1>1, <1>4, ObjectWrites, StepMoves
  <2>2. ~At("record") /\ ~(At("clear") /\ work.after = "find") => api'[P].tunnel = api[P].tunnel
    BY <2>1 DEF Links
  <2>3. CASE At("clear")
    <3>1. /\ work'.p = work.p /\ work'.tunnel = work.tunnel /\ work'.pc = work.after
          /\ work'.obj = api'[P]
          /\ work.after \in {"status", "find", "getRoute", "list", "finDeploy"}
          /\ Obj.tunnel # None /\ work.after = "find" => api'[P].tunnel = None
      BY <1>1, <2>1, <2>3
      DEF OpeningMoves, TunnelMoves, RouteMoves, ConnectMoves, FinalMoves, Reads, Control, At,
          Removing
    <3>2. work.after = "find" => api'[P].tunnel = None
      BY <1>1, <2>3, <3>1 DEF TunnelFound, At, Removing
    <3>3. QED
      BY <1>1, <2>2, <2>3, <3>1, <3>2 DEF TunnelFound, At, Aim, Removing, Routing, Obj, P
  <2>4. CASE ~At("clear") /\ OpeningMoves
    BY <1>1, <2>2, <2>4
    DEF OpeningMoves, TunnelFound, Keeps, At, Aim, Removing, Routing, Obj, P
  <2>5. CASE TunnelMoves
    <3>1. CASE At("getTunnel") /\ work'.pc # "record"
      BY <1>1, <2>2, <2>5, <3>1
      DEF TunnelMoves, TunnelFound, Keeps, At, Aim, Removing, Routing, Obj, P
    <3>2. CASE At("record")
      BY <1>1, <2>5, <3>2
      DEF TunnelMoves, TunnelFound, Keeps, Reads, At, Aim, Removing, Routing, Obj, P
    <3>3. CASE At("find") /\ work'.pc # "record"
      BY <1>1, <2>2, <2>5, <3>3
      DEF TunnelMoves, TunnelFound, Keeps, At, Aim, Removing, Routing, Obj, P
    <3>4. CASE work.pc \in {"getTunnel", "find", "create"} /\ work'.pc = "record"
      <4>1. work'.p = work.p /\ work'.obj = work.obj /\ api'[P].tunnel = api[P].tunnel
        BY <2>2, <2>5, <3>4 DEF TunnelMoves, Keeps, At
      <4>2. /\ Obj.tunnel \in {None, work'.tunnel}
            /\ Obj.tunnel = work'.tunnel => api[P].tunnel \in {None, work'.tunnel}
        BY <1>1, <2>5, <3>4, NoneAssumption
        DEF TunnelMoves, TunnelFound, TunnelNamed, Agrees, At, TunnelsOf
      <4>3. PICK u : u = work'.tunnel
        OBVIOUS
      <4>4. \A t \in Tunnels : tunnels'[t].state = "live" /\ tunnels'[t].owner = P => t = u
        <5>1. CASE At("create")
          <6>1. u \in Tunnels /\ Makes(u) /\ TunnelsOf(P) = {}
            BY <1>1, <2>5, <4>3, <5>1 DEF TunnelMoves, Cleaned, At
          <6>2. \A t \in Tunnels \ {u} : tunnels'[t] = tunnels[t]
            BY <6>1 DEF Makes
          <6>3. QED
            BY <6>1, <6>2 DEF TunnelsOf, Live
        <5>2. CASE ~At("create")
          <6>1. tunnels' = tunnels
            BY <1>1, <1>4, <3>4, <5>2, TunnelWrites DEF Makes, Drops, At
          <6>2. u \in TunnelsOf(P)
            BY <1>1, <2>5, <3>4, <4>3, <5>2, NoneAssumption
            DEF TunnelMoves, At, Owns, TunnelsOf, Live
          <6>3. QED
            BY <1>1, <6>1, <6>2 DEF OneTunnelEach, TunnelsOf, Live
        <5>3. QED
          BY <5>1, <5>2
      <4>5. \A t \in TunnelsOf(P)' : t = work'.tunnel
        BY <4>1, <4>3, <4>4 DEF TunnelsOf, Live, P
      <4>6. QED
        BY <3>4, <4>1, <4>2, <4>5 DEF TunnelFound, At, Aim, Removing, Routing, Obj, P
    <3>5. QED
      BY <2>5, <3>1, <3>2, <3>3, <3>4 DEF TunnelMoves, At
  <2>6. CASE RouteMoves
    BY <1>1, <2>2, <2>6
    DEF RouteMoves, TunnelFound, Keeps, Reads, At, Aim, Removing, Routing, P
  <2>7. CASE ConnectMoves
    BY <1>1, <2>2, <2>7 DEF ConnectMoves, TunnelFound, At, Aim, Removing, Routing, P
  <2>8. CASE FinalMoves
    BY <2>8 DEF FinalMoves, TunnelFound, At, Aim, Removing, Routing
  <2>9. QED
    BY <2>1, <2>3, <2>4, <2>5, <2>6, <2>7, <2>8
<1>5. QED
  BY <1>1, <1>2, <1>3, <1>4, Elsewhere

\* ensureRoute runs with the network that the status names, or it names none.
LEMMA NetworkFoundStep ==
  ASSUME ScopeInv, [Next]_vars
  PROVE  NetworkFound'
<1>1. TypeOK /\ Control /\ NetworkFound /\ Agreed /\ P \in Routes
  BY Fields DEF ScopeInv, LifeInv
<1>2. CASE Begins
  BY <1>2 DEF Begins, NetworkFound, At, Routing
<1>3. CASE Waits
  BY <1>1, <1>3 DEF Waits, NetworkFound, At, P
<1>4. CASE Step /\ ~Stops
  <2>1. Links /\ (OpeningMoves \/ TunnelMoves \/ RouteMoves \/ ConnectMoves \/ FinalMoves)
    BY <1>1, <1>4, ObjectWrites, StepMoves
  <2>2. /\ ~At("persist") /\ ~At("recordRoute") /\ ~At("clear") =>
             api'[P].network = api[P].network
        /\ ~At("recordRoute") /\ ~At("clear") => api'[P].route = api[P].route
    BY <2>1 DEF Links
  <2>3. CASE At("clear")
    <3>1. /\ work'.p = work.p /\ work'.network = work.network /\ work'.pc = work.after
          /\ work.after \in {"status", "find", "getRoute", "list", "finDeploy"}
          /\ Obj.route # None => api'[P].route = None
          /\ Obj.network # None => api'[P].network = None
      BY <1>1, <2>1, <2>3
      DEF OpeningMoves, TunnelMoves, RouteMoves, ConnectMoves, FinalMoves, Reads, Control, At,
          Removing
    <3>2. work.after \in Routing => api'[P].route = None /\ api'[P].network = None
      BY <1>1, <2>1, <2>3, <3>1 DEF Agreed, Aim, Removing, Links, At
    <3>3. QED
      BY <2>3, <3>1, <3>2 DEF NetworkFound, Routing, At, P
  <2>4. CASE ~At("clear") /\ OpeningMoves
    BY <2>4 DEF OpeningMoves, NetworkFound, At, Routing
  <2>5. CASE TunnelMoves
    BY <1>1, <2>2, <2>5 DEF TunnelMoves, NetworkFound, Keeps, Reads, At, Routing, P
  <2>6. CASE RouteMoves
    <3>1. CASE At("getRoute")
      BY <1>1, <2>2, <2>6, <3>1
      DEF RouteMoves, NetworkFound, Agreed, Aim, Removing, Keeps, At, Routing, P
    <3>2. CASE At("list")
      BY <1>1, <2>2, <2>6, <3>2
      DEF RouteMoves, NetworkFound, Agreed, Aim, Removing, Keeps, At, Routing, P
    <3>3. CASE At("persist")
      BY <1>1, <2>2, <2>6, <3>3
      DEF RouteMoves, NetworkFound, Agreed, Aim, Removing, Reads, At, Routing, P
    <3>4. CASE At("createRoute")
      BY <1>1, <2>2, <2>6, <3>4 DEF RouteMoves, NetworkFound, Keeps, At, Routing, P
    <3>5. CASE At("recordRoute")
      BY <1>1, <2>1, <2>6, <3>5
      DEF RouteMoves, NetworkFound, Links, Reads, At, Routing, P
    <3>6. QED
      BY <2>6, <3>1, <3>2, <3>3, <3>4, <3>5 DEF RouteMoves
  <2>7. CASE ConnectMoves
    BY <1>1, <2>2, <2>7 DEF ConnectMoves, NetworkFound, At, Routing, P
  <2>8. CASE FinalMoves
    BY <2>8 DEF FinalMoves, NetworkFound, At, Routing
  <2>9. QED
    BY <2>1, <2>3, <2>4, <2>5, <2>6, <2>7, <2>8
<1>5. QED
  BY <1>1, <1>2, <1>3, <1>4, Elsewhere

\* What deleteRoute, the status and the account say of a route.
LEMMA RouteFoundStep ==
  ASSUME ScopeInv, [Next]_vars
  PROVE  RouteFound'
<1>1. TypeOK /\ Control /\ RouteFound /\ NetworkFound /\ OneRouteEach /\ P \in Routes
  BY Fields DEF ScopeInv, LifeInv
<1>2. CASE Begins
  BY <1>2 DEF Begins, RouteFound, At, Removing, Cleaning
<1>3. CASE Waits
  BY <1>1, <1>3 DEF Waits, RouteFound, At, Obj, P
<1>4. CASE Step /\ ~Stops
  <2>1. /\ OpeningMoves \/ TunnelMoves \/ RouteMoves \/ ConnectMoves \/ FinalMoves
        /\ work'.p = work.p
    BY <1>1, <1>4, StepMoves
    DEF OpeningMoves, TunnelMoves, RouteMoves, ConnectMoves, FinalMoves, Keeps, Reads
  <2>2. ~At("createRoute") =>
          \A i \in CidrsOf(P)' : /\ i \in CidrsOf(P) /\ cidrs'[i].network = cidrs[i].network
                                 /\ cidrs'[i].tunnel = cidrs[i].tunnel
                                 /\ cidrs'[i].state = "live"
    BY <1>1, <1>4, <2>1, CidrsShrink DEF CidrsOf, Routed, Opens, P
  <2>3. \A i \in CidrsOf(P) : cidrs[i].network # None
    BY <1>1, NoneAssumption DEF CidrsOf, Routed, TypeOK
  <2>4. work'.pc = "clear" =>
          \A i \in CidrsOf(P)' : ~(/\ cidrs'[i].network = work'.obj.network
                                   /\ cidrs'[i].tunnel = work'.obj.tunnel
                                   /\ work'.obj.route \in {None, i})
    <3>1. SUFFICES ASSUME work'.pc = "clear", NEW i \in CidrsOf(P)',
                          cidrs'[i].network = work'.obj.network,
                          cidrs'[i].tunnel = work'.obj.tunnel, work'.obj.route \in {None, i}
                   PROVE  FALSE
      OBVIOUS
    <3>2. /\ At("deleteRoute") \/ At("getTunnel") \/ At("getRoute")
          /\ work'.obj = work.obj
      BY <1>1, <2>1, <3>1
      DEF OpeningMoves, TunnelMoves, RouteMoves, ConnectMoves, FinalMoves, Keeps, At, Control,
          Removing
    <3>3. /\ i \in CidrsOf(P) /\ cidrs'[i].state = "live"
          /\ cidrs[i].network = Obj.network /\ cidrs[i].tunnel = Obj.tunnel
          /\ Obj.route \in {None, i} /\ Obj.network # None
      BY <2>2, <2>3, <3>1, <3>2 DEF At, Obj
    <3>4. CASE At("deleteRoute")
      <4>1. Emptied
        BY <2>1, <3>1, <3>4
        DEF OpeningMoves, TunnelMoves, RouteMoves, ConnectMoves, FinalMoves, At
      <4>2. i \in CidrsFor(Obj.network) /\ PrivateOwned(i)
        BY <3>3 DEF CidrsOf, CidrsFor, Routed, PrivateOwned
      <4>3. QED
        BY <3>3, <4>1, <4>2 DEF Emptied
    <3>5. CASE At("getTunnel")
      BY <2>1, <3>1, <3>3, <3>5
      DEF OpeningMoves, TunnelMoves, RouteMoves, ConnectMoves, FinalMoves, At
    <3>6. CASE At("getRoute")
      <4>1. Obj.route # None /\ ~Routed(Obj.route)
        BY <2>1, <3>1, <3>6
        DEF OpeningMoves, TunnelMoves, RouteMoves, ConnectMoves, FinalMoves, At
      <4>2. QED
        BY <3>3, <4>1 DEF CidrsOf
    <3>7. QED
      BY <3>2, <3>4, <3>5, <3>6
  <2>5. work'.pc \in Removing /\ work'.after = "finDeploy" => work'.obj.network # None
    BY <1>1, <2>1
    DEF OpeningMoves, TunnelMoves, RouteMoves, ConnectMoves, FinalMoves, Keeps, Reads, At,
        Control, Removing, RouteFound, Obj
  <2>6. work'.pc \in Cleaning /\ work'.obj.policy = "Delete" => work'.obj.network = None
    <3>1. CASE At("clear")
      BY <1>1, <2>1, <3>1
      DEF OpeningMoves, TunnelMoves, RouteMoves, ConnectMoves, FinalMoves, Reads, At, Control,
          Removing, Cleaning, RouteFound
    <3>2. CASE ~At("clear")
      BY <1>1, <2>1, <3>2
      DEF OpeningMoves, TunnelMoves, RouteMoves, ConnectMoves, FinalMoves, Keeps, Reads, At,
          Cleaning, RouteFound, Obj
    <3>3. QED
      BY <3>1, <3>2
  <2>7. work'.pc = "recordRoute" =>
          \A i \in CidrsOf(P)' : cidrs'[i].network = work'.network => i = work'.id
    <3>1. SUFFICES ASSUME work'.pc = "recordRoute"
                   PROVE  \A i \in CidrsOf(P)' :
                            cidrs'[i].network = work'.network => i = work'.id
      OBVIOUS
    <3>2. RouteMoves /\ (At("list") \/ At("createRoute"))
      BY <1>1, <2>1, <3>1
      DEF OpeningMoves, TunnelMoves, RouteMoves, ConnectMoves, FinalMoves, Control, At, Removing
    <3>3. CASE At("list")
      <4>1. work'.id \in CidrsFor(work.network) /\ work'.network = work.network
        BY <3>1, <3>2, <3>3 DEF RouteMoves, Keeps, At
      <4>2. QED
        BY <1>1, <2>2, <3>3, <4>1 DEF OneRouteEach, CidrsFor, CidrsOf, At
    <3>4. CASE At("createRoute")
      <4>1. PICK j \in Cidrs : j = work'.id /\ Opens(j) /\ work'.network = work.network
        BY <3>1, <3>2, <3>4 DEF RouteMoves, Keeps, At
      <4>2. (\A i \in Cidrs \ {j} : cidrs'[i] = cidrs[i]) /\ CidrsFor(work.network) = {}
        BY <4>1 DEF Opens
      <4>3. QED
        BY <4>1, <4>2 DEF CidrsOf, CidrsFor, Routed
    <3>5. QED
      BY <3>2, <3>3, <3>4
  <2>8. QED
    BY <2>1, <2>4, <2>5, <2>6, <2>7 DEF RouteFound, At, Obj, P
<1>5. QED
  BY <1>1, <1>2, <1>3, <1>4, Elsewhere

\* The inductive invariant.
LEMMA ScopeHolds == Spec => []ScopeInv
<1>1. LifeInv /\ Init => ScopeInv
  <2>1. SUFFICES ASSUME LifeInv, Init PROVE ScopeInv
    OBVIOUS
  <2>2. work.pc = "idle" /\ \A t \in Tunnels : ~Live(t)
    BY <2>1, Values DEF Init, Live
  <2>3. \A i \in Cidrs : ~Routed(i)
    BY <2>1 DEF Init, Routed
  <2>4. TunnelNamed /\ OneRouteEach
    BY <2>2, <2>3 DEF TunnelNamed, Agrees, Live, OneRouteEach
  <2>5. Agreed /\ TunnelFound /\ NetworkFound /\ RouteFound
    BY <2>2
    DEF Agreed, TunnelFound, NetworkFound, RouteFound, At, Aim, Removing, Routing, Cleaning
  <2>6. QED
    BY <2>1, <2>4, <2>5 DEF ScopeInv
<1>2. ScopeInv /\ LifeInv' /\ [Next]_vars => ScopeInv'
  <2>1. SUFFICES ASSUME ScopeInv, LifeInv', [Next]_vars PROVE ScopeInv'
    OBVIOUS
  <2>2. TunnelNamed' /\ OneRouteEach'
    BY <2>1, TunnelNamedStep, OneRouteStep DEF ScopeInv, LifeInv
  <2>3. QED
    BY <2>1, <2>2, AgreedStep, TunnelFoundStep, NetworkFoundStep, RouteFoundStep DEF ScopeInv
<1>3. QED
  BY <1>1, <1>2, LifeHolds, PTL DEF Spec

\* Every step of a pass changes what the pass has.
LEMMA PassMoves ==
  ASSUME TypeOK, Control, Step, work' = work
  PROVE  work.pc \in {"idle", "fail"}
<1>1. CASE Stops
  BY <1>1 DEF Stops
<1>2. CASE ~Stops
  BY <1>2, StepMoves
  DEF OpeningMoves, TunnelMoves, RouteMoves, ConnectMoves, FinalMoves, At, Control, Removing
<1>3. QED
  BY <1>1, <1>2

\* What a pass that works with the present status does to it and to the account.
LEMMA PassKeepsScope ==
  ASSUME ScopeInv, Step, Informed, NEW p \in Routes, p = P, Scoped(p)
  PROVE  Scoped(p)'
<1>1. /\ TypeOK /\ Control /\ Guarding /\ Lasts(p)
      /\ TunnelFound /\ NetworkFound /\ RouteFound
      /\ SameSpec \/ Guards \/ Frees
      /\ Links
  BY Lasting, ObjectWrites DEF ScopeInv, LifeInv, Next
<1>2. \A i \in Cidrs : cidrs'[i].state = "live" /\ cidrs'[i].owner = p =>
        \/ /\ i \in CidrsOf(p)
           /\ cidrs'[i].network = cidrs[i].network /\ cidrs'[i].tunnel = cidrs[i].tunnel
        \/ Opens(i)
  BY <1>1, CidrsShrink DEF Next
<1>3. \A i \in CidrsOf(p) : cidrs[i].network # None /\ cidrs[i].tunnel # None
  BY <1>1, NoneAssumption DEF CidrsOf, Routed, TypeOK
<1>4. At("createRoute") => Exists(p) /\ ~Guards /\ ~Frees
  BY <1>1 DEF Guarding, Guards, Frees, At, Aim, Removing, Routing
<1>5. CASE api'[p].phase = "gone"
  <2>1. SUFFICES ASSUME api'[p].policy = "Delete", NEW i \in Cidrs,
                        cidrs'[i].state = "live", cidrs'[i].owner = p
                 PROVE  FALSE
    BY <1>5 DEF Scoped, CidrsOf, Routed
  <2>2. CASE Opens(i)
    BY <1>1, <1>4, <1>5, <2>2 DEF Opens, SameSpec, Exists
  <2>3. CASE i \in CidrsOf(p)
    <3>1. CASE api[p].phase = "gone"
      BY <1>1, <2>1, <2>3, <3>1 DEF Lasts, Scoped
    <3>2. CASE api[p].phase # "gone"
      <4>1. Frees
        BY <1>1, <1>5, <3>2 DEF SameSpec, Guards
      <4>2. Obj.policy = "Delete" /\ work.pc \in Cleaning
        BY <2>1, <4>1 DEF Frees, SameStatus, At, Cleaning
      <4>3. api[p].network = None
        BY <1>1, <4>2 DEF RouteFound, Informed
      <4>4. QED
        BY <1>3, <2>3, <3>2, <4>3 DEF Scoped
    <3>3. QED
      BY <3>1, <3>2
  <2>4. QED
    BY <1>2, <2>1, <2>2, <2>3
<1>6. CASE api'[p].phase # "gone"
  <2>1. api[p].phase # "gone"
    BY <1>1, <1>6 DEF Lasts
  <2>2. SUFFICES ASSUME NEW i \in Cidrs, cidrs'[i].state = "live", cidrs'[i].owner = p
                 PROVE  /\ cidrs'[i].network = api'[p].network
                        /\ cidrs'[i].tunnel = api'[p].tunnel
                        /\ api'[p].route \in {None, i}
    BY <1>6 DEF Scoped, CidrsOf, Routed
  <2>3. CASE Opens(i)
    <3>1. At("createRoute") /\ cidrs'[i].network = work.network /\ cidrs'[i].tunnel = work.tunnel
      BY <1>1, <2>3 DEF Opens, TypeOK
    <3>2. api[p].network = work.network /\ api[p].tunnel = work.tunnel /\ api[p].route = None
      BY <1>1, <3>1 DEF NetworkFound, Informed, At
    <3>3. /\ api'[p].network = api[p].network /\ api'[p].tunnel = api[p].tunnel
          /\ api'[p].route = api[p].route
      BY <1>1, <3>1 DEF Links, At
    <3>4. QED
      BY <3>1, <3>2, <3>3
  <2>4. CASE /\ i \in CidrsOf(p)
             /\ cidrs'[i].network = cidrs[i].network /\ cidrs'[i].tunnel = cidrs[i].tunnel
    <3>1. /\ cidrs[i].network = api[p].network /\ cidrs[i].tunnel = api[p].tunnel
          /\ api[p].route \in {None, i}
          /\ api[p].network # None /\ api[p].tunnel # None
      BY <1>3, <2>1, <2>4 DEF Scoped
    <3>2. ~At("clear") /\ ~At("persist")
      BY <1>1, <2>4, <3>1 DEF RouteFound, NetworkFound, Informed
    <3>3. At("recordRoute") => i = work.id /\ api[p].network = work.network
      BY <1>1, <2>4, <3>1 DEF RouteFound, NetworkFound, At, Routing
    <3>4. At("record") => work.tunnel = api[p].tunnel
      BY <1>1, <3>1 DEF TunnelFound, Informed
    <3>5. QED
      BY <1>1, <2>4, <3>1, <3>2, <3>3, <3>4 DEF Links
  <2>5. QED
    BY <1>2, <2>2, <2>3, <2>4
<1>7. QED
  BY <1>5, <1>6

\* Nobody else makes the two disagree.
LEMMA OthersKeepScope ==
  ASSUME ScopeInv, [Next]_vars, NEW p \in Routes, Scoped(p), ~Step \/ p # P
  PROVE  Scoped(p)'
<1>1. TypeOK /\ Control /\ Bare(p)
  BY DEF ScopeInv, LifeInv
<1>2. \A i \in CidrsOf(p)' : /\ i \in CidrsOf(p) /\ cidrs'[i].network = cidrs[i].network
                             /\ cidrs'[i].tunnel = cidrs[i].tunnel
  BY <1>1, CidrsShrink DEF CidrsOf, Routed
<1>3. CASE api'[p] = api[p]
  BY <1>2, <1>3 DEF Scoped
<1>4. CASE Others
  <2>1. /\ api'[p].tunnel = api[p].tunnel /\ api'[p].route = api[p].route
        /\ api'[p].network = api[p].network
        /\ \/ api'[p].phase = api[p].phase
           \/ api'[p].phase \in {"live", "deleting"} /\ api[p].phase # "gone"
           \/ api'[p].phase = "gone" /\ CidrsOf(p) = {}
        /\ api'[p].policy = api[p].policy \/ api'[p].phase # "gone"
    BY <1>1, <1>4, OthersWrites DEF Bare, Guarded
  <2>2. QED
    BY <1>2, <2>1 DEF Scoped
<1>5. QED
  BY <1>1, <1>3, <1>4, ObjectWrites DEF Next, Crash, Start, Deliver, vars

\* Only a step of a pass that works with an old status makes the account and
\* the status disagree: while the Service moves, tunnels go and calls fail, an
\* object has one route at most, the status names its network before it is made
\* and until it is gone, and it is gone before its object.
THEOREM ScopeIsKept == Spec => ScopeKept
<1>1. ASSUME ScopeInv, [Next]_vars
      PROVE  [\A p \in Routes :
                Scoped(p) /\ (P = p /\ work' # work => Informed) => Scoped(p)']_vars
  <2>1. SUFFICES ASSUME NEW p \in Routes, Scoped(p), P = p /\ work' # work => Informed, Next
                 PROVE  Scoped(p)'
    BY <1>1
  <2>2. CASE ~Step \/ p # P
    BY <1>1, <2>1, <2>2, OthersKeepScope
  <2>3. CASE Step /\ p = P /\ work' # work
    BY <1>1, <2>1, <2>3, PassKeepsScope
  <2>4. CASE Step /\ p = P /\ work' = work
    <3>1. TypeOK /\ Control /\ work.pc \in {"idle", "fail"}
      BY <1>1, <2>4, PassMoves DEF ScopeInv, LifeInv
    <3>2. /\ api'[p].tunnel = api[p].tunnel /\ api'[p].route = api[p].route
          /\ api'[p].network = api[p].network
          /\ api'[p].phase = api[p].phase /\ api'[p].policy = api[p].policy
      BY <2>4, <3>1, ObjectWrites DEF Links, SameSpec, Guards, Frees, At
    <3>3. cidrs' = cidrs
      BY <2>4, <3>1, CidrWrites DEF Opens, Closes, At
    <3>4. QED
      BY <2>1, <3>2, <3>3 DEF Scoped, CidrsOf, Routed
  <2>5. QED
    BY <2>2, <2>3, <2>4
<1>2. QED
  BY <1>1, ScopeHolds, PTL DEF Spec, ScopeKept

\* finalize deletes a tunnel only when the object's route to it is gone, unless
\* it works with an old status.
THEOREM RouteGoesFirst == Spec => RouteBeforeTunnel
<1>1. ASSUME ScopeInv, [Next]_vars
      PROVE  [\A t \in Tunnels :
                /\ tunnels[t].state = "live" /\ tunnels'[t].state = "deleted"
                /\ Exists(P) /\ Informed /\ Scoped(P)
                => CidrsOf(P) = {}]_vars
  <2>1. TypeOK /\ RouteFound
    BY <1>1 DEF ScopeInv, LifeInv
  <2>2. SUFFICES ASSUME NEW t \in Tunnels, tunnels[t].state = "live",
                        tunnels'[t].state = "deleted", Next,
                        Exists(P), Informed, Scoped(P)
                 PROVE  CidrsOf(P) = {}
    BY <1>1
  <2>3. CASE Step
    <3>1. Drops
      BY <2>1, <2>2, <2>3, TunnelWrites DEF Makes, TypeOK
    <3>2. api[P].network = None
      BY <2>1, <2>2, <3>1 DEF Drops, RouteFound, Informed, At, Cleaning
    <3>3. \A i \in CidrsOf(P) : cidrs[i].network # None
      BY <2>1, Fields, NoneAssumption DEF CidrsOf, Routed, TypeOK
    <3>4. QED
      BY <2>2, <3>2, <3>3 DEF Scoped, Exists
  <2>4. CASE Others
    BY <2>1, <2>2, <2>4, OthersWrites
  <2>5. CASE Crash \/ \E p \in Routes : Start(p) \/ Deliver(p)
    BY <2>2, <2>5 DEF Crash, Start, Deliver, remote
  <2>6. QED
    BY <2>2, <2>3, <2>4, <2>5 DEF Next
<1>2. QED
  BY <1>1, ScopeHolds, PTL DEF Spec, RouteBeforeTunnel

\* When ensureRoute creates a route, the API server already holds what cleanup
\* needs to find it: the finalizer, the network, no other route and no tunnel
\* that privateOwned would tell from that of the route.
THEOREM ScopeGoesFirst == Spec => ScopeBeforeRoute
<1>1. ASSUME ScopeInv, [Next]_vars
      PROVE  [\A i \in Cidrs :
                LET p == cidrs'[i].owner
                IN  cidrs[i].state = "unused" /\ cidrs'[i].state = "live" /\ p \in Routes =>
                      /\ Exists(p) /\ api[p].finalizer
                      /\ api[p].network = cidrs'[i].network /\ api[p].route = None
                      /\ api[p].tunnel \in {None, cidrs'[i].tunnel}]_vars
  <2>1. /\ TypeOK /\ TunnelFound /\ NetworkFound /\ Guarding /\ P \in Routes
    BY <1>1, Fields DEF ScopeInv, LifeInv
  <2>2. SUFFICES ASSUME NEW i \in Cidrs, cidrs[i].state = "unused", cidrs'[i].state = "live",
                        cidrs'[i].owner \in Routes, Next
                 PROVE  /\ cidrs'[i].owner = P /\ Exists(P) /\ api[P].finalizer
                        /\ api[P].network = cidrs'[i].network /\ api[P].route = None
                        /\ api[P].tunnel \in {None, cidrs'[i].tunnel}
    BY <1>1
  <2>3. PICK p \in Routes : p = cidrs'[i].owner
    BY <2>2
  <2>4. p = P /\ Opens(i)
    BY <1>1, <2>1, <2>2, <2>3, CidrsShrink DEF CidrsOf, Routed
  <2>5. At("createRoute") /\ Exists(P)
    BY <2>1, <2>4 DEF Opens, Guarding, At, Aim, Removing, Routing
  <2>6. api[P].finalizer
    BY <2>1, <2>5 DEF Guarding, Guarded, Exists, At
  <2>7. /\ api[P].network = work.network /\ api[P].route = None
        /\ api[P].tunnel \in {None, work.tunnel}
    BY <2>1, <2>5 DEF TunnelFound, NetworkFound, At, Aim, Removing, Routing
  <2>8. cidrs'[i].network = work.network /\ cidrs'[i].tunnel = work.tunnel
    BY <2>1, <2>4 DEF Opens, TypeOK
  <2>9. QED
    BY <2>3, <2>4, <2>5, <2>6, <2>7, <2>8
<1>2. QED
  BY <1>1, ScopeHolds, PTL DEF Spec, ScopeBeforeRoute

-----------------------------------------------------------------------------
(* The controller implements OwnedTunnels.                                 *)

\* A pass on a copy that is not being deleted is about an object that is there:
\* the finalizer goes only in a pass on a copy that is, and the cache never
\* goes back to an earlier one.
Present ==
  /\ \A p \in Routes : cache[p].phase = "live" /\ cache[p].finalizer => Exists(p)
  /\ Aim \in Finalizing => cache[P].phase \in {"deleting", "gone"}
  /\ work.pc \notin {"idle", "addFinalizer", "fail"} /\ Aim \notin Finalizing => Exists(P)
  /\ work.pc \notin {"idle", "fail"} => Obj.phase \in {"live", "deleting"}

\* Where a step of the pass comes from, once more.
LEMMA ComesWith ==
  ASSUME TypeOK, Control, Step, ~Stops
  PROVE  /\ work.pc \notin {"idle", "addFinalizer", "fail"} /\ work'.p = work.p
         /\ Aim' \in Finalizing <=> Aim \in Finalizing
         /\ work'.obj = work.obj \/ work'.obj = api'[P]
         /\ work'.obj # work.obj => Exists(P) \/ At("resources")
         /\ ~At("finRemove")
<1>1. CASE OpeningMoves
  BY <1>1 DEF OpeningMoves, Control, Aim, Removing, Ensuring, Routing, Finalizing, Cleaning,
              At, Keeps, Reads, Obj
<1>2. CASE TunnelMoves
  BY <1>2 DEF TunnelMoves, Aim, Removing, Finalizing, Cleaning, At, Keeps, Reads, Obj
<1>3. CASE RouteMoves
  BY <1>3 DEF RouteMoves, Aim, Removing, Finalizing, Cleaning, At, Keeps, Reads, Obj
<1>4. CASE ConnectMoves \/ FinalMoves
  BY <1>4 DEF ConnectMoves, FinalMoves, Aim, Removing, Finalizing, Cleaning, At, Obj
<1>5. QED
  BY <1>1, <1>2, <1>3, <1>4, StepMoves

\* Every step keeps this.
LEMMA PresentStep ==
  ASSUME LifeInv, Present, [Next]_vars
  PROVE  Present'
<1>1. /\ TypeOK /\ Control /\ Guarding /\ P \in Routes
      /\ \A p \in Routes : Lasts(p) /\ Copied(p)
  BY Lasting, Fields DEF LifeInv
<1>2. At("finRemove") => Aim \in Finalizing
  BY DEF At, Aim, Removing, Finalizing, Cleaning
<1>3. ASSUME NEW p \in Routes, cache'[p].phase = "live", cache'[p].finalizer
      PROVE  Exists(p)'
  <2>1. CASE cache'[p] = cache[p]
    <3>1. Exists(p) /\ Guarded(p)
      BY <1>1, <1>3, <2>1 DEF Present, Copied
    <3>2. ~(p = P /\ At("finRemove"))
      BY <1>2, <1>3, <2>1 DEF Present
    <3>3. QED
      BY <1>1, <3>1, <3>2 DEF Lasts
  <2>2. CASE cache'[p] = api'[p]
    BY <1>3, <2>2 DEF Exists
  <2>3. cache'[p] = cache[p] \/ cache'[p] = api'[p]
    BY <1>1, ObjectWrites
    DEF Next, Others, CreateObject, EditObject, DeleteObject, ChangeValid, ChangeProvider,
        ChangeAddress, RemoveTunnel, RemoveCidr, AddCidr, Crash, Start, Deliver, TypeOK, vars
  <2>4. QED
    BY <2>1, <2>2, <2>3
<1>4. CASE Step /\ ~Stops
  <2>1. /\ work.pc \notin {"idle", "addFinalizer", "fail"} /\ work'.p = work.p
        /\ Aim' \in Finalizing <=> Aim \in Finalizing
        /\ work'.obj = work.obj \/ work'.obj = api'[P]
        /\ work'.obj # work.obj => Exists(P) \/ At("resources")
        /\ ~At("finRemove") /\ cache' = cache
    BY <1>1, <1>4, ComesWith, ObjectWrites
  <2>2. At("resources") => Aim \notin Finalizing
    BY DEF At, Aim, Removing, Finalizing, Cleaning
  <2>3. work'.obj # work.obj => Exists(P)
    BY <2>1, <2>2 DEF Present, At
  <2>4. Guarded(P)
    BY <1>1, <2>1 DEF Guarding
  <2>5. Exists(P) => Exists(P)'
    BY <1>1, <2>1, <2>4 DEF Lasts, Exists, P
  <2>6. work'.obj.phase \in {"live", "deleting"}
    BY <2>1, <2>3, <2>5 DEF Present, Exists, Obj, P
  <2>7. Aim' \notin Finalizing => Exists(P)'
    BY <2>1, <2>5 DEF Present
  <2>8. QED
    BY <1>3, <2>1, <2>6, <2>7 DEF Present, Obj, P
<1>5. CASE (Step /\ Stops) \/ Crash
  <2>1. work'.pc \in {"idle", "fail"}
    BY <1>5, Values DEF Stops, Crash
  <2>2. QED
    BY <1>3, <2>1 DEF Present, Aim, Removing, Finalizing, Cleaning
<1>6. ASSUME NEW p \in Routes, Start(p)
      PROVE  Present'
  <2>1. /\ work'.p = p /\ work'.obj = cache[p] /\ cache' = cache /\ api' = api
        /\ work'.pc \in {"finRoute", "validate", "addFinalizer"}
        /\ cache[p].phase \in {"live", "deleting"}
        /\ work'.pc = "finRoute" => cache[p].phase = "deleting"
        /\ work'.pc = "validate" => cache[p].phase = "live" /\ cache[p].finalizer
    BY <1>6, Values DEF Start, Worker
  <2>2. work'.pc = "validate" => Exists(p)'
    BY <1>3, <2>1
  <2>3. QED
    BY <1>3, <2>1, <2>2 DEF Present, Aim, Removing, Finalizing, Cleaning, Exists, Obj, P
<1>7. CASE Others \/ UNCHANGED vars \/ \E p \in Routes : Deliver(p)
  <2>1. work' = work /\ (cache'[P] = cache[P] \/ cache'[P] = api[P])
    BY <1>1, <1>7
    DEF Others, CreateObject, EditObject, DeleteObject, ChangeValid, ChangeProvider,
        ChangeAddress, RemoveTunnel, RemoveCidr, AddCidr, Deliver, TypeOK, vars
  <2>2. Aim \in Finalizing => cache'[P].phase \in {"deleting", "gone"}
    BY <1>1, <2>1 DEF Present, Guarding
  <2>3. work.pc \notin {"idle", "addFinalizer", "fail"} /\ Aim \notin Finalizing => Exists(P)'
    <3>1. SUFFICES ASSUME work.pc \notin {"idle", "addFinalizer", "fail"}, Aim \notin Finalizing
                   PROVE  Exists(P)'
      OBVIOUS
    <3>2. Exists(P) /\ Guarded(P) /\ ~At("finRemove")
      BY <1>1, <1>2, <3>1 DEF Present, Guarding
    <3>3. QED
      BY <1>1, <2>1, <3>2 DEF Lasts, Exists, P
  <2>4. QED
    BY <1>3, <2>1, <2>2, <2>3 DEF Present, Aim, Obj, P
<1>8. QED
  BY <1>4, <1>5, <1>6, <1>7 DEF Next

\* What a pass relies on.
LEMMA Served == Spec => [](LifeInv /\ Present)
<1>1. Init /\ LifeInv => Present
  <2>1. SUFFICES ASSUME Init, LifeInv PROVE Present
    OBVIOUS
  <2>2. work.pc = "idle" /\ \A p \in Routes : cache[p].phase = "absent"
    BY <2>1, Values DEF Init
  <2>3. QED
    BY <2>2 DEF Present, Aim, Removing, Finalizing, Cleaning
<1>2. LifeInv /\ Present /\ [Next]_vars => Present'
  BY PresentStep
<1>3. QED
  BY <1>1, <1>2, LifeHolds, PTL DEF Spec

\* What OwnedTunnels speaks of: the objects without their rules.
Phases     == [p \in Routes |-> api[p].phase]
Finalizers == [p \in Routes |-> api[p].finalizer]
Decisions  == [p \in Routes |-> api[p].policy]
Recorded   == [p \in Routes |-> api[p].tunnel]

SameObjects == UNCHANGED <<Phases, Finalizers, Decisions, Recorded>>

\* It reads them as they are, and a step that changes one changes one reading.
LEMMA Readings ==
  /\ \A p \in Routes : /\ Phases[p] = api[p].phase /\ Finalizers[p] = api[p].finalizer
                       /\ Decisions[p] = api[p].policy /\ Recorded[p] = api[p].tunnel
                       /\ Life!Exists(p) <=> Exists(p)
  /\ \A t \in Tunnels : Life!Live(t) <=> Live(t)
  /\ api' = api => SameObjects
BY DEF Phases, Finalizers, Decisions, Recorded, SameObjects, Life!Live, Live, Life!Exists, Exists

\* An object that changes in the API server changes its reading.
LEMMA Rereadings ==
  ASSUME NEW p \in Routes, \A q \in Routes \ {p} : api'[q] = api[q]
  PROVE  /\ Phases'     = [Phases EXCEPT ![p] = api'[p].phase]
         /\ Finalizers' = [Finalizers EXCEPT ![p] = api'[p].finalizer]
         /\ Decisions'  = [Decisions EXCEPT ![p] = api'[p].policy]
         /\ Recorded'   = [Recorded EXCEPT ![p] = api'[p].tunnel]
         /\ api'[p].phase = api[p].phase => UNCHANGED Phases
         /\ api'[p].finalizer = api[p].finalizer => UNCHANGED Finalizers
         /\ api'[p].policy = api[p].policy => UNCHANGED Decisions
         /\ api'[p].tunnel = api[p].tunnel => UNCHANGED Recorded
BY DEF Phases, Finalizers, Decisions, Recorded

\* A step that changes nothing of that stutters.
LEMMA Stutters ==
  ASSUME SameObjects, UNCHANGED tunnels
  PROVE  UNCHANGED Life!vars
BY DEF SameObjects, Phases, Finalizers, Decisions, Recorded, Life!vars

\* The initial states.
LEMMA InitRefines == Init => Life!Init
<1>1. SUFFICES ASSUME Init PROVE Life!Init
  OBVIOUS
<1>2. \A p \in Routes : api[p] = NewObject
  BY <1>1 DEF Init
<1>3. /\ Phases = [p \in Routes |-> "absent"] /\ Finalizers = [p \in Routes |-> FALSE]
      /\ Decisions \in [Routes -> {"Delete", "Retain"}]
      /\ Recorded = [p \in Routes |-> None]
  <2>1. \A p \in Routes : /\ api[p].phase = "absent" /\ api[p].finalizer = FALSE
                          /\ api[p].policy \in {"Delete", "Retain"} /\ api[p].tunnel = None
    BY <1>2, Values DEF Object
  <2>2. Phases = [p \in Routes |-> "absent"] /\ Recorded = [p \in Routes |-> None]
    BY <2>1 DEF Phases, Recorded
  <2>3. Finalizers = [p \in Routes |-> FALSE]
    BY <2>1 DEF Finalizers
  <2>4. Decisions \in [Routes -> {"Delete", "Retain"}]
    BY <2>1 DEF Decisions
  <2>5. QED
    BY <2>2, <2>3, <2>4
<1>4. tunnels \in [Tunnels -> [state : {"unused"}, owner : Routes]]
  <2>1. (CHOOSE p \in Routes : TRUE) \in Routes
    BY SomeAssumption
  <2>2. QED
    BY <1>1, <2>1 DEF Init
<1>5. QED
  BY <1>3, <1>4 DEF Life!Init, Phases, Finalizers, Decisions, Recorded

\* Each action for an object is a step of the abstract specification.
LEMMA AbstractSteps ==
  ASSUME NEW p \in Routes
  PROVE  /\ \A t \in Tunnels : Life!Make(p, t) \/ Life!Release(p, t) => Life!Next
         /\ \A t \in Tunnels \cup {None} : Life!Record(p, t) => Life!Next
         /\ Life!Guard(p) \/ Life!Finish(p) => Life!Next
         /\ Life!Appear(p) \/ Life!EditPolicy(p) \/ Life!Delete(p) => Life!Next
         /\ \A t \in Tunnels : Life!Lose(t) => Life!Next
<1>1. \A t \in Tunnels : Life!Make(p, t) \/ Life!Release(p, t) => Life!Next
  BY Zenon DEF Life!Next
<1>2. \A t \in Tunnels \cup {None} : Life!Record(p, t) => Life!Next
  BY Zenon DEF Life!Next
<1>3. Life!Guard(p) \/ Life!Finish(p) => Life!Next
  BY Zenon DEF Life!Next
<1>4. Life!Appear(p) \/ Life!EditPolicy(p) \/ Life!Delete(p) => Life!Next
  BY Zenon DEF Life!Next
<1>5. \A t \in Tunnels : Life!Lose(t) => Life!Next
  BY Zenon DEF Life!Next
<1>6. QED
  BY <1>1, <1>2, <1>3, <1>4, <1>5

\* A tunnel is made for an object that carries the finalizer and has none.
LEMMA MakesIt ==
  ASSUME NEW p \in Routes, NEW t \in Tunnels, Exists(p), api[p].finalizer, TunnelsOf(p) = {},
         tunnels[t].state = "unused", SameObjects,
         tunnels' = [tunnels EXCEPT ![t] = [state |-> "live", owner |-> p]]
  PROVE  Life!Make(p, t)
<1>1. Life!Exists(p) /\ Finalizers[p]
  BY Readings
<1>2. ~Life!Has(p)
  <2>1. \A u \in Tunnels : ~(Life!Live(u) /\ tunnels[u].owner = p)
    BY Readings DEF TunnelsOf
  <2>2. QED
    BY <2>1 DEF Life!Has
<1>3. QED
  BY <1>1, <1>2 DEF Life!Make, SameObjects, Phases, Finalizers, Decisions, Recorded

\* The status of such an object names a tunnel made for it, or none.
LEMMA RecordsIt ==
  ASSUME NEW p \in Routes, NEW t \in Tunnels \cup {None}, Exists(p), api[p].finalizer,
         Owns(p, t), Recorded' = [Recorded EXCEPT ![p] = t],
         UNCHANGED Phases, UNCHANGED Finalizers, UNCHANGED Decisions, UNCHANGED tunnels
  PROVE  Life!Record(p, t)
<1>1. Life!Exists(p) /\ Finalizers[p]
  BY Readings
<1>2. QED
  BY <1>1 DEF Life!Record, Owns, Phases, Finalizers, Decisions, Recorded

\* finalize deletes the tunnel that its copy of the object names.
LEMMA ReleasesIt ==
  ASSUME NEW p \in Routes, NEW t \in Tunnels, Live(t), tunnels[t].owner = p,
         api[p].phase \in {"deleting", "gone"}, SameObjects,
         tunnels' = [tunnels EXCEPT ![t].state = "deleted"]
  PROVE  Life!Release(p, t)
<1>1. Life!Live(t) /\ Phases[p] \in {"deleting", "gone"}
  BY Readings
<1>2. QED
  BY <1>1 DEF Life!Release, SameObjects, Phases, Finalizers, Decisions, Recorded

\* The finalizer comes before anything else.
LEMMA GuardsIt ==
  ASSUME NEW p \in Routes, api[p].phase = "live",
         Finalizers' = [Finalizers EXCEPT ![p] = TRUE],
         UNCHANGED Phases, UNCHANGED Decisions, UNCHANGED Recorded, UNCHANGED tunnels
  PROVE  Life!Guard(p)
<1>1. Phases[p] = "live"
  BY Readings
<1>2. QED
  BY <1>1 DEF Life!Guard, Phases, Finalizers, Decisions, Recorded

\* The object goes when the tunnel it records is dealt with.
LEMMA FinishesIt ==
  ASSUME NEW p \in Routes, api[p].phase = "deleting",
         api[p].policy = "Delete" /\ api[p].tunnel # None =>
           api[p].tunnel \in Tunnels /\ ~Live(api[p].tunnel),
         Phases' = [Phases EXCEPT ![p] = "gone"],
         Finalizers' = [Finalizers EXCEPT ![p] = FALSE],
         UNCHANGED Decisions, UNCHANGED Recorded, UNCHANGED tunnels
  PROVE  Life!Finish(p)
<1>1. /\ Phases[p] = "deleting"
      /\ Decisions[p] = "Delete" /\ Recorded[p] # None => ~Life!Live(Recorded[p])
  BY Readings
<1>2. QED
  BY <1>1 DEF Life!Finish, Phases, Finalizers, Decisions, Recorded

\* The steps of a pass.
LEMMA StepRefines ==
  ASSUME LifeInv, Present, Step
  PROVE  [Life!Next]_(Life!vars)
<1>1. /\ TypeOK /\ Control /\ Guarding /\ Cleaned /\ P \in Routes /\ Copied(P)
      /\ SameSpec \/ Guards \/ Frees
      /\ Links /\ \A p \in Routes \ {P} : api'[p] = api[p]
  BY Fields, ObjectWrites DEF LifeInv
<1>2. PICK p \in Routes : p = P
  BY <1>1
<1>3. CASE api' = api
  <2>1. SameObjects
    BY <1>3, Readings
  <2>2. CASE tunnels' = tunnels
    BY <2>1, <2>2, Stutters
  <2>3. CASE \E t \in Tunnels : Makes(t)
    <3>1. PICK t \in Tunnels : Makes(t)
      BY <2>3
    <3>2. /\ At("create") /\ tunnels[t].state = "unused"
          /\ tunnels' = [tunnels EXCEPT ![t] = [state |-> "live", owner |-> p]]
      BY <1>2, <3>1 DEF Makes
    <3>3. Exists(p) /\ api[p].finalizer /\ TunnelsOf(p) = {}
      BY <1>1, <1>2, <3>2
      DEF Present, Guarding, Guarded, Cleaned, At, Aim, Removing, Finalizing, Cleaning, Exists
    <3>4. Life!Make(p, t)
      BY <2>1, <3>2, <3>3, MakesIt
    <3>5. QED
      BY <3>4, AbstractSteps
  <2>4. CASE Drops
    <3>1. PICK t \in Tunnels : t = Obj.tunnel
      BY <2>4 DEF Drops, Live
    <3>2. /\ At("finTunnel") /\ Live(t)
          /\ tunnels' = [tunnels EXCEPT ![t].state = "deleted"]
      BY <2>4, <3>1 DEF Drops
    <3>3. tunnels[t].owner = p /\ api[p].phase \in {"deleting", "gone"}
      BY <1>1, <1>2, <3>1, <3>2, NoneAssumption
      DEF Guarding, Owns, At, Aim, Removing, Finalizing, Cleaning
    <3>4. Life!Release(p, t)
      BY <2>1, <3>2, <3>3, ReleasesIt
    <3>5. QED
      BY <3>4, AbstractSteps
  <2>5. QED
    BY <1>1, <2>2, <2>3, <2>4, TunnelWrites
<1>4. CASE api' # api
  <2>1. tunnels' = tunnels
    <3>1. CASE At("create") \/ At("finTunnel")
      BY <1>4, <3>1
      DEF Step, AddFinalizer, Validate, DeleteRoute, Clear, EnsureTunnel, GetTunnel, Find,
          CreateTunnel, RecordTunnel, EnsureRoute, GetRoute, ListRoutes, Persist, CreateRoute,
          RecordRoute, Connect, WriteSecret, WriteDeployment, WriteResources, WriteStatus, Fail,
          Finalize, FinRoute, FinDeploy, FinSecret, FinTunnel, FinRemove, At
    <3>2. CASE ~At("create") /\ ~At("finTunnel")
      BY <1>1, <3>2, TunnelWrites DEF Makes, Drops
    <3>3. QED
      BY <3>1, <3>2
  <2>2. CASE SameSpec
    <3>1. /\ UNCHANGED Phases /\ UNCHANGED Finalizers /\ UNCHANGED Decisions
          /\ Recorded' = [Recorded EXCEPT ![p] = api'[p].tunnel]
      BY <1>1, <1>2, <2>2, Rereadings DEF SameSpec
    <3>2. CASE api'[p].tunnel = api[p].tunnel
      BY <1>1, <1>2, <2>1, <3>1, <3>2, Rereadings, Stutters DEF SameObjects
    <3>3. CASE api'[p].tunnel # api[p].tunnel
      <4>1. /\ At("record") \/ At("clear")
            /\ api'[p].tunnel = work.tunnel \/ api'[p].tunnel = None
        BY <1>1, <1>2, <3>3 DEF Links
      <4>2. Exists(p) /\ api[p].finalizer
        BY <1>1, <1>2, <1>4, <2>2, <4>1 DEF SameSpec, Guarding, Guarded, Exists, At
      <4>3. PICK t \in Tunnels \cup {None} : t = api'[p].tunnel /\ Owns(p, t)
        BY <1>1, <1>2, <4>1, Fields DEF Guarding, Owns
      <4>4. Recorded' = [Recorded EXCEPT ![p] = t]
        BY <3>1, <4>3
      <4>5. Life!Record(p, t)
        BY <2>1, <3>1, <4>2, <4>3, <4>4, RecordsIt
      <4>6. QED
        BY <4>5, AbstractSteps
    <3>4. QED
      BY <3>2, <3>3
  <2>3. CASE Guards
    <3>1. /\ api[p].phase = "live" /\ api'[p].phase = api[p].phase
          /\ api'[p].finalizer = TRUE /\ api'[p].policy = api[p].policy
          /\ api'[p].tunnel = api[p].tunnel
      BY <1>1, <1>2, <2>3 DEF Guards, SameStatus, Guarding
    <3>2. /\ Finalizers' = [Finalizers EXCEPT ![p] = TRUE]
          /\ UNCHANGED Phases /\ UNCHANGED Decisions /\ UNCHANGED Recorded
      BY <1>1, <1>2, <3>1, Rereadings
    <3>3. Life!Guard(p)
      BY <2>1, <3>1, <3>2, GuardsIt
    <3>4. QED
      BY <3>3, AbstractSteps
  <2>4. CASE Frees
    <3>1. /\ api'[p].phase = "gone" /\ api'[p].finalizer = FALSE
          /\ api'[p].policy = api[p].policy /\ api'[p].tunnel = api[p].tunnel
          /\ At("finRemove") /\ api[p] = Obj
      BY <1>1, <1>2, <2>4 DEF Frees, SameStatus
    <3>2. api[p].phase = "deleting"
      BY <1>1, <1>2, <3>1
      DEF Guarding, Present, At, Aim, Removing, Finalizing, Cleaning
    <3>3. api[p].policy = "Delete" /\ api[p].tunnel # None =>
            api[p].tunnel \in Tunnels /\ ~Live(api[p].tunnel)
      BY <1>1, <3>1, Fields DEF Cleaned
    <3>4. /\ Phases' = [Phases EXCEPT ![p] = "gone"]
          /\ Finalizers' = [Finalizers EXCEPT ![p] = FALSE]
          /\ UNCHANGED Decisions /\ UNCHANGED Recorded
      BY <1>1, <1>2, <3>1, Rereadings
    <3>5. Life!Finish(p)
      BY <2>1, <3>2, <3>3, <3>4, FinishesIt
    <3>6. QED
      BY <3>5, AbstractSteps
  <2>5. QED
    BY <1>1, <2>2, <2>3, <2>4
<1>5. QED
  BY <1>3, <1>4

\* Users and other controllers.
LEMMA OthersRefine ==
  ASSUME TypeOK, Others
  PROVE  [Life!Next]_(Life!vars)
<1>1. ASSUME NEW p \in Routes, CreateObject(p)
      PROVE  Life!Next
  <2>1. PICK policy \in Policies, s \in Services :
          api' = [api EXCEPT ![p] = [@ EXCEPT !.phase = "live", !.gen = 1,
                                              !.policy = policy, !.service = s]]
    BY <1>1 DEF CreateObject
  <2>2. /\ \A q \in Routes \ {p} : api'[q] = api[q]
        /\ api'[p].phase = "live" /\ api'[p].finalizer = api[p].finalizer
        /\ api'[p].policy = policy /\ api'[p].tunnel = api[p].tunnel
    BY <2>1 DEF TypeOK, Object
  <2>3. /\ Phases' = [Phases EXCEPT ![p] = "live"]
        /\ Decisions' = [Decisions EXCEPT ![p] = policy]
        /\ UNCHANGED Finalizers /\ UNCHANGED Recorded
    BY <2>2, Rereadings
  <2>4. Phases[p] = "absent" /\ policy \in {"Delete", "Retain"} /\ UNCHANGED tunnels
    BY <1>1, Readings, PolicyAssumption DEF CreateObject, remote
  <2>5. Life!Appear(p)
    BY <2>3, <2>4 DEF Life!Appear, Phases, Finalizers, Decisions, Recorded
  <2>6. QED
    BY <2>5, AbstractSteps
<1>2. ASSUME NEW p \in Routes, EditObject(p)
      PROVE  Life!Next
  <2>1. PICK policy \in Policies, s \in Services :
          LET new == [api[p] EXCEPT !.policy = policy, !.service = s]
          IN  api' = [api EXCEPT ![p] = [new EXCEPT !.gen = @ + 1]]
    BY <1>2 DEF EditObject
  <2>2. /\ \A q \in Routes \ {p} : api'[q] = api[q]
        /\ api'[p].phase = api[p].phase /\ api'[p].finalizer = api[p].finalizer
        /\ api'[p].policy = policy /\ api'[p].tunnel = api[p].tunnel
    BY <2>1 DEF TypeOK, Object
  <2>3. /\ Decisions' = [Decisions EXCEPT ![p] = policy]
        /\ UNCHANGED Phases /\ UNCHANGED Finalizers /\ UNCHANGED Recorded
    BY <2>2, Rereadings
  <2>4. Life!Exists(p) /\ policy \in {"Delete", "Retain"} /\ UNCHANGED tunnels
    BY <1>2, Readings, PolicyAssumption DEF EditObject, remote
  <2>5. Life!EditPolicy(p)
    BY <2>3, <2>4 DEF Life!EditPolicy, Phases, Finalizers, Decisions, Recorded
  <2>6. QED
    BY <2>5, AbstractSteps
<1>3. ASSUME NEW p \in Routes, DeleteObject(p)
      PROVE  Life!Next
  <2>1. /\ \A q \in Routes \ {p} : api'[q] = api[q]
        /\ api'[p].phase = IF api[p].finalizer THEN "deleting" ELSE "gone"
        /\ api'[p].finalizer = api[p].finalizer
        /\ api'[p].policy = api[p].policy /\ api'[p].tunnel = api[p].tunnel
    BY <1>3 DEF DeleteObject, TypeOK, Object
  <2>2. /\ Phases' = [Phases EXCEPT ![p] = IF Finalizers[p] THEN "deleting" ELSE "gone"]
        /\ UNCHANGED Finalizers /\ UNCHANGED Decisions /\ UNCHANGED Recorded
    BY <2>1, Rereadings, Readings
  <2>3. Phases[p] = "live" /\ UNCHANGED tunnels
    BY <1>3, Readings DEF DeleteObject, remote
  <2>4. Life!Delete(p)
    BY <2>2, <2>3 DEF Life!Delete, Phases, Finalizers, Decisions, Recorded
  <2>5. QED
    BY <2>4, AbstractSteps
<1>4. ASSUME NEW t \in Tunnels, RemoveTunnel(t)
      PROVE  Life!Next
  <2>1. tunnels' = [tunnels EXCEPT ![t].state = "removed"] /\ SameObjects /\ Life!Live(t)
    BY <1>4, Readings DEF RemoveTunnel
  <2>2. Life!Lose(t)
    BY <2>1 DEF Life!Lose, SameObjects, Phases, Finalizers, Decisions, Recorded
  <2>3. QED
    BY <2>2, SomeAssumption, AbstractSteps
<1>5. CASE \/ \E p \in Routes : ChangeValid(p)
           \/ \E n \in Providers : ChangeProvider(n)
           \/ \E s \in Services : ChangeAddress(s)
           \/ \E i \in Cidrs : RemoveCidr(i)
           \/ \E n \in Networks : AddCidr(n)
  <2>1. SameObjects /\ UNCHANGED tunnels
    BY <1>5, Readings
    DEF ChangeValid, ChangeProvider, ChangeAddress, RemoveCidr, AddCidr, remote
  <2>2. QED
    BY <2>1, Stutters
<1>6. QED
  BY <1>1, <1>2, <1>3, <1>4, <1>5 DEF Others

\* The private route controller implements OwnedTunnels, whatever copies its
\* passes start from: tunnels are made only for objects that carry the finalizer
\* and have none, only finalize deletes them, and the finalizer goes when the
\* recorded tunnel is dealt with.
THEOREM Implements == Spec => ImplementsOwnedTunnels
<1>1. LifeInv /\ Present /\ [Next]_vars => [Life!Next]_(Life!vars)
  <2>1. SUFFICES ASSUME LifeInv, Present, [Next]_vars
                 PROVE  [Life!Next]_(Life!vars)
    OBVIOUS
  <2>2. TypeOK
    BY <2>1 DEF LifeInv
  <2>3. CASE Crash \/ (\E p \in Routes : Start(p) \/ Deliver(p)) \/ UNCHANGED vars
    <3>1. api' = api /\ tunnels' = tunnels
      BY <2>3 DEF Crash, Start, Deliver, remote, vars
    <3>2. QED
      BY <3>1, Readings, Stutters
  <2>4. QED
    BY <2>1, <2>2, <2>3, StepRefines, OthersRefine DEF Next
<1>2. QED
  BY <1>1, InitRefines, Served, PTL DEF Spec, ImplementsOwnedTunnels, Life!Spec
=============================================================================
