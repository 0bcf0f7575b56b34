------------------------ MODULE TunnelBindingProofs ------------------------
(***************************************************************************)
(* Theorems about TunnelBinding, for any bindings, classes, hostnames and  *)
(* bounds.  First type correctness, one lemma per kind of step.            *)
(***************************************************************************)
EXTENDS TunnelBinding, TLAPS

\* The value a worker has between two passes is a worker.
LEMMA IdleType == Idle \in Worker
<1>1. NewObject \in Object
  BY SomeAssumption DEF NewObject, Object, Conditions
<1>2. (CHOOSE b \in Bindings : TRUE) \in Bindings /\ (CHOOSE o \in Origins : TRUE) \in Origins
  BY SomeAssumption
<1>3. QED
  BY <1>1, <1>2 DEF Idle, Worker, Steps

\* A worker whose fields change within their types stays a worker.
LEMMA WorkerFields ==
  ASSUME NEW w \in Worker, NEW pc \in Steps
  PROVE  /\ [w EXCEPT !.pc = pc] \in Worker
         /\ \A t \in Tunnels \cup {NoTunnel} :
              [w EXCEPT !.pc = pc, !.tunnel = t] \in Worker
         /\ \A v \in {"unset", "False", "ClassMismatch"} :
              [w EXCEPT !.pc = pc, !.verdict = v] \in Worker
         /\ \A a \in BOOLEAN : [w EXCEPT !.automated = a, !.pc = pc] \in Worker
         /\ \A o \in Object : [w EXCEPT !.pc = pc, !.obj = o] \in Worker
         /\ \A hs \in SUBSET Hosts, o \in Origins :
              [w EXCEPT !.pc = pc, !.hosts = hs, !.origin = o] \in Worker
BY DEF Worker

\* An object whose finalizer or phase changes stays an object.
LEMMA ObjectFields ==
  ASSUME NEW o \in Object
  PROVE  /\ [o EXCEPT !.finalizer = TRUE] \in Object
         /\ [o EXCEPT !.finalizer = FALSE, !.phase = "gone"] \in Object
         /\ \A p \in {"deleting", "gone"} : [o EXCEPT !.phase = p] \in Object
BY DEF Object

\* A tunnel whose state or rules change stays a tunnel.
LEMMA RemoteFields ==
  ASSUME remote \in [Tunnels -> Remote], NEW t
  PROVE  /\ \A i \in Ingress : [remote EXCEPT ![t].ingress = i] \in [Tunnels -> Remote]
         /\ \A s \in TunnelStates : [remote EXCEPT ![t].state = s] \in [Tunnels -> Remote]
BY DEF Remote

\* Moving a pass to another of its states keeps the type of the workers.
LEMMA EnterType ==
  ASSUME work \in [Classes -> Worker], NEW c \in Classes, NEW w \in Worker, Enter(c, w)
  PROVE  work' \in [Classes -> Worker]
BY DEF Enter

\* In particular moving its program counter does.
LEMMA GotoType ==
  ASSUME work \in [Classes -> Worker], NEW c \in Classes, NEW pc \in Steps, Goto(c, pc)
  PROVE  work' \in [Classes -> Worker]
BY IdleType, EnterType, WorkerFields DEF Goto

\* A call counts a fault or changes nothing.
LEMMA CallType ==
  ASSUME faults \in Nat, NEW r, Call(r)
  PROVE  faults' \in Nat
BY DEF Call, Fault

\* The same for a call to Cloudflare.
LEMMA CloudflareCallType ==
  ASSUME faults \in Nat, NEW c, NEW t, NEW r, CloudflareCall(c, t, r)
  PROVE  faults' \in Nat
BY CallType DEF CloudflareCall

\* What a merge patch leaves on the server is an object.
LEMMA MergedType ==
  ASSUME api \in [Bindings -> Object], NEW b \in Bindings,
         NEW base, NEW new \in Object
  PROVE  Merged(b, base, new) \in Object
BY ZenonT(60) DEF Merged, Sent, Object

\* A status patch keeps the types of everything it touches.
LEMMA PatchType ==
  ASSUME TypeOK, NEW c \in Classes, NEW new \in Object, NEW r, NEW pc \in Steps,
         PatchStatus(c, new, r, pc)
  PROVE  /\ api' \in [Bindings -> Object]
         /\ work' \in [Classes -> Worker]
         /\ faults' \in Nat
<1>1. B(c) \in Bindings
  BY DEF TypeOK, B, Worker
<1>2. Merged(B(c), Obj(c), new) \in Object
  BY <1>1, MergedType DEF TypeOK
<1>3. api' \in [Bindings -> Object]
  BY <1>2 DEF PatchStatus, TypeOK
<1>4. work' \in [Classes -> Worker]
  BY <1>2, IdleType, EnterType, WorkerFields DEF PatchStatus, TypeOK
<1>5. faults' \in Nat
  BY CallType DEF PatchStatus, TypeOK
<1>6. QED
  BY <1>3, <1>4, <1>5

\* An update of an object keeps the types of everything it touches.
LEMMA UpdateType ==
  ASSUME TypeOK, NEW c \in Classes, NEW new \in Object, NEW r, UpdateObject(c, new, r)
  PROVE  /\ api' \in [Bindings -> Object]
         /\ work' \in [Classes -> Worker]
         /\ faults' \in Nat
<1>1. faults' \in Nat
  BY CallType DEF UpdateObject, TypeOK
<1>2. QED
  BY <1>1, GotoType DEF UpdateObject, TypeOK, Steps

\* The initial state is well typed.
LEMMA InitType == Init => TypeOK
<1>1. NewObject \in Object
  BY SomeAssumption DEF NewObject, Object, Conditions
<1>2. UnusedTunnel \in Remote
  BY SomeAssumption DEF UnusedTunnel, Remote, TunnelStates, Unset, Ingress
<1>3. NoEndpoint \in Endpoint
  BY DEF NoEndpoint, Endpoint
<1>4. ASSUME Init
      PROVE  /\ provider \in [Providers -> ProviderStates]
             /\ routes \in [Bindings -> SUBSET Hosts]
  BY <1>4, ChoiceAssumption DEF Init, ProviderStates
<1>5. QED
  BY <1>1, <1>2, <1>3, <1>4, IdleType DEF Init, TypeOK

\* Each step of a reconcile pass keeps the types.
LEMMA StepType ==
  ASSUME TypeOK, NEW c \in Classes, Step(c)
  PROVE  TypeOK'
<1> DEFINE b == B(c)
           o == Obj(c)
<1>1. b \in Bindings /\ o \in Object /\ work[c] \in Worker
  BY DEF TypeOK, B, Obj, Worker
<1>a. \A accepted \in {"unset", "True", "False", "ClassMismatch"},
        ready \in {"unset", "True", "False", "Unknown"} :
        SetCond(o, accepted, ready) \in Object
  BY <1>1 DEF SetCond, Object, Conditions
<1>b. NotFoundOnly \in Ingress /\ IngressRules(work[c].hosts, work[c].origin) \in Ingress
  BY <1>1 DEF NotFoundOnly, IngressRules, Ingress, Worker
<1>c. NoEndpoint \in Endpoint
  BY DEF NoEndpoint, Endpoint
<1>2. CASE Validate(c)
  <2>1. routes[b] \in SUBSET Hosts /\ o.origin \in Origins
    BY <1>1 DEF TypeOK, Object
  <2>2. work' \in [Classes -> Worker]
    <3>1. \A verdict \in {"ClassMismatch", "False"} :
            [work[c] EXCEPT !.pc = "reject", !.verdict = verdict] \in Worker
      BY <1>1, WorkerFields DEF Steps
    <3>2. \A pc \in {"getTunnel", "addFinalizer"} :
            [work[c] EXCEPT !.pc = pc, !.hosts = routes[b], !.origin = o.origin] \in Worker
      BY <1>1, <2>1, WorkerFields DEF Steps
    <3>3. \/ Enter(c, [work[c] EXCEPT !.pc = "reject", !.verdict = "ClassMismatch"])
          \/ Enter(c, [work[c] EXCEPT !.pc = "reject", !.verdict = "False"])
          \/ Goto(c, "report")
          \/ \E pc \in {"getTunnel", "addFinalizer"} :
               Enter(c, [work[c] EXCEPT !.pc = pc, !.hosts = routes[b], !.origin = o.origin])
      BY <1>2, Zenon DEF Validate
    <3>4. QED
      BY <3>1, <3>2, <3>3, GotoType, EnterType DEF TypeOK, Steps
  <2>3. QED
    BY <1>2, <2>2 DEF Validate, TypeOK, children, world
<1>3. CASE Report(c)
  <2>1. PICK r \in Results : PatchStatus(c, SetCond(o, o.cond.accepted, "Unknown"), r, "idle")
    BY <1>3 DEF Report
  <2>2. SetCond(o, o.cond.accepted, "Unknown") \in Object
    BY <1>1 DEF SetCond, Object, Conditions
  <2>3. QED
    BY <1>3, <2>1, <2>2, PatchType DEF Report, TypeOK, Steps, children, world
<1>4. CASE AddFinalizer(c)
  <2>1. PICK r \in Results : UpdateObject(c, [o EXCEPT !.finalizer = TRUE], r)
    BY <1>4 DEF AddFinalizer
  <2>2. QED
    BY <1>1, <1>4, <2>1, UpdateType, ObjectFields DEF AddFinalizer, TypeOK, children, world
<1>5. CASE Withdraw(c)
  <2>1. CASE Reject(c)
    <3>1. PICK r \in Results :
            LET new == [SetCond(o, work[c].verdict, "False") EXCEPT !.published = {}]
                after == IF r = "ok" THEN Merged(b, o, new) ELSE new
            IN  PatchStatus(c, new, r,
                  IF after.cond.accepted = "ClassMismatch" \/ after.tunnel = NoTunnel
                  THEN "idle" ELSE "dpTunnel")
      BY <2>1 DEF Reject
    <3>2. [SetCond(o, work[c].verdict, "False") EXCEPT !.published = {}] \in Object
      <4>1. work[c].verdict \in {"unset", "True", "False", "ClassMismatch"}
        BY <1>1 DEF Worker
      <4>2. SetCond(o, work[c].verdict, "False") \in Object
        BY <1>1, <4>1 DEF SetCond, Object, Conditions
      <4>3. QED
        BY <4>2 DEF Object
    <3>3. QED
      BY <2>1, <3>1, <3>2, PatchType DEF Reject, TypeOK, Steps, children, world
  <2>2. CASE DpTunnel(c)
    BY <2>2, GotoType, CloudflareCallType DEF DpTunnel, GotoIf, TypeOK, Steps, children, world
  <2>3. CASE DpConfig(c)
    <3>1. remote' \in [Tunnels -> Remote]
      BY <1>b, <2>3, RemoteFields DEF DpConfig, TypeOK
    <3>2. QED
      BY <2>3, <3>1, GotoType, CloudflareCallType
      DEF DpConfig, GotoIf, TypeOK, Steps, children, world
  <2>4. CASE DpDns(c)
    BY <1>c, <2>4, GotoType, CallType DEF DpDns, DeleteEndpoint, TypeOK, Steps, world
  <2>5. QED
    BY <1>5, <2>1, <2>2, <2>3, <2>4 DEF Withdraw
<1>6. CASE Finalize(c)
  <2>1. CASE FinProvider(c)
    BY <2>1, GotoType DEF FinProvider, TypeOK, Steps, children, world
  <2>2. CASE FinDeploy(c)
    BY <2>2, GotoType, CallType DEF FinDeploy, GotoIf, TypeOK, Steps, world
  <2>3. CASE FinSecret(c)
    BY <2>3, GotoType, CallType DEF FinSecret, GotoIf, TypeOK, Steps, world
  <2>4. CASE FinDns(c)
    BY <1>c, <2>4, GotoType, CallType DEF FinDns, DeleteEndpoint, GotoIf, TypeOK, Steps, world
  <2>5. CASE FinTunnel(c)
    <3>1. remote' \in [Tunnels -> Remote]
      <4>1. \/ remote' = remote
            \/ remote' = [remote EXCEPT ![o.tunnel].state = "deleted"]
        BY <2>5 DEF FinTunnel
      <4>2. "deleted" \in TunnelStates
        BY DEF TunnelStates
      <4>3. QED
        BY <4>1, <4>2, RemoteFields DEF TypeOK
    <3>2. work' \in [Classes -> Worker]
      BY <2>5, GotoType DEF FinTunnel, GotoIf, TypeOK, Steps
    <3>3. QED
      BY <2>5, <3>1, <3>2, CloudflareCallType DEF FinTunnel, TypeOK, children, world
  <2>6. CASE FinRemove(c)
    <3>1. PICK r \in Results :
            UpdateObject(c, [o EXCEPT !.finalizer = FALSE, !.phase = "gone"], r)
      BY <2>6 DEF FinRemove
    <3>2. QED
      BY <1>1, <2>6, <3>1, UpdateType, ObjectFields DEF FinRemove, TypeOK, children, world
  <2>7. QED
    BY <1>6, <2>1, <2>2, <2>3, <2>4, <2>5, <2>6 DEF Finalize
<1>7. CASE Program(c)
  <2>1. CASE GetTunnel(c)
    <3>1. o.tunnel \in Tunnels \cup {NoTunnel}
      BY <1>1 DEF Object
    <3>2. work' \in [Classes -> Worker]
      BY <1>1, <2>1, <3>1, GotoType, EnterType, WorkerFields
      DEF GetTunnel, GotoIf, TypeOK, Steps
    <3>3. QED
      BY <2>1, <3>2, CloudflareCallType DEF GetTunnel, TypeOK, children, world
  <2>2. CASE Find(c)
    <3>1. work' \in [Classes -> Worker]
      BY <1>1, <2>2, GotoType, EnterType, WorkerFields DEF Find, TunnelsOf, TypeOK, Steps
    <3>2. QED
      BY <2>2, <3>1 DEF Find, TypeOK, children, world
  <2>3. CASE FindFails(c)
    BY <2>3, GotoType, CloudflareCallType DEF FindFails, TypeOK, Steps, children, world
  <2>4. CASE CreateTunnel(c)
    <3> DEFINE t == CHOOSE u \in Unused : TRUE
    <3>1. t \in Tunnels
      BY <2>4 DEF CreateTunnel, Unused
    <3>2. [state |-> "live", owner |-> b, ingress |-> Unset] \in Remote
      BY <1>1 DEF Remote, TunnelStates, Unset, Ingress
    <3>3. work' \in [Classes -> Worker]
      BY <1>1, <2>4, <3>1, GotoType, EnterType, WorkerFields DEF CreateTunnel, TypeOK, Steps
    <3>4. remote' \in [Tunnels -> Remote]
      BY <2>4, <3>2 DEF CreateTunnel, TypeOK
    <3>5. QED
      BY <2>4, <3>3, <3>4, CloudflareCallType DEF CreateTunnel, TypeOK, children, world
  <2>5. CASE RecordTunnel(c)
    <3>1. PICK r \in Results :
            PatchStatus(c, [o EXCEPT !.tunnel = work[c].tunnel], r,
                        IF r = "ok" THEN "configure" ELSE "report")
      BY <2>5 DEF RecordTunnel
    <3>2. [o EXCEPT !.tunnel = work[c].tunnel] \in Object
      BY <1>1 DEF Object, Worker
    <3>3. QED
      BY <2>5, <3>1, <3>2, PatchType DEF RecordTunnel, TypeOK, Steps, children, world
  <2>6. CASE Configure(c)
    <3>1. remote' \in [Tunnels -> Remote]
      BY <1>b, <2>6, RemoteFields DEF Configure, TypeOK
    <3>2. QED
      BY <2>6, <3>1, GotoType, CloudflareCallType
      DEF Configure, GotoIf, TypeOK, Steps, children, world
  <2>7. CASE WriteSecret(c)
    BY <1>1, <2>7, GotoType, CloudflareCallType
    DEF WriteSecret, GotoIf, TypeOK, Worker, Steps, world
  <2>8. CASE WriteDeployment(c)
    BY <2>8, GotoType, CallType DEF WriteDeployment, GotoIf, TypeOK, Steps, world
  <2>9. CASE WriteEndpoint(c)
    <3>1. [hosts |-> work[c].hosts, target |-> work[c].tunnel] \in Endpoint
      BY <1>1 DEF Endpoint, Worker
    <3>2. endpoint' \in [Bindings -> Endpoint]
      BY <1>1, <1>c, <2>9, <3>1 DEF WriteEndpoint, DeleteEndpoint, TypeOK
    <3>3. work' \in [Classes -> Worker]
      <4> DEFINE publish == o.dns /\ DnsCRD /\ work[c].hosts # {}
      <4>1. publish \in BOOLEAN
        OBVIOUS
      <4>2. PICK r \in Results :
              Enter(c, [work[c] EXCEPT !.automated = publish,
                                       !.pc = IF r = "ok" THEN "ready" ELSE "report"])
        BY <2>9 DEF WriteEndpoint
      <4>3. QED
        BY ZenonT(60), <1>1, <4>1, <4>2, EnterType, WorkerFields DEF TypeOK, Steps
    <3>4. QED
      BY <2>9, <3>2, <3>3, CallType DEF WriteEndpoint, TypeOK, world
  <2>10. CASE SetReady(c)
    <3>1. PICK r \in Results, available \in AvailableChoices :
            LET w == work[c]
                ready == w.hosts # {} /\ available /\ (w.automated \/ ~w.obj.dns)
            IN  PatchStatus(c, [SetCond(w.obj, "True", IF ready THEN "True" ELSE "False")
                                  EXCEPT !.tunnel = w.tunnel, !.published = w.hosts],
                            r, "idle")
      BY <2>10 DEF SetReady
    <3>2. \A ready \in {"True", "False"} :
            [SetCond(work[c].obj, "True", ready)
               EXCEPT !.tunnel = work[c].tunnel, !.published = work[c].hosts] \in Object
      BY <1>1 DEF SetCond, Object, Conditions, Worker
    <3>3. QED
      BY <2>10, <3>1, <3>2, PatchType DEF SetReady, TypeOK, Steps, children, world
  <2>11. QED
    BY <1>7, <2>1, <2>2, <2>3, <2>4, <2>5, <2>6, <2>7, <2>8, <2>9, <2>10 DEF Program
<1>8. QED
  BY <1>2, <1>3, <1>4, <1>5, <1>6, <1>7 DEF Step

\* So do users, other controllers, watch events, crashes and starts.
LEMMA OthersType ==
  ASSUME TypeOK,
         \/ Others
         \/ \E c \in Classes : Crash(c)
         \/ \E c \in Classes, b \in Bindings : Start(c, b) \/ Deliver(c, b)
  PROVE  TypeOK'
<1>1. CASE \E c \in Classes : Crash(c)
  BY <1>1, IdleType, EnterType DEF Crash, Fault, TypeOK, children, world
<1>2. CASE \E c \in Classes, b \in Bindings : Start(c, b)
  <2>1. PICK c \in Classes, b \in Bindings : Start(c, b)
    BY <1>2
  <2>2. \A pc \in Steps, o \in Object :
          [Idle EXCEPT !.b = b, !.obj = o, !.pc = pc] \in Worker
    BY IdleType DEF Worker
  <2>3. cache[c][b] \in Object
    BY DEF TypeOK
  <2>4. work' \in [Classes -> Worker]
    BY <2>1, <2>2, <2>3, EnterType DEF Start, TypeOK, Steps
  <2>5. QED
    BY <2>1, <2>4 DEF Start, TypeOK, children, world
<1>3. CASE \E c \in Classes, b \in Bindings : Deliver(c, b)
  BY <1>3 DEF Deliver, TypeOK, children, world
<1>4. CASE \E b \in Bindings : CreateBinding(b) \/ EditBinding(b) \/ DeleteBinding(b)
  <2>1. PICK b \in Bindings : CreateBinding(b) \/ EditBinding(b) \/ DeleteBinding(b)
    BY <1>4
  <2>2. api[b] \in Object
    BY DEF TypeOK
  <2>3. CASE CreateBinding(b)
    <3>1. PICK policy \in Policies, dns \in DnsChoices, o \in Origins :
            api' = [api EXCEPT ![b] = [@ EXCEPT !.phase = "live", !.gen = 1,
                      !.policy = policy, !.dns = dns, !.origin = o]]
      BY <2>3 DEF CreateBinding
    <3>2. policy \in {"Delete", "Retain"} /\ dns \in BOOLEAN
      BY ChoiceAssumption
    <3>3. [api[b] EXCEPT !.phase = "live", !.gen = 1,
                         !.policy = policy, !.dns = dns, !.origin = o] \in Object
      BY <2>2, <3>2 DEF Object
    <3>4. api' \in [Bindings -> Object]
      BY <3>1, <3>3 DEF TypeOK
    <3>5. QED
      BY <2>3, <3>4 DEF CreateBinding, TypeOK, children, world
  <2>4. CASE EditBinding(b)
    <3>1. PICK policy \in Policies, dns \in DnsChoices, o \in Origins :
            LET new == [api[b] EXCEPT !.policy = policy, !.dns = dns, !.origin = o]
            IN  api' = [api EXCEPT ![b] = [new EXCEPT !.gen = @ + 1]]
      BY <2>4 DEF EditBinding
    <3> DEFINE new == [api[b] EXCEPT !.policy = policy, !.dns = dns, !.origin = o]
    <3>2. policy \in {"Delete", "Retain"} /\ dns \in BOOLEAN
      BY ChoiceAssumption
    <3>3. new \in Object
      BY <2>2, <3>2 DEF Object
    <3>4. [new EXCEPT !.gen = @ + 1] \in Object
      <4> HIDE DEF new
      <4> QED BY <3>3 DEF Object
    <3>5. api' \in [Bindings -> Object]
      BY <3>1, <3>4 DEF TypeOK
    <3>6. QED
      BY <2>4, <3>5 DEF EditBinding, Edit, TypeOK, children
  <2>5. CASE DeleteBinding(b)
    <3>1. api' \in [Bindings -> Object]
      BY <2>2, <2>5, ObjectFields DEF DeleteBinding, TypeOK
    <3>2. QED
      BY <2>5, <3>1 DEF DeleteBinding, TypeOK, children, world
  <2>6. QED
    BY <2>1, <2>3, <2>4, <2>5
<1>5. CASE \/ \E b \in Bindings : ChangeValid(b) \/ ChangeRoutes(b)
           \/ \E p \in Providers : ChangeProvider(p)
  <2>1. CASE \E b \in Bindings : ChangeValid(b)
    <3>1. PICK x \in Bindings, v \in ValidChoices : valid' = [valid EXCEPT ![x] = v]
      BY <2>1 DEF ChangeValid
    <3>2. v \in BOOLEAN
      BY <3>1, ChoiceAssumption
    <3>3. valid' \in [Bindings -> BOOLEAN]
      BY <3>1, <3>2 DEF TypeOK
    <3>4. QED
      BY <2>1, <3>3 DEF ChangeValid, Edit, TypeOK, children
  <2>2. CASE \E b \in Bindings : ChangeRoutes(b)
    BY <2>2, ChoiceAssumption DEF ChangeRoutes, Edit, TypeOK, children
  <2>3. CASE \E p \in Providers : ChangeProvider(p)
    <3>1. PICK p \in Providers : ChangeProvider(p)
      BY <2>3
    <3>2. PICK s \in ProviderChoices[p] : provider' = [provider EXCEPT ![p] = s]
      BY <3>1 DEF ChangeProvider
    <3>3. s \in ProviderStates
      BY <3>2, ProviderAssumption
    <3>4. provider' \in [Providers -> ProviderStates]
      BY <3>2, <3>3 DEF TypeOK
    <3>5. QED
      BY <3>1, <3>4 DEF ChangeProvider, Edit, TypeOK, children
  <2>4. QED
    BY <1>5, <2>1, <2>2, <2>3
<1>6. CASE \E t \in Tunnels : RemoveTunnel(t)
  BY <1>6 DEF RemoveTunnel, Edit, TypeOK, Remote, TunnelStates, children
<1>7. QED
  BY <1>1, <1>2, <1>3, <1>4, <1>5, <1>6 DEF Others

\* Every variable keeps its type in every behavior.
THEOREM TypeCorrect == Spec => []TypeOK
<1>1. TypeOK /\ [Next]_vars => TypeOK'
  <2>1. ASSUME TypeOK, UNCHANGED vars PROVE TypeOK'
    BY <2>1 DEF TypeOK, vars
  <2>2. QED
    BY <2>1, StepType, OthersType DEF Next
<1>2. QED
  BY <1>1, InitType, PTL DEF Spec
=============================================================================
