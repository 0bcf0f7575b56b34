---------------------- MODULE TunnelBindingOwnership ----------------------
(***************************************************************************)
(* A binding never owns two live tunnels, for any bindings, classes and    *)
(* bounds.  The check "no tunnel carries my name" and the creation that    *)
(* follows it are two calls; what makes the pair safe is that one worker   *)
(* serves a binding, so that nothing is created for it in between.         *)
(***************************************************************************)
EXTENDS TunnelBindingProofs

\* A pass serves a binding of its own class.
OwnPass == \A c \in Classes : ~At(c, "idle") => ClassOf[B(c)] = c

\* What the look-up found still holds when the tunnel is created.
LookupHolds == \A c \in Classes : At(c, "create") => TunnelsOf(B(c)) = {}

OwnershipInv == TypeOK /\ OwnPass /\ LookupHolds /\ OneTunnelEach

\* No tunnel comes to life and no identifier changes its owner.
NoNewTunnel == \A b \in Bindings : TunnelsOf(b)' \subseteq TunnelsOf(b)

\* The worker of class c goes on with its binding, or is idle, and has not
\* decided just now to create a tunnel.
GoesOn(c) == \E w :
  /\ Enter(c, w)
  /\ w.pc = "idle" \/ (w.b = B(c) /\ w.pc # "create")

\* A step of a pass that brings no tunnel to life keeps the invariant.
LEMMA GoesOnKeeps ==
  ASSUME OwnershipInv, TypeOK', NEW c \in Classes, ~At(c, "idle"), GoesOn(c), NoNewTunnel
  PROVE  OwnershipInv'
<1>1. PICK w : Enter(c, w) /\ (w.pc = "idle" \/ (w.b = B(c) /\ w.pc # "create"))
  BY DEF GoesOn
<1>2. work'[c] = w /\ \A d \in Classes \ {c} : work'[d] = work[d]
  BY <1>1 DEF Enter, OwnershipInv, TypeOK
<1>3. OwnPass'
  BY <1>1, <1>2 DEF OwnershipInv, OwnPass, At, B
<1>4. LookupHolds'
  <2>1. SUFFICES ASSUME NEW d \in Classes, At(d, "create")'
                 PROVE  TunnelsOf(B(d))' = {}
    BY DEF LookupHolds
  <2>2. d # c /\ work'[d] = work[d]
    BY <1>1, <1>2, <2>1 DEF At
  <2>3. TunnelsOf(B(d)) = {} /\ B(d) \in Bindings /\ B(d)' = B(d)
    BY <2>1, <2>2 DEF OwnershipInv, LookupHolds, At, B, TypeOK, Worker
  <2>4. QED
    BY <2>3 DEF NoNewTunnel, TunnelsOf
<1>5. OneTunnelEach'
  BY DEF OwnershipInv, OneTunnelEach, NoNewTunnel
<1>6. QED
  BY <1>3, <1>4, <1>5 DEF OwnershipInv

\* A step that leaves the workers alone and brings no tunnel to life keeps it.
LEMMA NoPassKeeps ==
  ASSUME OwnershipInv, TypeOK', UNCHANGED work, NoNewTunnel
  PROVE  OwnershipInv'
<1>1. OwnPass'
  BY DEF OwnershipInv, OwnPass, At, B
<1>2. LookupHolds'
  <2>1. SUFFICES ASSUME NEW d \in Classes, At(d, "create")'
                 PROVE  TunnelsOf(B(d))' = {}
    BY DEF LookupHolds
  <2>2. TunnelsOf(B(d)) = {} /\ B(d) \in Bindings /\ B(d)' = B(d)
    BY <2>1 DEF OwnershipInv, LookupHolds, At, B, TypeOK, Worker
  <2>3. QED
    BY <2>2 DEF NoNewTunnel, TunnelsOf
<1>3. OneTunnelEach'
  BY DEF OwnershipInv, OneTunnelEach, NoNewTunnel
<1>4. QED
  BY <1>1, <1>2, <1>3 DEF OwnershipInv

\* Changing the rules of a tunnel, or ending it, brings no tunnel to life.
LEMMA RemoteSteps ==
  ASSUME TypeOK,
         \/ UNCHANGED remote
         \/ \E t, i : remote' = [remote EXCEPT ![t].ingress = i]
         \/ \E t, s : s # "live" /\ remote' = [remote EXCEPT ![t].state = s]
  PROVE  NoNewTunnel
<1>1. SUFFICES ASSUME NEW b \in Bindings, NEW u \in Tunnels,
                      remote'[u].state = "live", remote'[u].owner = b
               PROVE  remote[u].state = "live" /\ remote[u].owner = b
  BY DEF NoNewTunnel, TunnelsOf, Live
<1>2. remote[u] \in Remote
  BY DEF TypeOK
<1>3. CASE UNCHANGED remote
  BY <1>1, <1>3
<1>4. CASE \E t, i : remote' = [remote EXCEPT ![t].ingress = i]
  BY <1>1, <1>2, <1>4 DEF TypeOK, Remote
<1>5. CASE \E t, s : s # "live" /\ remote' = [remote EXCEPT ![t].state = s]
  BY <1>1, <1>2, <1>5 DEF TypeOK, Remote
<1>6. QED
  BY <1>3, <1>4, <1>5

\* A pass that moves its program counter goes on.
LEMMA GotoGoesOn ==
  ASSUME TypeOK, NEW c \in Classes, NEW pc, pc # "create", Goto(c, pc)
  PROVE  GoesOn(c)
<1>1. CASE pc = "idle"
  BY <1>1 DEF GoesOn, Goto, Idle
<1>2. CASE pc # "idle"
  <2>1. [work[c] EXCEPT !.pc = pc].pc = pc /\ [work[c] EXCEPT !.pc = pc].b = B(c)
    BY DEF TypeOK, Worker, B
  <2>2. QED
    BY <1>2, <2>1 DEF GoesOn, Goto
<1>3. QED
  BY <1>1, <1>2

\* So does a pass that patches the status.
LEMMA PatchGoesOn ==
  ASSUME TypeOK, NEW c \in Classes, NEW new, NEW r, NEW pc, pc # "create",
         PatchStatus(c, new, r, pc)
  PROVE  GoesOn(c)
<1>1. CASE pc = "idle"
  BY <1>1 DEF GoesOn, PatchStatus, Idle
<1>2. CASE pc # "idle"
  <2>1. PICK o : Enter(c, [work[c] EXCEPT !.pc = pc, !.obj = o])
    BY <1>2 DEF PatchStatus
  <2>2. /\ [work[c] EXCEPT !.pc = pc, !.obj = o].pc = pc
        /\ [work[c] EXCEPT !.pc = pc, !.obj = o].b = B(c)
    BY DEF TypeOK, Worker, B
  <2>3. QED
    BY <2>1, <2>2 DEF GoesOn
<1>3. QED
  BY <1>1, <1>2

\* The steps of a pass, in the order of Step; only two are not of that kind.
LEMMA StepKeeps ==
  ASSUME OwnershipInv, NEW c \in Classes, Step(c)
  PROVE  OwnershipInv'
<1>1. TypeOK /\ TypeOK'
  BY StepType DEF OwnershipInv
<1>2. work[c] \in Worker /\ B(c) \in Bindings
  BY <1>1 DEF TypeOK, Worker, B
<1>3. CASE Validate(c)
  <2>1. GoesOn(c)
    <3>1. PICK pc, f, g, v :
            /\ pc # "create"
            /\ \/ Goto(c, "report")
               \/ Enter(c, [work[c] EXCEPT !.pc = pc, !.hosts = f, !.origin = g])
               \/ Enter(c, [work[c] EXCEPT !.pc = pc, !.verdict = v])
      BY <1>3 DEF Validate
    <3>2. /\ [work[c] EXCEPT !.pc = pc, !.hosts = f, !.origin = g].pc = pc
          /\ [work[c] EXCEPT !.pc = pc, !.hosts = f, !.origin = g].b = B(c)
          /\ [work[c] EXCEPT !.pc = pc, !.verdict = v].pc = pc
          /\ [work[c] EXCEPT !.pc = pc, !.verdict = v].b = B(c)
      BY <1>2 DEF Worker, B
    <3>3. QED
      BY <1>1, <3>1, <3>2, GotoGoesOn DEF GoesOn
  <2>2. NoNewTunnel
    BY <1>1, <1>3, RemoteSteps DEF Validate
  <2>3. QED
    BY <1>1, <1>3, <2>1, <2>2, GoesOnKeeps DEF Validate, At
<1>4. CASE Report(c) \/ AddFinalizer(c)
  <2>1. GoesOn(c)
    BY <1>1, <1>4, PatchGoesOn, GotoGoesOn DEF Report, AddFinalizer, UpdateObject
  <2>2. NoNewTunnel
    BY <1>1, <1>4, RemoteSteps DEF Report, AddFinalizer
  <2>3. QED
    BY <1>1, <1>4, <2>1, <2>2, GoesOnKeeps DEF Report, AddFinalizer, At
<1>5. CASE Withdraw(c)
  <2>1. GoesOn(c)
    <3>1. CASE Reject(c)
      BY <1>1, <3>1, PatchGoesOn DEF Reject
    <3>2. CASE DpTunnel(c) \/ DpConfig(c) \/ DpDns(c)
      BY <1>1, <3>2, GotoGoesOn DEF DpTunnel, DpConfig, DpDns, GotoIf
    <3>3. QED
      BY <1>5, <3>1, <3>2 DEF Withdraw
  <2>2. NoNewTunnel
    BY <1>1, <1>5, RemoteSteps DEF Withdraw, Reject, DpTunnel, DpConfig, DpDns
  <2>3. ~At(c, "idle")
    BY <1>5 DEF Withdraw, Reject, DpTunnel, DpConfig, DpDns, At
  <2>4. QED
    BY <1>1, <2>1, <2>2, <2>3, GoesOnKeeps
<1>6. CASE Finalize(c)
  <2>1. GoesOn(c)
    BY <1>1, <1>6, GotoGoesOn
    DEF Finalize, FinProvider, FinDeploy, FinSecret, FinDns, FinTunnel, FinRemove,
        GotoIf, UpdateObject
  <2>2. NoNewTunnel
    <3>1. \/ UNCHANGED remote
          \/ \E t : remote' = [remote EXCEPT ![t].state = "deleted"]
      BY <1>6
      DEF Finalize, FinProvider, FinDeploy, FinSecret, FinDns, FinTunnel, FinRemove
    <3>2. QED
      BY <1>1, <3>1, RemoteSteps
  <2>3. ~At(c, "idle")
    BY <1>6
    DEF Finalize, FinProvider, FinDeploy, FinSecret, FinDns, FinTunnel, FinRemove, At
  <2>4. QED
    BY <1>1, <2>1, <2>2, <2>3, GoesOnKeeps
<1>7. CASE Program(c) /\ ~Find(c) /\ ~CreateTunnel(c)
  <2>1. GoesOn(c)
    <3>1. CASE GetTunnel(c)
      <4>1. /\ [work[c] EXCEPT !.pc = "configure", !.tunnel = Obj(c).tunnel].pc = "configure"
            /\ [work[c] EXCEPT !.pc = "configure", !.tunnel = Obj(c).tunnel].b = B(c)
        BY <1>2 DEF Worker, B
      <4>2. \/ Goto(c, "find") \/ Goto(c, "report")
            \/ Enter(c, [work[c] EXCEPT !.pc = "configure", !.tunnel = Obj(c).tunnel])
        BY <3>1 DEF GetTunnel, GotoIf
      <4>3. QED
        BY <1>1, <4>1, <4>2, GotoGoesOn DEF GoesOn
    <3>2. CASE RecordTunnel(c) \/ SetReady(c)
      BY <1>1, <3>2, PatchGoesOn DEF RecordTunnel, SetReady
    <3>3. CASE WriteEndpoint(c)
      <4>1. PICK a, pc : /\ pc # "create"
                         /\ Enter(c, [work[c] EXCEPT !.automated = a, !.pc = pc])
        BY <3>3 DEF WriteEndpoint
      <4>2. /\ [work[c] EXCEPT !.automated = a, !.pc = pc].pc = pc
            /\ [work[c] EXCEPT !.automated = a, !.pc = pc].b = B(c)
        BY <1>2 DEF Worker, B
      <4>3. QED
        BY <4>1, <4>2 DEF GoesOn
    <3>4. CASE FindFails(c) \/ Configure(c) \/ WriteSecret(c) \/ WriteDeployment(c)
      BY <1>1, <3>4, GotoGoesOn DEF FindFails, Configure, WriteSecret, WriteDeployment, GotoIf
    <3>5. QED
      BY <1>7, <3>1, <3>2, <3>3, <3>4 DEF Program
  <2>2. NoNewTunnel
    <3>1. UNCHANGED remote \/ \E t, i : remote' = [remote EXCEPT ![t].ingress = i]
      BY <1>7 DEF Program, GetTunnel, FindFails, RecordTunnel, Configure, WriteSecret,
                  WriteDeployment, WriteEndpoint, SetReady
    <3>2. QED
      BY <1>1, <3>1, RemoteSteps
  <2>3. ~At(c, "idle")
    BY <1>7 DEF Program, GetTunnel, FindFails, RecordTunnel, Configure, WriteSecret,
                WriteDeployment, WriteEndpoint, SetReady, At
  <2>4. QED
    BY <1>1, <2>1, <2>2, <2>3, GoesOnKeeps
<1>8. CASE Find(c)
  <2>1. NoNewTunnel
    BY <1>1, <1>8, RemoteSteps DEF Find
  <2>2. CASE GoesOn(c)
    BY <1>1, <1>8, <2>1, <2>2, GoesOnKeeps DEF Find, At
  <2>3. CASE TunnelsOf(B(c)) = {} /\ Goto(c, "create")
    <3>1. work' = [work EXCEPT ![c] = [work[c] EXCEPT !.pc = "create"]]
      BY <2>3 DEF Goto, Enter
    <3>2. B(c)' = B(c) /\ \A d \in Classes \ {c} : work'[d] = work[d]
      BY <1>1, <1>2, <3>1 DEF TypeOK, Worker, B
    <3>3. OwnPass'
      BY <1>8, <3>2 DEF OwnershipInv, OwnPass, Find, At, B
    <3>4. LookupHolds'
      <4>1. SUFFICES ASSUME NEW d \in Classes, At(d, "create")'
                     PROVE  TunnelsOf(B(d))' = {}
        BY DEF LookupHolds
      <4>2. TunnelsOf(B(d)) = {} /\ B(d)' = B(d) /\ B(d) \in Bindings
        BY <1>1, <2>3, <3>2, <4>1 DEF OwnershipInv, LookupHolds, At, B, TypeOK, Worker
      <4>3. QED
        BY <2>1, <4>2 DEF NoNewTunnel, TunnelsOf
    <3>5. QED
      BY <1>1, <2>1, <3>3, <3>4 DEF OwnershipInv, OneTunnelEach, NoNewTunnel
  <2>4. CASE \E t \in TunnelsOf(B(c)) :
               Enter(c, [work[c] EXCEPT !.pc = "record", !.tunnel = t])
    <3>1. PICK t : Enter(c, [work[c] EXCEPT !.pc = "record", !.tunnel = t])
      BY <2>4
    <3>2. /\ [work[c] EXCEPT !.pc = "record", !.tunnel = t].pc = "record"
          /\ [work[c] EXCEPT !.pc = "record", !.tunnel = t].b = B(c)
      BY <1>2 DEF Worker, B
    <3>3. GoesOn(c)
      BY <3>1, <3>2 DEF GoesOn
    <3>4. QED
      BY <2>2, <3>3
  <2>5. QED
    BY <1>8, <2>3, <2>4 DEF Find
<1>9. CASE CreateTunnel(c)
  <2> DEFINE b == B(c)
             t == CHOOSE u \in Unused : TRUE
  <2>1. TunnelsOf(b) = {} /\ ClassOf[b] = c
    BY <1>9 DEF OwnershipInv, LookupHolds, OwnPass, CreateTunnel, At
  <2>2. \/ UNCHANGED remote
        \/ remote' = [remote EXCEPT ![t] = [state |-> "live", owner |-> b, ingress |-> Unset]]
    BY <1>9 DEF CreateTunnel
  <2>3. \E w : Enter(c, w) /\ (w.pc = "idle" \/ (w.b = b /\ w.pc # "create"))
    <3>1. \/ Goto(c, "report")
          \/ Enter(c, [work[c] EXCEPT !.pc = "record", !.tunnel = t])
      BY <1>9 DEF CreateTunnel
    <3>2. /\ [work[c] EXCEPT !.pc = "record", !.tunnel = t].pc = "record"
          /\ [work[c] EXCEPT !.pc = "record", !.tunnel = t].b = b
      BY <1>2 DEF Worker, B
    <3>3. QED
      BY <1>1, <3>1, <3>2, GotoGoesOn DEF GoesOn
  <2>4. PICK w : Enter(c, w) /\ (w.pc = "idle" \/ (w.b = b /\ w.pc # "create"))
    BY <2>3
  <2>5. work'[c] = w /\ \A d \in Classes \ {c} : work'[d] = work[d]
    BY <1>1, <2>4 DEF Enter, TypeOK
  <2>6. OwnPass'
    BY <2>1, <2>4, <2>5 DEF OwnershipInv, OwnPass, At, B
  <2>7. \A a \in Bindings : /\ TunnelsOf(a)' \subseteq TunnelsOf(a) \cup {t}
                            /\ a # b => TunnelsOf(a)' \subseteq TunnelsOf(a)
    <3> HIDE DEF t
    <3>1. SUFFICES ASSUME NEW a \in Bindings, NEW u \in Tunnels,
                          remote'[u].state = "live", remote'[u].owner = a
                   PROVE  (remote[u].state = "live" /\ remote[u].owner = a) \/ (u = t /\ a = b)
      BY DEF TunnelsOf, Live
    <3>2. CASE u = t
      BY <1>1, <2>2, <3>1, <3>2 DEF TypeOK
    <3>3. CASE u # t
      BY <1>1, <2>2, <3>1, <3>3 DEF TypeOK
    <3>4. QED
      BY <3>2, <3>3
  <2>8. LookupHolds'
    <3>1. SUFFICES ASSUME NEW d \in Classes, At(d, "create")'
                   PROVE  TunnelsOf(B(d))' = {}
      BY DEF LookupHolds
    <3>2. d # c /\ work'[d] = work[d]
      BY <2>4, <2>5, <3>1 DEF At
    <3>3. /\ TunnelsOf(B(d)) = {} /\ B(d) \in Bindings /\ B(d)' = B(d)
          /\ ClassOf[B(d)] = d
      BY <1>1, <3>1, <3>2 DEF OwnershipInv, LookupHolds, OwnPass, At, B, TypeOK, Worker
    <3>4. QED
      BY <2>1, <2>7, <3>2, <3>3 DEF TunnelsOf
  <2>9. OneTunnelEach'
    <3> HIDE DEF t
    <3>1. SUFFICES ASSUME NEW a \in Bindings, NEW u1 \in TunnelsOf(a)', NEW u2 \in TunnelsOf(a)'
                   PROVE  u1 = u2
      BY DEF OneTunnelEach
    <3>2. CASE a = b
      BY <2>1, <2>7, <3>2
    <3>3. CASE a # b
      BY <2>7, <3>3 DEF OwnershipInv, OneTunnelEach
    <3>4. QED
      BY <3>2, <3>3
  <2>10. QED
    BY <1>1, <2>6, <2>8, <2>9 DEF OwnershipInv
<1>10. QED
  BY <1>3, <1>4, <1>5, <1>6, <1>7, <1>8, <1>9 DEF Step, Program

\* Users, watch events, crashes and the start of a pass.
LEMMA OthersKeep ==
  ASSUME OwnershipInv,
         \/ Others
         \/ \E c \in Classes : Crash(c)
         \/ \E c \in Classes, b \in Bindings : Start(c, b) \/ Deliver(c, b)
  PROVE  OwnershipInv'
<1>1. TypeOK /\ TypeOK'
  BY OthersType DEF OwnershipInv
<1>2. CASE Others
  <2>1. UNCHANGED work
    BY <1>2 DEF Others, CreateBinding, EditBinding, DeleteBinding, ChangeValid, ChangeRoutes,
                ChangeProvider, RemoveTunnel
  <2>2. NoNewTunnel
    <3>1. UNCHANGED remote \/ \E t : remote' = [remote EXCEPT ![t].state = "removed"]
      BY <1>2 DEF Others, CreateBinding, EditBinding, DeleteBinding, ChangeValid, ChangeRoutes,
                  ChangeProvider, RemoveTunnel
    <3>2. QED
      BY <1>1, <3>1, RemoteSteps
  <2>3. QED
    BY <1>1, <2>1, <2>2, NoPassKeeps
<1>3. CASE \E c \in Classes, b \in Bindings : Deliver(c, b)
  <2>1. UNCHANGED <<work, remote>>
    BY <1>3 DEF Deliver
  <2>2. QED
    BY <1>1, <2>1, NoPassKeeps, RemoteSteps
<1>4. CASE \E c \in Classes : Crash(c)
  <2>1. PICK c \in Classes : Crash(c)
    BY <1>4
  <2>2. work'[c] = Idle /\ (\A d \in Classes \ {c} : work'[d] = work[d]) /\ remote' = remote
    BY <1>1, <2>1 DEF Crash, Enter, TypeOK
  <2>3. OwnPass' /\ LookupHolds' /\ OneTunnelEach'
    BY <2>2 DEF OwnershipInv, OwnPass, LookupHolds, OneTunnelEach, At, B, TunnelsOf, Live, Idle
  <2>4. QED
    BY <1>1, <2>3 DEF OwnershipInv
<1>5. CASE \E c \in Classes, b \in Bindings : Start(c, b)
  <2>1. PICK c \in Classes, b \in Bindings : Start(c, b)
    BY <1>5
  <2>2. PICK w : Enter(c, w) /\ w.b = b /\ w.pc \in {"validate", "finProvider"}
    <3>1. PICK pc \in {"validate", "finProvider"} :
            Enter(c, [Idle EXCEPT !.b = b, !.obj = cache[c][b], !.pc = pc])
      BY <2>1 DEF Start
    <3>2. /\ [Idle EXCEPT !.b = b, !.obj = cache[c][b], !.pc = pc].b = b
          /\ [Idle EXCEPT !.b = b, !.obj = cache[c][b], !.pc = pc].pc = pc
      BY IdleType DEF Worker
    <3>3. QED
      BY <3>1, <3>2
  <2>3. work'[c] = w /\ (\A d \in Classes \ {c} : work'[d] = work[d]) /\ remote' = remote
    BY <1>1, <2>1, <2>2 DEF Start, Enter, TypeOK
  <2>4. ClassOf[b] = c
    BY <2>1 DEF Start
  <2>5. OwnPass' /\ LookupHolds' /\ OneTunnelEach'
    BY <2>2, <2>3, <2>4
    DEF OwnershipInv, OwnPass, LookupHolds, OneTunnelEach, At, B, TunnelsOf, Live
  <2>6. QED
    BY <1>1, <2>5 DEF OwnershipInv
<1>6. QED
  BY <1>2, <1>3, <1>4, <1>5

\* At first no tunnel is live and no worker is busy.
LEMMA InitOwnership == Init => OwnershipInv
<1>1. SUFFICES ASSUME Init PROVE OwnershipInv
  OBVIOUS
<1>2. OwnPass /\ LookupHolds /\ OneTunnelEach
  BY <1>1 DEF Init, OwnPass, LookupHolds, OneTunnelEach, At, B, TunnelsOf, Live, Idle, UnusedTunnel
<1>3. QED
  BY <1>1, <1>2, InitType DEF OwnershipInv

\* The invariant is inductive.
LEMMA Ownership == Spec => []OwnershipInv
<1>1. OwnershipInv /\ [Next]_vars => OwnershipInv'
  <2>1. ASSUME OwnershipInv, UNCHANGED vars PROVE OwnershipInv'
    <3>1. TypeOK'
      BY <2>1 DEF OwnershipInv, TypeOK, vars
    <3>2. QED
      BY <2>1, <3>1, NoPassKeeps, RemoteSteps DEF OwnershipInv, vars
  <2>2. QED
    BY <2>1, StepKeeps, OthersKeep DEF Next
<1>2. QED
  BY <1>1, InitOwnership, PTL DEF Spec

\* Whatever fails, crashes or is read stale, a binding never has two tunnels:
\* ensureTunnel looks for the binding's name before it creates a tunnel.
THEOREM OneTunnel == Spec => []OneTunnelEach
<1>1. OwnershipInv => OneTunnelEach
  BY DEF OwnershipInv
<1>2. QED
  BY <1>1, Ownership, PTL
=============================================================================
