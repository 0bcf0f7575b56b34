----------------------- MODULE TunnelBindingRefinement -----------------------
(***************************************************************************)
(* The steps of the binding controller, for any bindings, classes and      *)
(* bounds: each is a step of OwnedTunnels or changes nothing it speaks of. *)
(*                                                                         *)
(* The step that needs an argument is finalize deleting a tunnel: it works *)
(* on a copy of the binding, which may already be gone under a policy that *)
(* keeps tunnels.  It never does so with a copy of another policy: the     *)
(* finalizer is removed only from the very version the pass has in memory, *)
(* and what the cache shows afterwards is that version or a later one.     *)
(***************************************************************************)
EXTENDS TunnelBindingRecords

-----------------------------------------------------------------------------
(* The copies of a binding and its generations.                            *)

\* No copy is of a later generation than the binding.
Generations ==
  /\ \A b \in Bindings : api[b].phase = "absent" => api[b].gen = 0
  /\ \A c \in Classes, b \in Bindings : cache[c][b].gen <= api[b].gen
  /\ \A c \in Classes : ~At(c, "idle") => Obj(c).gen <= api[B(c)].gen

\* The copies from which finalize may work, once the binding is gone, have the
\* policy under which it went.
Decided ==
  /\ \A b \in Bindings :
       LET o == cache[ClassOf[b]][b]
       IN  api[b].phase = "gone" /\ o.phase = "deleting" => o.policy = api[b].policy
  /\ \A c \in Classes : work[c].pc \in Finishing =>
       /\ api[B(c)].phase = "gone" => Obj(c).policy = api[B(c)].policy
       /\ api[B(c)] = Obj(c) => cache[c][B(c)].policy = Obj(c).policy

DecidedInv == RecordsInv /\ Generations /\ Decided

\* What the steps that write metadata write.
LEMMA MetadataWrites ==
  ASSUME TypeOK, NEW c \in Classes
  PROVE  /\ Guards(c) \/ Frees(c) =>
              /\ \A b \in Bindings \ {B(c)} : api'[b] = api[b]
              /\ \A b \in Bindings : /\ api'[b].gen = api[b].gen /\ api'[b].policy = api[b].policy
                                     /\ api'[b].tunnel = api[b].tunnel
         /\ Guards(c) => api'[B(c)].phase = api[B(c)].phase /\ api'[B(c)].finalizer
         /\ Frees(c) => api'[B(c)].phase = "gone" /\ ~api'[B(c)].finalizer
<1> DEFINE g == [Obj(c) EXCEPT !.finalizer = TRUE]
           f == [Obj(c) EXCEPT !.finalizer = FALSE, !.phase = "gone"]
<1>1. B(c) \in Bindings
  BY ReferenceTypes
<1>2. /\ g.gen = Obj(c).gen /\ g.policy = Obj(c).policy /\ g.tunnel = Obj(c).tunnel
      /\ g.phase = Obj(c).phase /\ g.finalizer
      /\ f.gen = Obj(c).gen /\ f.policy = Obj(c).policy /\ f.tunnel = Obj(c).tunnel
      /\ f.phase = "gone" /\ ~f.finalizer
  BY DEF TypeOK, Obj, Worker, Object
<1>3. /\ Guards(c) => api[B(c)] = Obj(c) /\ api' = [api EXCEPT ![B(c)] = g]
      /\ Frees(c) => api[B(c)] = Obj(c) /\ api' = [api EXCEPT ![B(c)] = f]
  BY DEF Guards, Frees
<1> HIDE DEF g, f
<1>4. \A n : api' = [api EXCEPT ![B(c)] = n] =>
        api'[B(c)] = n /\ \A b \in Bindings \ {B(c)} : api'[b] = api[b]
  BY <1>1 DEF TypeOK
<1>5. QED
  BY <1>1, <1>2, <1>3, <1>4

\* A step writes one object of the API server at most, or the account.
LEMMA StepWrites ==
  ASSUME TypeOK, NEW c \in Classes, Step(c)
  PROVE  /\ \A b \in Bindings \ {B(c)} : api'[b] = api[b]
         /\ work[c].pc \in Finishing => api' = api \/ Frees(c)
         /\ UNCHANGED api \/ UNCHANGED remote
<1>1. B(c) \in Bindings
  BY ReferenceTypes
<1>2. Guards(c) \/ Frees(c) => \A b \in Bindings \ {B(c)} : api'[b] = api[b]
  BY MetadataWrites
<1>3. CASE Report(c) \/ Reject(c) \/ RecordTunnel(c) \/ SetReady(c)
  <2>1. work[c].pc \notin Finishing /\ UNCHANGED remote
    BY <1>3 DEF Report, Reject, RecordTunnel, SetReady, At, Finishing
  <2>2. \E new, r, pc : PatchStatus(c, new, r, pc)
    BY <1>3 DEF Report, Reject, RecordTunnel, SetReady
  <2>3. QED
    BY <2>1, <2>2, PatchEffect
<1>4. CASE AddFinalizer(c)
  <2>1. (api' = api \/ Guards(c)) /\ UNCHANGED remote /\ work[c].pc \notin Finishing
    BY <1>4 DEF AddFinalizer, UpdateObject, Applied, Guards, At, Finishing
  <2>2. QED
    BY <1>2, <2>1
<1>5. CASE FinRemove(c)
  <2>1. (api' = api \/ Frees(c)) /\ UNCHANGED remote
    BY <1>5 DEF FinRemove, UpdateObject, Applied, Frees
  <2>2. QED
    BY <1>2, <2>1
<1>6. CASE UNCHANGED api
  BY <1>6
<1>7. CASE Validate(c) \/ DpTunnel(c) \/ DpConfig(c) \/ DpDns(c)
  BY <1>6, <1>7 DEF Validate, DpTunnel, DpConfig, DpDns
<1>8. CASE FinProvider(c) \/ FinDeploy(c) \/ FinSecret(c) \/ FinDns(c) \/ FinTunnel(c)
  BY <1>6, <1>8 DEF FinProvider, FinDeploy, FinSecret, FinDns, FinTunnel
<1>9. CASE GetTunnel(c) \/ Find(c) \/ FindFails(c) \/ CreateTunnel(c) \/ Configure(c)
             \/ WriteSecret(c) \/ WriteDeployment(c) \/ WriteEndpoint(c)
  BY <1>6, <1>9 DEF GetTunnel, Find, FindFails, CreateTunnel, Configure, WriteSecret,
                    WriteDeployment, WriteEndpoint
<1>10. QED
  BY <1>3, <1>4, <1>5, <1>7, <1>8, <1>9 DEF Step, Withdraw, Finalize, Program

\* What the invariant says of a pass that writes metadata.
LEMMA WritersKnow ==
  ASSUME RecordsInv, NEW c \in Classes
  PROVE  /\ Guards(c) => api[B(c)].phase = "live"
         /\ Frees(c) => work[c].pc \in Finishing /\ api[B(c)].phase = "deleting"
BY DEF Guards, Frees, RecordsInv, LifecycleInv, BehindInv, PassBehind, At, Finishing

\* A binding that is gone stays as it was when it went.
LEMMA GoneStays ==
  ASSUME RecordsInv, NEW c \in Classes, Step(c), NEW b \in Bindings, api[b].phase = "gone"
  PROVE  api'[b] = api[b]
<1>1. TypeOK
  BY DEF RecordsInv, LifecycleInv, BehindInv, OwnershipInv
<1>2. api'[b] = api[b] \/ Guards(c) \/ Frees(c)
  BY <1>1, StepLink
<1>3. Guards(c) \/ Frees(c) => b # B(c)
  BY WritersKnow
<1>4. QED
  BY <1>1, <1>2, <1>3, StepWrites

\* The steps of a pass keep this.
LEMMA StepDecided ==
  ASSUME DecidedInv, NEW c \in Classes, Step(c)
  PROVE  Generations' /\ Decided'
<1>1. /\ RecordsInv /\ TypeOK /\ B(c) \in Bindings /\ Obj(c) \in Object /\ ClassOf[B(c)] = c
      /\ Onward(c) /\ UNCHANGED cache /\ ~At(c, "idle")
      /\ SameSpecs \/ Guards(c) \/ Frees(c)
  BY StepOnward, StepObjects, ReferenceTypes
  DEF DecidedInv, RecordsInv, LifecycleInv, BehindInv, OwnershipInv, OwnPass, TypeOK, Worker, Obj
<1>2. \A b \in Bindings : api'[b].gen = api[b].gen /\ api'[b].policy = api[b].policy
  BY <1>1, MetadataWrites DEF SameSpecs
<1>3. \A b \in Bindings : api'[b].phase = "absent" => api[b].phase = "absent"
  BY <1>1, MetadataWrites DEF SameSpecs
<1>4. \A d \in Classes \ {c} : work'[d] = work[d] /\ B(d) \in Bindings
  BY <1>1, ReferenceTypes DEF Onward
<1>5. Generations'
  <2>1. \A b \in Bindings : (api[b].phase = "absent" => api[b].gen = 0)'
    BY <1>2, <1>3 DEF DecidedInv, Generations
  <2>2. \A d \in Classes, b \in Bindings : (cache[d][b].gen <= api[b].gen)'
    BY <1>1, <1>2 DEF DecidedInv, Generations
  <2>3. \A d \in Classes \ {c} : (~At(d, "idle") => Obj(d).gen <= api[B(d)].gen)'
    BY <1>2, <1>4 DEF DecidedInv, Generations, At, Obj, B
  <2>4. (~At(c, "idle") => Obj(c).gen <= api[B(c)].gen)'
    <3>1. SUFFICES ASSUME work'[c].pc # "idle" PROVE Obj(c)'.gen <= api'[B(c)'].gen
      BY DEF At
    <3>2. B(c)' = B(c) /\ Obj(c)'.gen \in {Obj(c).gen, api[B(c)].gen}
      BY <1>1, <3>1, StepCopies DEF Onward, B, Obj
    <3>3. Obj(c).gen <= api[B(c)].gen /\ api[B(c)].gen \in Nat
      BY <1>1 DEF DecidedInv, Generations, TypeOK, Object
    <3>4. QED
      BY <1>1, <1>2, <3>2, <3>3
  <2>5. QED
    BY <2>1, <2>2, <2>3, <2>4 DEF Generations
<1>6. ASSUME NEW b \in Bindings, api'[b].phase = "gone", api[b].phase # "gone"
      PROVE  Frees(c) /\ b = B(c) /\ work[c].pc \in Finishing
  <2>1. ~SameSpecs
    BY <1>6 DEF SameSpecs
  <2>2. ~Guards(c)
    BY <1>1, <1>6, MetadataWrites
  <2>3. QED
    BY <1>1, <1>6, <2>1, <2>2, StepWrites, WritersKnow
<1>7. \A b \in Bindings : ( LET o == cache[ClassOf[b]][b]
                           IN  api[b].phase = "gone" /\ o.phase = "deleting" =>
                                 o.policy = api[b].policy )'
  <2>1. SUFFICES ASSUME NEW b \in Bindings, api'[b].phase = "gone",
                        cache[ClassOf[b]][b].phase = "deleting"
                 PROVE  cache[ClassOf[b]][b].policy = api[b].policy
    BY <1>1, <1>2
  <2>2. CASE api[b].phase = "gone"
    BY <2>1, <2>2 DEF DecidedInv, Decided
  <2>3. CASE api[b].phase # "gone"
    BY <1>1, <1>6, <2>1, <2>3 DEF DecidedInv, Decided, Frees
  <2>4. QED
    BY <2>2, <2>3
<1>8. \A d \in Classes : ( work[d].pc \in Finishing =>
        /\ api[B(d)].phase = "gone" => Obj(d).policy = api[B(d)].policy
        /\ api[B(d)] = Obj(d) => cache[d][B(d)].policy = Obj(d).policy )'
  <2>1. TAKE d \in Classes
  <2>2. CASE d # c
    <3>1. work'[d] = work[d] /\ B(d) \in Bindings /\ (At(d, "idle") \/ B(d) # B(c))
      BY <1>1, <1>4, <2>2
      DEF DecidedInv, RecordsInv, LifecycleInv, BehindInv, OwnershipInv, OwnPass
    <3>2. At(d, "idle") \/ api'[B(d)] = api[B(d)]
      BY <1>1, <3>1, StepWrites
    <3>3. QED
      BY <1>1, <3>1, <3>2 DEF DecidedInv, Decided, At, B, Obj, Finishing
  <2>3. CASE d = c /\ work'[c].pc \in Finishing
    <3>1. work[c].pc \in Finishing /\ Obj(c)' = Obj(c) /\ B(c)' = B(c)
      BY <1>1, <2>3 DEF Onward, Aside, Making, Finishing, B, Obj
    <3>2. CASE api' = api
      BY <1>1, <2>3, <3>1, <3>2 DEF DecidedInv, Decided
    <3>3. CASE Frees(c)
      <4>1. /\ api'[B(c)].phase = "gone" /\ api'[B(c)].policy = Obj(c).policy
            /\ Obj(c).phase = "deleting"
        BY <1>1, <3>3, WritersKnow DEF Frees, TypeOK, Object
      <4>2. QED
        BY <2>3, <3>1, <4>1
    <3>4. QED
      BY <1>1, <3>1, <3>2, <3>3, StepWrites
  <2>4. QED
    BY <2>2, <2>3
<1>9. QED
  BY <1>5, <1>7, <1>8 DEF Decided

\* An edit makes a later generation; users do not delete twice.
LEMMA OthersDecided ==
  ASSUME DecidedInv, Others
  PROVE  Generations' /\ Decided'
<1>1. RecordsInv /\ TypeOK /\ UNCHANGED <<cache, work>>
  BY OthersObjects DEF DecidedInv, RecordsInv, LifecycleInv, BehindInv, OwnershipInv
<1>2. /\ \A b \in Bindings : api[b].gen \in Nat /\ api'[b].gen \in Nat
      /\ \A c \in Classes, b \in Bindings : cache[c][b].gen \in Nat
      /\ \A c \in Classes : Obj(c).gen \in Nat /\ B(c) \in Bindings
  <2>1. TypeOK'
    BY <1>1, OthersType
  <2>2. QED
    BY <1>1, <2>1 DEF TypeOK, Object, Worker, Obj, B
<1>3. \A b \in Bindings : api[b].gen <= api'[b].gen
  BY <1>1, <1>2, OthersObjects DEF DecidedInv, Generations
<1>4. \A b \in Bindings :
        \/ api'[b] = api[b]
        \/ ~Ending(api[b]) /\ (api'[b].phase = "gone" => api[b].phase = "live")
        \/ /\ api'[b].gen > api[b].gen /\ api'[b].phase # "gone"
  BY <1>1, <1>2, OthersObjects DEF Ending, Exists
<1>5. Generations'
  <2>1. \A b \in Bindings : api'[b].phase = "absent" => api'[b] = api[b]
    BY <1>1, OthersObjects DEF Exists
  <2>2. \A b \in Bindings : (api[b].phase = "absent" => api[b].gen = 0)'
    BY <2>1 DEF DecidedInv, Generations
  <2>3. \A c \in Classes, b \in Bindings : (cache[c][b].gen <= api[b].gen)'
    BY <1>1, <1>2, <1>3 DEF DecidedInv, Generations
  <2>4. \A c \in Classes : (~At(c, "idle") => Obj(c).gen <= api[B(c)].gen)'
    BY <1>1, <1>2, <1>3 DEF DecidedInv, Generations, At, Obj, B
  <2>5. QED
    BY <2>2, <2>3, <2>4 DEF Generations
<1>6. \A b \in Bindings : ( LET o == cache[ClassOf[b]][b]
                           IN  api[b].phase = "gone" /\ o.phase = "deleting" =>
                                 o.policy = api[b].policy )'
  <2>1. SUFFICES ASSUME NEW b \in Bindings, api'[b].phase = "gone",
                        cache[ClassOf[b]][b].phase = "deleting"
                 PROVE  cache[ClassOf[b]][b].policy = api'[b].policy
    BY <1>1
  <2>2. Ending(api[b])
    BY <1>1, <2>1, ClassAssumption DEF RecordsInv, LifecycleInv, BehindInv, CacheBehind
  <2>3. api'[b] = api[b]
    BY <1>4, <2>1, <2>2
  <2>4. QED
    BY <2>1, <2>3 DEF DecidedInv, Decided
<1>7. \A c \in Classes : ( work[c].pc \in Finishing =>
        /\ api[B(c)].phase = "gone" => Obj(c).policy = api[B(c)].policy
        /\ api[B(c)] = Obj(c) => cache[c][B(c)].policy = Obj(c).policy )'
  <2>1. SUFFICES ASSUME NEW c \in Classes, work[c].pc \in Finishing
                 PROVE  /\ api'[B(c)].phase = "gone" => Obj(c).policy = api'[B(c)].policy
                        /\ api'[B(c)] = Obj(c) => cache[c][B(c)].policy = Obj(c).policy
    BY <1>1 DEF B, Obj
  <2>2. Ending(api[B(c)]) /\ B(c) \in Bindings /\ Obj(c).gen <= api[B(c)].gen
    BY <1>1, <1>2, <2>1
    DEF RecordsInv, LifecycleInv, BehindInv, PassBehind, DecidedInv, Generations, At, Finishing
  <2>3. api'[B(c)] = api[B(c)] \/ (api'[B(c)].phase # "gone" /\ api'[B(c)] # Obj(c))
    BY <1>2, <1>4, <2>2
  <2>4. QED
    BY <2>1, <2>3 DEF DecidedInv, Decided
<1>8. QED
  BY <1>5, <1>6, <1>7 DEF Decided

\* A cache, or a pass that starts, gets a copy that satisfies it.
LEMMA ManagerDecided ==
  ASSUME DecidedInv,
         \/ \E c \in Classes : Crash(c)
         \/ \E c \in Classes, b \in Bindings : Start(c, b) \/ Deliver(c, b)
  PROVE  Generations' /\ Decided'
<1>1. RecordsInv /\ TypeOK
  BY DEF DecidedInv, RecordsInv, LifecycleInv, BehindInv, OwnershipInv
<1>2. UNCHANGED api
  BY DEF Crash, Start, Deliver
<1>3. \A c \in Classes, b \in Bindings : cache'[c][b] = cache[c][b] \/ cache'[c][b] = api[b]
  BY <1>1, ManagerCopies
<1>4. \A c \in Classes :
        \/ work'[c] = work[c]
        \/ work'[c].pc = "idle"
        \/ \E b \in Bindings :
             /\ ClassOf[b] = c /\ work'[c].b = b /\ work'[c].obj = cache[c][b]
             /\ \/ work'[c].pc = "validate"
                \/ work'[c].pc = "finProvider" /\ cache[c][b].phase = "deleting"
  BY <1>1, ManagerMoves
<1>5. \A b \in Bindings : api[b].gen \in Nat
  BY <1>1 DEF TypeOK, Object
<1>6. \A c \in Classes : B(c) \in Bindings
  BY <1>1, ReferenceTypes
<1>7. Generations'
  <2>1. \A c \in Classes, b \in Bindings : (cache[c][b].gen <= api[b].gen)'
    BY <1>2, <1>3, <1>5 DEF DecidedInv, Generations
  <2>2. \A c \in Classes : (~At(c, "idle") => Obj(c).gen <= api[B(c)].gen)'
    BY <1>2, <1>4 DEF DecidedInv, Generations, At, Obj, B
  <2>3. QED
    BY <1>2, <2>1, <2>2 DEF DecidedInv, Generations
<1>8. \A b \in Bindings : ( LET o == cache[ClassOf[b]][b]
                           IN  api[b].phase = "gone" /\ o.phase = "deleting" =>
                                 o.policy = api[b].policy )'
  BY <1>2, <1>3, ClassAssumption DEF DecidedInv, Decided
<1>9. \A c \in Classes : ( work[c].pc \in Finishing =>
        /\ api[B(c)].phase = "gone" => Obj(c).policy = api[B(c)].policy
        /\ api[B(c)] = Obj(c) => cache[c][B(c)].policy = Obj(c).policy )'
  <2>1. TAKE c \in Classes
  <2>2. CASE work'[c] = work[c]
    BY <1>2, <1>3, <1>6, <2>2 DEF DecidedInv, Decided, B, Obj
  <2>3. CASE work'[c] # work[c] /\ work'[c].pc \in Finishing
    <3>1. PICK b \in Bindings :
            /\ ClassOf[b] = c /\ work'[c].b = b /\ work'[c].obj = cache[c][b]
            /\ cache[c][b].phase = "deleting"
      BY <1>4, <2>3 DEF Finishing
    <3>2. api[b].phase = "gone" => cache[c][b].policy = api[b].policy
      BY <3>1 DEF DecidedInv, Decided
    <3>3. QED
      BY <1>2, <1>3, <3>1, <3>2 DEF B, Obj
  <2>4. QED
    BY <2>2, <2>3
<1>10. QED
  BY <1>7, <1>8, <1>9 DEF Decided

\* The invariant is inductive.
LEMMA DecidedAlways == Spec => []DecidedInv
<1>1. Init => Generations /\ Decided
  <2>1. SUFFICES ASSUME Init PROVE Generations /\ Decided
    OBVIOUS
  <2>2. \A c \in Classes : work[c].pc = "idle"
    BY <2>1 DEF Init, Idle
  <2>3. \A b \in Bindings : /\ api[b].phase = "absent" /\ api[b].gen = 0
                            /\ \A c \in Classes : cache[c][b].gen = 0
    BY <2>1 DEF Init, NewObject
  <2>4. QED
    BY <2>2, <2>3 DEF Generations, Decided, Finishing, At
<1>2. RecordsInv /\ Generations /\ Decided /\ [Next]_vars => (Generations /\ Decided)'
  <2>1. ASSUME DecidedInv, UNCHANGED vars PROVE Generations' /\ Decided'
    BY <2>1 DEF DecidedInv, Generations, Decided, At, B, Obj, vars
  <2>2. QED
    BY <2>1, StepDecided, OthersDecided, ManagerDecided DEF DecidedInv, Next
<1>3. Spec => []RecordsInv
  BY Records
<1>4. QED
  BY <1>1, <1>2, <1>3, PTL DEF Spec, DecidedInv

-----------------------------------------------------------------------------
(* Every step is a step of OwnedTunnels.                                   *)

\* The initial states.
LEMMA InitRefines == Init => Life!Init
<1>1. SUFFICES ASSUME Init PROVE Life!Init
  OBVIOUS
<1>2. /\ [b \in Bindings |-> api[b].phase] = [b \in Bindings |-> "absent"]
      /\ [b \in Bindings |-> api[b].finalizer] = [b \in Bindings |-> FALSE]
      /\ [b \in Bindings |-> api[b].policy] \in [Bindings -> {"Delete", "Retain"}]
      /\ [b \in Bindings |-> api[b].tunnel] = [b \in Bindings |-> NoTunnel]
  BY <1>1 DEF Init, NewObject
<1>3. [t \in Tunnels |-> [state |-> remote[t].state, owner |-> remote[t].owner]]
        \in [Tunnels -> [state : {"unused"}, owner : Bindings]]
  BY <1>1, InitType DEF Init, UnusedTunnel, TypeOK, Remote
<1>4. QED
  BY <1>2, <1>3 DEF Life!Init

\* What OwnedTunnels speaks of: objects and tunnels, without their rules.
Phases     == [b \in Bindings |-> api[b].phase]
Finalizers == [b \in Bindings |-> api[b].finalizer]
Decisions  == [b \in Bindings |-> api[b].policy]
Recorded   == [b \in Bindings |-> api[b].tunnel]
Account    == [t \in Tunnels |-> [state |-> remote[t].state, owner |-> remote[t].owner]]

SameObjects == UNCHANGED <<Phases, Finalizers, Decisions, Recorded>>

\* It reads them as they are.
LEMMA Readings ==
  /\ \A b \in Bindings : /\ Phases[b] = api[b].phase /\ Finalizers[b] = api[b].finalizer
                         /\ Decisions[b] = api[b].policy /\ Recorded[b] = api[b].tunnel
  /\ \A t \in Tunnels : /\ Account[t].state = remote[t].state
                        /\ Account[t].owner = remote[t].owner
                        /\ Life!Live(t) <=> Live(t)
BY DEF Phases, Finalizers, Decisions, Recorded, Account, Life!Live, Live

\* A step that changes one thing changes its reading in one place.
LEMMA Rereadings ==
  /\ api' = api => SameObjects
  /\ (\A t \in Tunnels : remote'[t].state = remote[t].state /\ remote'[t].owner = remote[t].owner)
       => UNCHANGED Account
  /\ \A t \in Tunnels : \A s :
       /\ \A u \in Tunnels \ {t} : remote'[u].state = remote[u].state /\ remote'[u].owner = remote[u].owner
       /\ remote'[t].state = s /\ remote'[t].owner = remote[t].owner
       => Account' = [Account EXCEPT ![t].state = s]
  /\ \A t \in Tunnels, b \in Bindings :
       /\ \A u \in Tunnels \ {t} : remote'[u].state = remote[u].state /\ remote'[u].owner = remote[u].owner
       /\ remote'[t].state = "live" /\ remote'[t].owner = b
       => Account' = [Account EXCEPT ![t] = [state |-> "live", owner |-> b]]
<1>1. api' = api => SameObjects
  BY DEF SameObjects, Phases, Finalizers, Decisions, Recorded
<1>2. (\A t \in Tunnels : remote'[t].state = remote[t].state /\ remote'[t].owner = remote[t].owner)
       => UNCHANGED Account
  BY DEF Account
<1>3. ASSUME NEW t \in Tunnels, NEW s,
             \A u \in Tunnels \ {t} : /\ remote'[u].state = remote[u].state
                                      /\ remote'[u].owner = remote[u].owner,
             remote'[t].state = s, remote'[t].owner = remote[t].owner
      PROVE  Account' = [Account EXCEPT ![t].state = s]
  BY <1>3 DEF Account
<1>4. ASSUME NEW t \in Tunnels, NEW b \in Bindings,
             \A u \in Tunnels \ {t} : /\ remote'[u].state = remote[u].state
                                      /\ remote'[u].owner = remote[u].owner,
             remote'[t].state = "live", remote'[t].owner = b
      PROVE  Account' = [Account EXCEPT ![t] = [state |-> "live", owner |-> b]]
  BY <1>4 DEF Account
<1>5. QED
  BY <1>1, <1>2, <1>3, <1>4

\* A step that changes nothing of that stutters.
LEMMA Stutters ==
  ASSUME SameObjects, UNCHANGED Account
  PROVE  UNCHANGED Life!vars
BY DEF SameObjects, Phases, Finalizers, Decisions, Recorded, Account, Life!vars

\* Tunnels are made for bindings that carry the finalizer and have none.
LEMMA Makes ==
  ASSUME NEW b \in Bindings, NEW t \in Tunnels, Guarded(b), TunnelsOf(b) = {},
         remote[t].state = "unused", SameObjects,
         Account' = [Account EXCEPT ![t] = [state |-> "live", owner |-> b]]
  PROVE  Life!Make(b, t)
<1>1. Life!Exists(b) /\ Finalizers[b] /\ Account[t].state = "unused"
  BY Readings DEF Guarded, Exists, Life!Exists, Phases
<1>2. ~Life!Has(b)
  <2>1. \A u \in Tunnels : ~(Life!Live(u) /\ Account[u].owner = b)
    BY Readings DEF TunnelsOf
  <2>2. QED
    BY <2>1 DEF Life!Has, Account
<1>3. QED
  BY <1>1, <1>2
  DEF Life!Make, SameObjects, Phases, Finalizers, Decisions, Recorded, Account

\* The status of such a binding names a tunnel made for it.
LEMMA Links ==
  ASSUME NEW b \in Bindings, NEW t \in Tunnels, Guarded(b), Owns(b, t),
         Recorded' = [Recorded EXCEPT ![b] = t],
         UNCHANGED Phases, UNCHANGED Finalizers, UNCHANGED Decisions, UNCHANGED Account
  PROVE  Life!Record(b, t)
<1>1. Life!Exists(b) /\ Finalizers[b]
  BY Readings DEF Guarded, Exists, Life!Exists, Phases
<1>2. t # NoTunnel => Account[t].state # "unused" /\ Account[t].owner = b
  BY Readings DEF Owns
<1>3. QED
  BY <1>1, <1>2 DEF Life!Record, Phases, Finalizers, Decisions, Recorded, Account

\* finalize deletes the tunnel that the status names.
LEMMA Releases ==
  ASSUME NEW b \in Bindings, NEW t \in Tunnels, api[b].phase = "deleting", api[b].tunnel = t,
         Live(t), remote[t].owner = b, SameObjects,
         Account' = [Account EXCEPT ![t].state = "deleted"]
  PROVE  Life!Release(b, t)
<1>1. /\ Life!Live(t) /\ Account[t].owner = b
      /\ Phases[b] = "deleting" /\ Recorded[b] = t
  BY Readings
<1>2. QED
  BY <1>1 DEF Life!Release, SameObjects, Phases, Finalizers, Decisions, Recorded, Account

\* The finalizer comes first, and goes last.
LEMMA GuardsIt ==
  ASSUME NEW b \in Bindings, api[b].phase = "live",
         Finalizers' = [Finalizers EXCEPT ![b] = TRUE],
         UNCHANGED Phases, UNCHANGED Decisions, UNCHANGED Recorded, UNCHANGED Account
  PROVE  Life!Guard(b)
<1>1. Phases[b] = "live"
  BY Readings
<1>2. QED
  BY <1>1 DEF Life!Guard, Phases, Finalizers, Decisions, Recorded, Account

\* The binding goes when the tunnel it records is dealt with.
LEMMA Finishes ==
  ASSUME NEW b \in Bindings, api[b].phase = "deleting",
         api[b].policy = "Delete" /\ api[b].tunnel # NoTunnel =>
           api[b].tunnel \in Tunnels /\ ~Live(api[b].tunnel),
         Phases' = [Phases EXCEPT ![b] = "gone"],
         Finalizers' = [Finalizers EXCEPT ![b] = FALSE],
         UNCHANGED Decisions, UNCHANGED Recorded, UNCHANGED Account
  PROVE  Life!Finish(b)
<1>1. /\ Phases[b] = "deleting"
      /\ Decisions[b] = "Delete" /\ Recorded[b] # NoTunnel => ~Life!Live(Recorded[b])
  BY Readings
<1>2. QED
  BY <1>1 DEF Life!Finish, Phases, Finalizers, Decisions, Recorded, Account

\* An object that changes in the API server changes its reading.
LEMMA ObjectRereadings ==
  ASSUME NEW b \in Bindings, \A a \in Bindings \ {b} : api'[a] = api[a]
  PROVE  /\ Phases'     = [Phases EXCEPT ![b] = api'[b].phase]
         /\ Finalizers' = [Finalizers EXCEPT ![b] = api'[b].finalizer]
         /\ Decisions'  = [Decisions EXCEPT ![b] = api'[b].policy]
         /\ Recorded'   = [Recorded EXCEPT ![b] = api'[b].tunnel]
         /\ api'[b].phase = api[b].phase => UNCHANGED Phases
         /\ api'[b].finalizer = api[b].finalizer => UNCHANGED Finalizers
         /\ api'[b].policy = api[b].policy => UNCHANGED Decisions
         /\ api'[b].tunnel = api[b].tunnel => UNCHANGED Recorded
BY DEF Phases, Finalizers, Decisions, Recorded

\* Each of these steps is one of the abstract specification.
LEMMA AbstractSteps ==
  ASSUME NEW b \in Bindings
  PROVE  /\ \A t \in Tunnels : Life!Make(b, t) \/ Life!Release(b, t) => Life!Next
         /\ \A t \in Tunnels : Life!Record(b, t) => Life!Next
         /\ Life!Guard(b) \/ Life!Finish(b) => Life!Next
         /\ Life!Appear(b) \/ Life!EditPolicy(b) \/ Life!Delete(b) => Life!Next
         /\ \A t \in Tunnels : Life!Lose(t) => Life!Next
<1>1. \A t \in Tunnels : Life!Make(b, t) \/ Life!Release(b, t) => Life!Next
  BY Zenon DEF Life!Next
<1>2. \A t \in Tunnels : Life!Record(b, t) => Life!Next
  <2>1. Tunnels \subseteq Tunnels \cup {NoTunnel}
    OBVIOUS
  <2>2. QED
    BY <2>1, Zenon DEF Life!Next
<1>3. Life!Guard(b) \/ Life!Finish(b) => Life!Next
  BY Zenon DEF Life!Next
<1>4. Life!Appear(b) \/ Life!EditPolicy(b) \/ Life!Delete(b) => Life!Next
  BY Zenon DEF Life!Next
<1>5. \A t \in Tunnels : Life!Lose(t) => Life!Next
  BY Zenon DEF Life!Next
<1>6. QED
  BY <1>1, <1>2, <1>3, <1>4, <1>5

\* The steps of a pass.
LEMMA StepRefines ==
  ASSUME DecidedInv, NEW c \in Classes, Step(c)
  PROVE  [Life!Next]_(Life!vars)
<1>1. /\ RecordsInv /\ TypeOK /\ B(c) \in Bindings /\ ~At(c, "idle")
      /\ SameSpecs \/ Guards(c) \/ Frees(c)
  BY StepObjects, ReferenceTypes DEF DecidedInv, RecordsInv, LifecycleInv, BehindInv, OwnershipInv
<1>2. \A b \in Bindings \ {B(c)} : api'[b] = api[b]
  BY <1>1, StepWrites
<1>3. /\ Obj(c).tunnel \in Tunnels \cup {NoTunnel} /\ work[c].tunnel \in Tunnels \cup {NoTunnel}
      /\ \A b \in Bindings : api[b].tunnel \in Tunnels \cup {NoTunnel}
  BY <1>1, ReferenceTypes
<1>. PICK b \in Bindings : b = B(c)
  BY <1>1
<1>4. CASE api' # api
  <2>1. UNCHANGED Account
    BY <1>1, <1>4, StepWrites, Rereadings
  <2>2. CASE SameSpecs
    <3>1. UNCHANGED Phases /\ UNCHANGED Finalizers /\ UNCHANGED Decisions
      BY <1>1, <1>2, <2>2, ObjectRereadings DEF SameSpecs
    <3>2. CASE api'[B(c)].tunnel = api[B(c)].tunnel
      BY <1>1, <1>2, <2>1, <3>1, <3>2, ObjectRereadings, Stutters DEF SameObjects
    <3>3. CASE api'[B(c)].tunnel # api[B(c)].tunnel
      <4>1. work[c].pc \in {"record", "ready"} /\ api'[B(c)].tunnel = work[c].tunnel
        BY <1>1, <3>3, StepLink
      <4>2. Guarded(B(c)) /\ Owns(B(c), work[c].tunnel) /\ work[c].tunnel \in Tunnels
        BY <1>1, <4>1
        DEF RecordsInv, LifecycleInv, BehindInv, PassBehind, Held, Making, Holding
      <4>3. PICK t \in Tunnels : t = work[c].tunnel
        BY <4>2
      <4>4. Recorded' = [Recorded EXCEPT ![b] = t]
        BY <1>2, <4>1, <4>3, ObjectRereadings
      <4>5. Life!Record(b, t)
        BY <2>1, <3>1, <4>2, <4>3, <4>4, Links
      <4>6. QED
        BY <4>5, AbstractSteps
    <3>4. QED
      BY <3>2, <3>3
  <2>3. CASE Guards(c)
    <3>1. /\ api[B(c)].phase = "live" /\ api'[B(c)].phase = api[B(c)].phase
          /\ api'[B(c)].finalizer = TRUE /\ api'[B(c)].policy = api[B(c)].policy
          /\ api'[B(c)].tunnel = api[B(c)].tunnel
      BY <1>1, <2>3, WritersKnow DEF Guards, TypeOK, Object
    <3>2. /\ Finalizers' = [Finalizers EXCEPT ![b] = TRUE]
          /\ UNCHANGED Phases /\ UNCHANGED Decisions /\ UNCHANGED Recorded
      BY <1>2, <3>1, ObjectRereadings
    <3>3. Life!Guard(b)
      BY <2>1, <3>1, <3>2, GuardsIt
    <3>4. QED
      BY <3>3, AbstractSteps
  <2>4. CASE Frees(c)
    <3>1. /\ api[B(c)].phase = "deleting" /\ api'[B(c)].phase = "gone"
          /\ api'[B(c)].finalizer = FALSE /\ api'[B(c)].policy = api[B(c)].policy
          /\ api'[B(c)].tunnel = api[B(c)].tunnel
      BY <1>1, <2>4, WritersKnow DEF Frees, TypeOK, Object
    <3>2. api[B(c)].policy = "Delete" /\ api[B(c)].tunnel # NoTunnel =>
            api[B(c)].tunnel \in Tunnels /\ ~Live(api[B(c)].tunnel)
      BY <1>1, <1>3, <2>4 DEF Frees, RecordsInv, Released
    <3>3. /\ Phases' = [Phases EXCEPT ![b] = "gone"]
          /\ Finalizers' = [Finalizers EXCEPT ![b] = FALSE]
          /\ UNCHANGED Decisions /\ UNCHANGED Recorded
      BY <1>2, <3>1, ObjectRereadings
    <3>4. Life!Finish(b)
      BY <2>1, <3>1, <3>2, <3>3, Finishes
    <3>5. QED
      BY <3>4, AbstractSteps
  <2>5. QED
    BY <1>1, <2>2, <2>3, <2>4
<1>5. CASE api' = api
  <2>1. SameObjects
    BY <1>5, Rereadings
  <2>2. CASE UNCHANGED Account
    BY <2>1, <2>2, Stutters
  <2>3. CASE CreateTunnel(c) /\ ~UNCHANGED Account
    <3>1. PICK t \in Unused :
            remote' = [remote EXCEPT ![t] = [state |-> "live", owner |-> B(c), ingress |-> Unset]]
      BY <2>3 DEF CreateTunnel, Account
    <3>2. Guarded(B(c)) /\ TunnelsOf(B(c)) = {}
      BY <1>1, <2>3
      DEF RecordsInv, LifecycleInv, BehindInv, PassBehind, OwnershipInv, LookupHolds, Making,
          CreateTunnel, At
    <3>3. t \in Tunnels /\ remote[t].state = "unused"
      BY <3>1 DEF Unused
    <3>4. /\ \A u \in Tunnels \ {t} : remote'[u] = remote[u]
          /\ remote'[t].state = "live" /\ remote'[t].owner = B(c)
      BY <1>1, <3>1, <3>3 DEF TypeOK
    <3>5. Account' = [Account EXCEPT ![t] = [state |-> "live", owner |-> B(c)]]
      BY <1>1, <3>3, <3>4, Rereadings
    <3>6. Life!Make(B(c), t)
      BY <1>1, <2>1, <3>2, <3>3, <3>5, Makes
    <3>7. QED
      BY <1>1, <3>3, <3>6, AbstractSteps
  <2>4. CASE FinTunnel(c) /\ ~UNCHANGED Account
    <3> DEFINE t == Obj(c).tunnel
    <3>1. /\ remote' = [remote EXCEPT ![t].state = "deleted"]
          /\ Live(t) /\ Obj(c).policy = "Delete" /\ t # NoTunnel /\ At(c, "finTunnel")
      BY <2>4 DEF FinTunnel, Account
    <3>2. t \in Tunnels /\ remote[t].owner = B(c)
      BY <1>1, <1>3, <3>1 DEF RecordsInv, Named, Owns
    <3>3. api[B(c)].tunnel = t
      BY <1>1, <3>1, <3>2 DEF RecordsInv, NeverForgotten, Stays, At
    <3>4. api[B(c)].phase = "deleting"
      <4>1. api[B(c)].phase = "gone" => api[B(c)].policy = "Delete"
        BY <3>1 DEF DecidedInv, Decided, Finishing, At
      <4>2. api[B(c)].phase # "gone"
        BY <1>1, <3>1, <3>3, <4>1 DEF RecordsInv, Settled
      <4>3. QED
        BY <1>1, <3>1, <4>2
        DEF RecordsInv, LifecycleInv, BehindInv, PassBehind, Ending, Finishing, At
    <3>5. /\ \A u \in Tunnels \ {t} : remote'[u] = remote[u]
          /\ remote'[t].state = "deleted" /\ remote'[t].owner = remote[t].owner
      BY <1>1, <3>1, <3>2 DEF TypeOK, Remote
    <3>6. Account' = [Account EXCEPT ![t].state = "deleted"]
      BY <3>2, <3>5, Rereadings
    <3>7. PICK u \in Tunnels : u = t
      BY <3>2
    <3>8. Life!Release(b, u)
      BY <2>1, <3>1, <3>2, <3>3, <3>4, <3>6, <3>7, Releases
    <3>9. QED
      BY <3>8, AbstractSteps
  <2>5. CASE ~CreateTunnel(c) /\ ~FinTunnel(c)
    <3>1. UNCHANGED remote \/ \E t, i : remote' = [remote EXCEPT ![t].ingress = i]
      BY <2>5
      DEF Step, Validate, Report, AddFinalizer, Withdraw, Reject, DpTunnel, DpConfig, DpDns,
          Finalize, FinProvider, FinDeploy, FinSecret, FinDns, FinRemove, Program, GetTunnel,
          Find, FindFails, RecordTunnel, Configure, WriteSecret, WriteDeployment, WriteEndpoint,
          SetReady
    <3>2. \A t \in Tunnels : remote'[t].state = remote[t].state /\ remote'[t].owner = remote[t].owner
      BY SMTT(30), <1>1, <3>1 DEF TypeOK, Remote
    <3>3. QED
      BY <2>2, <3>2, Rereadings
  <2>6. QED
    BY <2>2, <2>3, <2>4, <2>5
<1>6. QED
  BY <1>4, <1>5

\* Users and other controllers.
LEMMA OthersRefines ==
  ASSUME TypeOK, Others
  PROVE  [Life!Next]_(Life!vars)
<1>1. ASSUME NEW b \in Bindings, CreateBinding(b) PROVE Life!Next
  <2>1. PICK p \in Policies, d \in DnsChoices, o \in Origins :
          api' = [api EXCEPT ![b] = [@ EXCEPT !.phase = "live", !.gen = 1,
                    !.policy = p, !.dns = d, !.origin = o]]
    BY <1>1 DEF CreateBinding
  <2>2. /\ \A a \in Bindings \ {b} : api'[a] = api[a]
        /\ api'[b].phase = "live" /\ api'[b].finalizer = api[b].finalizer
        /\ api'[b].policy = p /\ api'[b].tunnel = api[b].tunnel
    BY <2>1 DEF TypeOK, Object
  <2>3. /\ Phases' = [Phases EXCEPT ![b] = "live"] /\ Decisions' = [Decisions EXCEPT ![b] = p]
        /\ UNCHANGED Finalizers /\ UNCHANGED Recorded
    BY <2>2, ObjectRereadings
  <2>4. Phases[b] = "absent" /\ p \in {"Delete", "Retain"} /\ UNCHANGED Account
    BY <1>1, Readings, ChoiceAssumption DEF CreateBinding, Account
  <2>5. Life!Appear(b)
    BY <2>3, <2>4 DEF Life!Appear, Phases, Finalizers, Decisions, Recorded, Account
  <2>6. QED
    BY <2>5, AbstractSteps
<1>2. ASSUME NEW b \in Bindings, EditBinding(b) PROVE Life!Next
  <2>1. PICK p \in Policies, d \in DnsChoices, o \in Origins :
          LET new == [api[b] EXCEPT !.policy = p, !.dns = d, !.origin = o]
          IN  api' = [api EXCEPT ![b] = [new EXCEPT !.gen = @ + 1]]
    BY <1>2 DEF EditBinding
  <2>2. /\ \A a \in Bindings \ {b} : api'[a] = api[a]
        /\ api'[b].phase = api[b].phase /\ api'[b].finalizer = api[b].finalizer
        /\ api'[b].policy = p /\ api'[b].tunnel = api[b].tunnel
    BY <2>1 DEF TypeOK, Object
  <2>3. /\ Decisions' = [Decisions EXCEPT ![b] = p]
        /\ UNCHANGED Phases /\ UNCHANGED Finalizers /\ UNCHANGED Recorded
    BY <2>2, ObjectRereadings
  <2>4. Life!Exists(b) /\ p \in {"Delete", "Retain"} /\ UNCHANGED Account
    BY <1>2, Readings, ChoiceAssumption
    DEF EditBinding, Exists, Life!Exists, Phases, Account
  <2>5. Life!EditPolicy(b)
    BY <2>3, <2>4 DEF Life!EditPolicy, Phases, Finalizers, Decisions, Recorded, Account
  <2>6. QED
    BY <2>5, AbstractSteps
<1>3. ASSUME NEW b \in Bindings, DeleteBinding(b) PROVE Life!Next
  <2>1. /\ \A a \in Bindings \ {b} : api'[a] = api[a]
        /\ api'[b].phase = IF api[b].finalizer THEN "deleting" ELSE "gone"
        /\ api'[b].finalizer = api[b].finalizer
        /\ api'[b].policy = api[b].policy /\ api'[b].tunnel = api[b].tunnel
    BY <1>3 DEF DeleteBinding, TypeOK, Object
  <2>2. /\ Phases' = [Phases EXCEPT ![b] = IF Finalizers[b] THEN "deleting" ELSE "gone"]
        /\ UNCHANGED Finalizers /\ UNCHANGED Decisions /\ UNCHANGED Recorded
    BY <2>1, ObjectRereadings, Readings
  <2>3. Phases[b] = "live" /\ UNCHANGED Account
    BY <1>3, Readings DEF DeleteBinding, Account
  <2>4. Life!Delete(b)
    BY <2>2, <2>3 DEF Life!Delete, Phases, Finalizers, Decisions, Recorded, Account
  <2>5. QED
    BY <2>4, AbstractSteps
<1>4. ASSUME NEW t \in Tunnels, RemoveTunnel(t) PROVE Life!Next
  <2>1. /\ \A u \in Tunnels \ {t} : remote'[u].state = remote[u].state /\ remote'[u].owner = remote[u].owner
        /\ remote'[t].state = "removed" /\ remote'[t].owner = remote[t].owner
    BY <1>4 DEF RemoveTunnel, TypeOK, Remote
  <2>2. Account' = [Account EXCEPT ![t].state = "removed"] /\ SameObjects
    BY <1>4, <2>1, Rereadings DEF RemoveTunnel
  <2>3. Life!Live(t)
    BY <1>4, Readings DEF RemoveTunnel
  <2>4. Life!Lose(t)
    BY <2>2, <2>3 DEF Life!Lose, SameObjects, Phases, Finalizers, Decisions, Recorded, Account
  <2>5. QED
    BY <2>4, SomeAssumption, AbstractSteps
<1>5. CASE \/ \E b \in Bindings : ChangeValid(b) \/ ChangeRoutes(b)
           \/ \E p \in Providers : ChangeProvider(p)
  <2>1. SameObjects /\ UNCHANGED Account
    BY <1>5, Rereadings DEF ChangeValid, ChangeRoutes, ChangeProvider, Account
  <2>2. QED
    BY <2>1, Stutters
<1>6. QED
  BY <1>1, <1>2, <1>3, <1>4, <1>5 DEF Others

\* The caches and the starts and ends of passes.
LEMMA ManagerRefines ==
  ASSUME \/ \E c \in Classes : Crash(c)
         \/ \E c \in Classes, b \in Bindings : Start(c, b) \/ Deliver(c, b)
  PROVE  UNCHANGED Life!vars
<1>1. api' = api /\ remote' = remote
  BY DEF Crash, Start, Deliver
<1>2. SameObjects /\ UNCHANGED Account
  BY <1>1, Rereadings DEF Account
<1>3. QED
  BY <1>2, Stutters

\* The binding controller implements OwnedTunnels: whatever its passes do in
\* between, ensureTunnel makes tunnels for bindings that carry the finalizer
\* and have none, only finalize deletes them, and the finalizer goes when the
\* recorded tunnel is dealt with.
THEOREM Implements == Spec => ImplementsOwnedTunnels
<1>1. DecidedInv /\ [Next]_vars => [Life!Next]_(Life!vars)
  <2>1. SUFFICES ASSUME DecidedInv, [Next]_vars PROVE [Life!Next]_(Life!vars)
    OBVIOUS
  <2>2. TypeOK
    BY <2>1 DEF DecidedInv, RecordsInv, LifecycleInv, BehindInv, OwnershipInv
  <2>3. CASE UNCHANGED vars
    <3>1. api' = api /\ remote' = remote
      BY <2>3 DEF vars
    <3>2. SameObjects /\ UNCHANGED Account
      BY <3>1, Rereadings DEF Account
    <3>3. QED
      BY <3>2, Stutters
  <2>4. QED
    BY <2>1, <2>2, <2>3, StepRefines, OthersRefines, ManagerRefines DEF Next
<1>2. QED
  BY <1>1, InitRefines, DecidedAlways, PTL DEF Spec, ImplementsOwnedTunnels, Life!Spec
=============================================================================
