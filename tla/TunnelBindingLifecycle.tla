----------------------- MODULE TunnelBindingLifecycle -----------------------
(***************************************************************************)
(* The finalizer, for any bindings, classes and bounds: nothing is made    *)
(* for a binding that does not carry it, and a binding that is gone left   *)
(* no connector and no DNS records behind.                                 *)
(*                                                                         *)
(* A pass works on a copy of its binding that may be out of date.  What it *)
(* can rely on is that finalizer and deletion are never taken back while   *)
(* the binding exists, so that a copy with them tells of the present; and  *)
(* that one worker serves a binding, so that nobody makes what finalize    *)
(* has removed.                                                            *)
(***************************************************************************)
EXTENDS TunnelBindingOwnership

-----------------------------------------------------------------------------
(* Where a step may take its pass.                                         *)

Making    == {"getTunnel", "find", "create", "record", "configure", "secret",
              "deploy", "dns", "ready"}
Finishing == {"finProvider", "finDeploy", "finSecret", "finDns", "finTunnel",
              "finRemove"}
Aside     == {"reject", "dpTunnel", "dpConfig", "dpDns", "report"}

\* Only the worker of class c moves, and from where it is to where it may go.
Onward(c) ==
  LET w == work'[c]
  IN  /\ \A d \in Classes \ {c} : work'[d] = work[d]
      /\ \/ w.pc = "idle"
         \/ /\ w.b = B(c)
            /\ \/ w.pc \in Aside
               \/ w.pc = "addFinalizer" /\ At(c, "validate") /\ w.obj = Obj(c)
               \/ /\ w.pc \in Making
                  /\ work[c].pc \in Making \/ (At(c, "validate") /\ Obj(c).finalizer)
               \/ w.pc \in Finishing /\ work[c].pc \in Finishing /\ w.obj = Obj(c)

\* A pass that enters another of its states; the others stay where they are.
LEMMA EnterParts ==
  ASSUME TypeOK, NEW c \in Classes, NEW w, Enter(c, w)
  PROVE  work'[c] = w /\ \A d \in Classes \ {c} : work'[d] = work[d]
BY DEF TypeOK, Enter

\* The pass goes on at step pc with object o in memory and t for its tunnel.
Moves(c, pc, o, t) ==
  /\ \A d \in Classes \ {c} : work'[d] = work[d]
  /\ work'[c].pc = pc /\ work'[c].b = B(c) /\ work'[c].obj = o /\ work'[c].tunnel = t

\* What becomes of the fields of a worker that matter here.
LEMMA EnterMoves ==
  ASSUME TypeOK, NEW c \in Classes, NEW pc, NEW x, NEW y
  PROVE  /\ Enter(c, [work[c] EXCEPT !.pc = pc]) => Moves(c, pc, Obj(c), work[c].tunnel)
         /\ Enter(c, [work[c] EXCEPT !.pc = pc, !.tunnel = x]) => Moves(c, pc, Obj(c), x)
         /\ Enter(c, [work[c] EXCEPT !.pc = pc, !.verdict = x])
              => Moves(c, pc, Obj(c), work[c].tunnel)
         /\ Enter(c, [work[c] EXCEPT !.automated = x, !.pc = pc])
              => Moves(c, pc, Obj(c), work[c].tunnel)
         /\ Enter(c, [work[c] EXCEPT !.pc = pc, !.obj = x]) => Moves(c, pc, x, work[c].tunnel)
         /\ Enter(c, [work[c] EXCEPT !.pc = pc, !.hosts = x, !.origin = y])
              => Moves(c, pc, Obj(c), work[c].tunnel)
<1>1. work[c] \in Worker
  BY DEF TypeOK
<1> DEFINE v1 == [work[c] EXCEPT !.pc = pc]
           v2 == [work[c] EXCEPT !.pc = pc, !.tunnel = x]
           v3 == [work[c] EXCEPT !.pc = pc, !.verdict = x]
           v4 == [work[c] EXCEPT !.automated = x, !.pc = pc]
           v5 == [work[c] EXCEPT !.pc = pc, !.obj = x]
           v6 == [work[c] EXCEPT !.pc = pc, !.hosts = x, !.origin = y]
           Same(v) == v.pc = pc /\ v.b = B(c)
<1>2. /\ Same(v1) /\ v1.obj = Obj(c) /\ v1.tunnel = work[c].tunnel
      /\ Same(v2) /\ v2.obj = Obj(c) /\ v2.tunnel = x
      /\ Same(v3) /\ v3.obj = Obj(c) /\ v3.tunnel = work[c].tunnel
      /\ Same(v4) /\ v4.obj = Obj(c) /\ v4.tunnel = work[c].tunnel
      /\ Same(v5) /\ v5.obj = x /\ v5.tunnel = work[c].tunnel
      /\ Same(v6) /\ v6.obj = Obj(c) /\ v6.tunnel = work[c].tunnel
  BY <1>1 DEF Worker, B, Obj
<1> HIDE DEF v1, v2, v3, v4, v5, v6
<1>3. /\ Enter(c, v1) => Moves(c, pc, Obj(c), work[c].tunnel)
      /\ Enter(c, v2) => Moves(c, pc, Obj(c), x)
      /\ Enter(c, v3) \/ Enter(c, v4) \/ Enter(c, v6) => Moves(c, pc, Obj(c), work[c].tunnel)
      /\ Enter(c, v5) => Moves(c, pc, x, work[c].tunnel)
  BY <1>2, EnterParts DEF Moves
<1>4. QED
  BY <1>3 DEF v1, v2, v3, v4, v5, v6

\* A pass that only moves its program counter, or ends.
LEMMA GotoMoves ==
  ASSUME TypeOK, NEW c \in Classes, NEW pc, Goto(c, pc)
  PROVE  /\ \A d \in Classes \ {c} : work'[d] = work[d]
         /\ work'[c].pc = pc
         /\ pc # "idle" => Moves(c, pc, Obj(c), work[c].tunnel)
<1>1. CASE pc = "idle"
  BY <1>1, EnterParts DEF Goto, Idle
<1>2. CASE pc # "idle"
  <2>1. Enter(c, [work[c] EXCEPT !.pc = pc])
    BY <1>2 DEF Goto
  <2>2. Moves(c, pc, Obj(c), work[c].tunnel)
    BY <2>1, EnterMoves
  <2>3. QED
    BY <2>2 DEF Moves
<1>3. QED
  BY <1>1, <1>2

\* A pass that patches the status has the result in memory if it goes on.
LEMMA PatchMoves ==
  ASSUME TypeOK, NEW c \in Classes, NEW new, NEW r, NEW pc, PatchStatus(c, new, r, pc)
  PROVE  /\ \A d \in Classes \ {c} : work'[d] = work[d]
         /\ work'[c].pc = pc
         /\ pc # "idle" => Moves(c, pc, IF r = "ok" THEN Merged(B(c), Obj(c), new) ELSE new,
                                 work[c].tunnel)
<1>1. CASE pc = "idle"
  BY <1>1, EnterParts DEF PatchStatus, Idle
<1>2. CASE pc # "idle"
  <2> DEFINE o == IF r = "ok" THEN Merged(B(c), Obj(c), new) ELSE new
  <2>1. Enter(c, [work[c] EXCEPT !.pc = pc, !.obj = o])
    BY <1>2 DEF PatchStatus
  <2> HIDE DEF o
  <2>2. Moves(c, pc, o, work[c].tunnel)
    BY <2>1, EnterMoves
  <2>3. QED
    BY <2>2 DEF Moves, o
<1>3. QED
  BY <1>1, <1>2

\* Every step goes where Onward says.
LEMMA StepOnward ==
  ASSUME TypeOK, NEW c \in Classes, Step(c)
  PROVE  Onward(c)
<1>1. \A pc \in Aside \cup {"idle"} : Goto(c, pc) => Onward(c)
  BY GotoMoves DEF Onward, Moves
<1>2. work[c].pc \in Making => \A pc \in Making : Goto(c, pc) => Onward(c)
  BY GotoMoves DEF Onward, Moves, Making
<1>3. work[c].pc \in Finishing => \A pc \in Finishing : Goto(c, pc) => Onward(c)
  BY GotoMoves DEF Onward, Moves, Finishing
<1>4. CASE Validate(c)
  <2>1. PICK f, g, v :
          \/ Goto(c, "report")
          \/ /\ Enter(c, [work[c] EXCEPT !.pc = "getTunnel", !.hosts = f, !.origin = g])
             /\ Obj(c).finalizer
          \/ Enter(c, [work[c] EXCEPT !.pc = "addFinalizer", !.hosts = f, !.origin = g])
          \/ Enter(c, [work[c] EXCEPT !.pc = "reject", !.verdict = v])
    BY <1>4 DEF Validate
  <2>2. At(c, "validate")
    BY <1>4 DEF Validate
  <2>3. CASE Goto(c, "report")
    BY <1>1, <2>3 DEF Aside
  <2>4. CASE ~Goto(c, "report")
    <3>1. \E pc \in {"getTunnel", "addFinalizer", "reject"} :
            /\ Moves(c, pc, Obj(c), work[c].tunnel)
            /\ pc = "getTunnel" => Obj(c).finalizer
      BY <2>1, <2>4, EnterMoves
    <3>2. QED
      BY <2>2, <3>1 DEF Onward, Aside, Making, Moves
  <2>5. QED
    BY <2>3, <2>4
<1>5. CASE Report(c)
  BY <1>5, PatchMoves DEF Report, Onward
<1>6. CASE AddFinalizer(c)
  BY <1>1, <1>6 DEF AddFinalizer, UpdateObject
<1>7. CASE Withdraw(c)
  <2>1. CASE Reject(c)
    <3>1. \A new, r, pc : PatchStatus(c, new, r, pc) /\ pc \in {"idle", "dpTunnel"} => Onward(c)
      BY PatchMoves DEF Onward, Moves, Aside
    <3>2. QED
      BY <2>1, <3>1 DEF Reject
  <2>2. CASE DpTunnel(c) \/ DpConfig(c) \/ DpDns(c)
    <3>1. \E pc \in Aside \cup {"idle"} : Goto(c, pc)
      BY <2>2 DEF DpTunnel, DpConfig, DpDns, GotoIf, Aside
    <3>2. QED
      BY <1>1, <3>1
  <2>3. QED
    BY <1>7, <2>1, <2>2 DEF Withdraw
<1>8. CASE Finalize(c)
  <2>1. work[c].pc \in Finishing
    BY <1>8
    DEF Finalize, FinProvider, FinDeploy, FinSecret, FinDns, FinTunnel, FinRemove, At, Finishing
  <2>2. \E pc \in Finishing \cup {"idle"} : Goto(c, pc)
    BY <1>8
    DEF Finalize, FinProvider, FinDeploy, FinSecret, FinDns, FinTunnel, FinRemove,
        GotoIf, UpdateObject, Finishing
  <2>3. QED
    BY <1>1, <1>3, <2>1, <2>2
<1>9. CASE Program(c)
  <2>1. work[c].pc \in Making
    BY <1>9 DEF Program, GetTunnel, Find, FindFails, CreateTunnel, RecordTunnel, Configure,
                WriteSecret, WriteDeployment, WriteEndpoint, SetReady, At, Making
  <2>2. \A pc : /\ pc \in {"find", "create", "secret", "deploy", "dns", "report"}
                /\ Goto(c, pc)
                => Onward(c)
    BY <1>1, <1>2, <2>1 DEF Aside, Making
  <2>3. \A t, pc : /\ pc \in {"configure", "record"}
                   /\ Enter(c, [work[c] EXCEPT !.pc = pc, !.tunnel = t])
                   => Onward(c)
    BY <2>1, EnterMoves DEF Onward, Making, Moves
  <2>4. CASE RecordTunnel(c) \/ SetReady(c)
    <3>1. \A new, r, pc : PatchStatus(c, new, r, pc) /\ pc \in {"configure", "report", "idle"}
                            => Onward(c)
      BY <2>1, PatchMoves DEF Onward, Moves, Aside, Making
    <3>2. QED
      BY <2>4, <3>1 DEF RecordTunnel, SetReady
  <2>5. CASE WriteEndpoint(c)
    <3>1. \A a, pc : /\ pc \in {"ready", "report"}
                     /\ Enter(c, [work[c] EXCEPT !.automated = a, !.pc = pc])
                     => Onward(c)
      BY <2>1, EnterMoves DEF Onward, Aside, Making, Moves
    <3>2. QED
      BY <2>5, <3>1 DEF WriteEndpoint
  <2>6. CASE GetTunnel(c) \/ Find(c) \/ FindFails(c) \/ CreateTunnel(c)
    <3>1. CASE GetTunnel(c)
      BY <2>2, <2>3, <3>1 DEF GetTunnel, GotoIf
    <3>2. CASE Find(c) \/ FindFails(c)
      BY <2>2, <2>3, <3>2 DEF Find, FindFails
    <3>3. CASE CreateTunnel(c)
      BY <2>2, <2>3, <3>3 DEF CreateTunnel
    <3>4. QED
      BY <2>6, <3>1, <3>2, <3>3
  <2>7. CASE Configure(c) \/ WriteSecret(c) \/ WriteDeployment(c)
    BY <2>2, <2>7 DEF Configure, WriteSecret, WriteDeployment, GotoIf
  <2>8. QED
    BY <1>9, <2>4, <2>5, <2>6, <2>7 DEF Program
<1>10. QED
  BY <1>4, <1>5, <1>6, <1>7, <1>8, <1>9 DEF Step

-----------------------------------------------------------------------------
(* What a step does to the objects in the API server.                      *)

\* Patches of the status touch neither the metadata nor the spec.
SameSpecs ==
  \A b \in Bindings :
    /\ api'[b].phase = api[b].phase /\ api'[b].finalizer = api[b].finalizer
    /\ api'[b].gen = api[b].gen /\ api'[b].policy = api[b].policy

\* The finalizer is added, or removed together with the object; each to the
\* version of the object that the pass has in memory.
Guards(c) ==
  /\ At(c, "addFinalizer") /\ api[B(c)] = Obj(c)
  /\ api' = [api EXCEPT ![B(c)] = [Obj(c) EXCEPT !.finalizer = TRUE]]
Frees(c) ==
  /\ At(c, "finRemove") /\ api[B(c)] = Obj(c)
  /\ api' = [api EXCEPT ![B(c)] = [Obj(c) EXCEPT !.finalizer = FALSE, !.phase = "gone"]]

\* A patch of the status.
LEMMA PatchEffect ==
  ASSUME TypeOK, NEW c \in Classes, NEW new, NEW r, NEW pc, PatchStatus(c, new, r, pc)
  PROVE  /\ SameSpecs /\ \A b \in Bindings \ {B(c)} : api'[b] = api[b]
         /\ r = "failed" => api' = api
         /\ r # "failed" => /\ Exists(B(c))
                            /\ api'[B(c)] = Merged(B(c), Obj(c), new)
                            /\ api'[B(c)].tunnel = Sent(new.tunnel, Obj(c).tunnel, api[B(c)].tunnel)
<1>1. B(c) \in Bindings
  BY DEF TypeOK, B, Worker
<1>2. api[B(c)] \in Object
  BY <1>1 DEF TypeOK
<1> DEFINE m == Merged(B(c), Obj(c), new)
<1>3. /\ m.phase = api[B(c)].phase /\ m.finalizer = api[B(c)].finalizer
      /\ m.gen = api[B(c)].gen /\ m.policy = api[B(c)].policy
      /\ m.tunnel = Sent(new.tunnel, Obj(c).tunnel, api[B(c)].tunnel)
  BY <1>2 DEF Merged, Object
<1>4. api' = IF r # "failed" THEN [api EXCEPT ![B(c)] = m] ELSE api
  BY DEF PatchStatus, Applied
<1>5. r # "failed" => Exists(B(c))
  BY DEF PatchStatus
<1> HIDE DEF m
<1>6. r # "failed" => api'[B(c)] = m
  BY <1>1, <1>4 DEF TypeOK
<1>7. \A b \in Bindings \ {B(c)} : api'[b] = api[b]
  BY <1>1, <1>4 DEF TypeOK
<1>8. SameSpecs
  BY <1>3, <1>4, <1>6, <1>7 DEF SameSpecs
<1>9. QED
  BY <1>3, <1>4, <1>5, <1>6, <1>7, <1>8 DEF m

\* The steps of a pass.
LEMMA StepObjects ==
  ASSUME TypeOK, NEW c \in Classes, Step(c)
  PROVE  /\ UNCHANGED cache /\ ~At(c, "idle")
         /\ SameSpecs \/ Guards(c) \/ Frees(c)
<1>1. api' = api => SameSpecs
  BY DEF SameSpecs
<1>2. CASE AddFinalizer(c)
  BY <1>1, <1>2 DEF AddFinalizer, UpdateObject, Applied, Guards, At
<1>3. CASE FinRemove(c)
  BY <1>1, <1>3 DEF FinRemove, UpdateObject, Applied, Frees, At
<1>4. CASE Report(c) \/ Reject(c) \/ RecordTunnel(c) \/ SetReady(c)
  BY <1>4, PatchEffect DEF Report, Reject, RecordTunnel, SetReady, At
<1>5. CASE Validate(c) \/ DpTunnel(c) \/ DpConfig(c) \/ DpDns(c)
  BY <1>1, <1>5 DEF Validate, DpTunnel, DpConfig, DpDns, At
<1>6. CASE FinProvider(c) \/ FinDeploy(c) \/ FinSecret(c) \/ FinDns(c) \/ FinTunnel(c)
  BY <1>1, <1>6 DEF FinProvider, FinDeploy, FinSecret, FinDns, FinTunnel, At
<1>7. CASE GetTunnel(c) \/ Find(c) \/ FindFails(c) \/ CreateTunnel(c) \/ Configure(c)
  BY <1>1, <1>7 DEF GetTunnel, Find, FindFails, CreateTunnel, Configure, At
<1>8. CASE WriteSecret(c) \/ WriteDeployment(c) \/ WriteEndpoint(c)
  BY <1>1, <1>8 DEF WriteSecret, WriteDeployment, WriteEndpoint, At
<1>9. QED
  BY <1>2, <1>3, <1>4, <1>5, <1>6, <1>7, <1>8 DEF Step, Withdraw, Finalize, Program

\* What users do to an object: it keeps its finalizer and its status, and its
\* policy and generation unless it is created or edited.
LEMMA OthersObjects ==
  ASSUME TypeOK, Others
  PROVE  /\ UNCHANGED <<cache, work, children, faults>>
         /\ \A b \in Bindings :
              /\ api'[b].finalizer = api[b].finalizer /\ api'[b].tunnel = api[b].tunnel
              /\ \/ api'[b] = api[b]
                 \/ api[b].phase = "absent" /\ api'[b].phase = "live" /\ api'[b].gen = 1
                 \/ Exists(b) /\ api'[b].phase = api[b].phase /\ api'[b].gen = api[b].gen + 1
                 \/ /\ api[b].phase = "live" /\ api'[b].gen = api[b].gen
                    /\ api'[b].policy = api[b].policy
                    /\ api'[b].phase = IF api[b].finalizer THEN "deleting" ELSE "gone"
<1>1. UNCHANGED <<cache, work, children, faults>>
  BY DEF Others, CreateBinding, EditBinding, DeleteBinding, ChangeValid, ChangeRoutes,
         ChangeProvider, RemoveTunnel, children
<1>2. CASE api' = api
  BY <1>1, <1>2
<1>3. CASE \E a \in Bindings : CreateBinding(a)
  <2>1. PICK a \in Bindings : CreateBinding(a)
    BY <1>3
  <2>2. PICK p \in Policies, d \in DnsChoices, o \in Origins :
          api' = [api EXCEPT ![a] = [@ EXCEPT !.phase = "live", !.gen = 1,
                    !.policy = p, !.dns = d, !.origin = o]]
    BY <2>1 DEF CreateBinding
  <2> DEFINE n == [api[a] EXCEPT !.phase = "live", !.gen = 1,
                                 !.policy = p, !.dns = d, !.origin = o]
  <2>3. /\ n.finalizer = api[a].finalizer /\ n.tunnel = api[a].tunnel
        /\ n.phase = "live" /\ n.gen = 1
    BY DEF TypeOK, Object
  <2>4. api' = [api EXCEPT ![a] = n]
    BY <2>2
  <2> HIDE DEF n
  <2>5. api'[a] = n /\ \A b \in Bindings \ {a} : api'[b] = api[b]
    BY <2>4 DEF TypeOK
  <2>6. QED
    BY <1>1, <2>1, <2>3, <2>5 DEF CreateBinding
<1>4. CASE \E a \in Bindings : EditBinding(a)
  <2>1. PICK a \in Bindings : EditBinding(a)
    BY <1>4
  <2>2. PICK p \in Policies, d \in DnsChoices, o \in Origins :
          LET new == [api[a] EXCEPT !.policy = p, !.dns = d, !.origin = o]
          IN  new # api[a] /\ api' = [api EXCEPT ![a] = [new EXCEPT !.gen = @ + 1]]
    BY <2>1 DEF EditBinding
  <2> DEFINE n == [[api[a] EXCEPT !.policy = p, !.dns = d, !.origin = o] EXCEPT !.gen = @ + 1]
  <2>3. /\ n.finalizer = api[a].finalizer /\ n.tunnel = api[a].tunnel
        /\ n.phase = api[a].phase /\ n.gen = api[a].gen + 1
    BY DEF TypeOK, Object
  <2>4. api' = [api EXCEPT ![a] = n]
    BY <2>2
  <2> HIDE DEF n
  <2>5. api'[a] = n /\ \A b \in Bindings \ {a} : api'[b] = api[b]
    BY <2>4 DEF TypeOK
  <2>6. QED
    BY <1>1, <2>1, <2>3, <2>5 DEF EditBinding
<1>5. CASE \E a \in Bindings : DeleteBinding(a)
  <2>1. PICK a \in Bindings : DeleteBinding(a)
    BY <1>5
  <2> DEFINE n == [api[a] EXCEPT !.phase = IF api[a].finalizer THEN "deleting" ELSE "gone"]
  <2>2. /\ n.finalizer = api[a].finalizer /\ n.tunnel = api[a].tunnel
        /\ n.phase = (IF api[a].finalizer THEN "deleting" ELSE "gone")
        /\ n.gen = api[a].gen /\ n.policy = api[a].policy
    BY DEF TypeOK, Object
  <2>3. api' = [api EXCEPT ![a] = n]
    BY <2>1 DEF DeleteBinding
  <2> HIDE DEF n
  <2>4. api'[a] = n /\ \A b \in Bindings \ {a} : api'[b] = api[b]
    BY <2>3 DEF TypeOK
  <2>5. QED
    BY <1>1, <2>1, <2>2, <2>4 DEF DeleteBinding
<1>6. QED
  BY <1>2, <1>3, <1>4, <1>5 DEF Others, ChangeValid, ChangeRoutes, ChangeProvider, RemoveTunnel

-----------------------------------------------------------------------------
(* What a copy of a binding tells of the binding.                          *)

Guarded(b) == Exists(b) /\ api[b].finalizer
Ending(o)  == o.phase \in {"deleting", "gone"}

\* A cached binding was created, and its deletion is not taken back.  A cached
\* finalizer is taken back only by finalize, which starts from a cache that
\* shows the deletion.
CacheBehind ==
  \A c \in Classes, b \in Bindings :
    LET o == cache[c][b]
    IN  /\ o.phase = "live" => api[b].phase # "absent"
        /\ o.phase = "deleting" => Ending(api[b])
        /\ o.phase = "live" /\ o.finalizer /\ ClassOf[b] = c => Guarded(b)

\* A pass makes things only for a binding that carries the finalizer, now and
\* not only in its copy, and finalizes only one that is being deleted.
PassBehind ==
  \A c \in Classes :
    LET b == B(c)
        o == Obj(c)
    IN  /\ work[c].pc \in Making => Guarded(b)
        /\ At(c, "validate") => o.phase = "live" /\ (o.finalizer => Guarded(b))
        /\ At(c, "addFinalizer") => o.phase = "live"
        /\ work[c].pc \in Finishing =>
             o.phase = "deleting" /\ Ending(api[b]) /\ Ending(cache[c][b])

BehindInv == OwnershipInv /\ CacheBehind /\ PassBehind

\* The steps of a pass keep this.
LEMMA StepBehind ==
  ASSUME BehindInv, NEW c \in Classes, Step(c)
  PROVE  BehindInv'
<1>1. TypeOK /\ OwnershipInv' /\ TypeOK'
  BY StepKeeps DEF BehindInv, OwnershipInv
<1>2. Onward(c) /\ UNCHANGED cache /\ ~At(c, "idle") /\ (SameSpecs \/ Guards(c) \/ Frees(c))
  BY <1>1, StepOnward, StepObjects
<1>3. B(c) \in Bindings /\ ClassOf[B(c)] = c /\ Obj(c) \in Object
  BY <1>1, <1>2 DEF BehindInv, OwnershipInv, OwnPass, TypeOK, B, Obj, Worker
<1>4. \A d \in Classes : B(d) \in Bindings /\ (At(d, "idle") \/ ClassOf[B(d)] = d)
  BY <1>1 DEF BehindInv, OwnershipInv, OwnPass, TypeOK, B, Worker
<1>5. \A b \in Bindings :
        /\ api[b].phase # "absent" => api'[b].phase # "absent"
        /\ Ending(api[b]) => Ending(api'[b])
        /\ Guarded(b) => Guarded(b)' \/ (Frees(c) /\ b = B(c))
  <2>1. CASE SameSpecs
    BY <2>1 DEF SameSpecs, Ending, Guarded, Exists
  <2>2. CASE Guards(c)
    BY <1>1, <1>3, <2>2 DEF Guards, Ending, Guarded, Exists, TypeOK, Object
  <2>3. CASE Frees(c)
    BY <1>1, <1>3, <2>3 DEF Frees, Ending, Guarded, Exists, TypeOK, Object
  <2>4. QED
    BY <1>2, <2>1, <2>2, <2>3
<1>6. Frees(c) => Ending(cache[c][B(c)]) /\ work'[c].pc \notin Making
  BY <1>2 DEF Frees, BehindInv, PassBehind, At, Finishing, Onward, Making, Aside
<1>7. CacheBehind'
  BY <1>2, <1>3, <1>5, <1>6 DEF BehindInv, CacheBehind, Ending
<1>8. PassBehind'
  <2>1. SUFFICES ASSUME NEW d \in Classes
                 PROVE  LET b == B(d)
                            o == Obj(d)
                        IN  ( /\ work[d].pc \in Making => Guarded(b)
                              /\ At(d, "validate") => o.phase = "live" /\ (o.finalizer => Guarded(b))
                              /\ At(d, "addFinalizer") => o.phase = "live"
                              /\ work[d].pc \in Finishing =>
                                   o.phase = "deleting" /\ Ending(api[b]) /\ Ending(cache[d][b]) )'
    BY DEF PassBehind
  <2>2. CASE d = c
    BY <1>2, <1>3, <1>5, <1>6, <2>2
    DEF BehindInv, PassBehind, Onward, Making, Finishing, Aside, At, B, Obj
  <2>3. CASE d # c
    <3>1. work'[d] = work[d] /\ (Frees(c) /\ B(d) = B(c) => At(d, "idle"))
      BY <1>2, <1>3, <1>4, <2>3 DEF Onward
    <3>2. QED
      BY <1>2, <1>4, <1>5, <3>1 DEF BehindInv, PassBehind, Making, Finishing, At, B, Obj
  <2>4. QED
    BY <2>2, <2>3
<1>9. QED
  BY <1>1, <1>7, <1>8 DEF BehindInv

\* Users and watch events leave the passes alone, and take nothing back.
LEMMA OthersBehind ==
  ASSUME BehindInv, Others
  PROVE  BehindInv'
<1>1. TypeOK /\ OwnershipInv' /\ TypeOK'
  BY OthersKeep DEF BehindInv, OwnershipInv
<1>2. UNCHANGED <<work, cache>>
  BY <1>1, OthersObjects
<1>3. \A b \in Bindings :
        /\ api[b].phase # "absent" => api'[b].phase # "absent"
        /\ Ending(api[b]) => Ending(api'[b])
        /\ Guarded(b) => Guarded(b)'
  BY <1>1, OthersObjects DEF Guarded, Exists, Ending
<1>4. CacheBehind'
  BY <1>2, <1>3 DEF BehindInv, CacheBehind, Ending
<1>5. PassBehind'
  <2>1. \A c \in Classes : B(c) \in Bindings
    BY <1>1 DEF TypeOK, B, Worker
  <2>2. QED
    BY <1>2, <1>3, <2>1 DEF BehindInv, PassBehind, Ending, At, B, Obj
<1>6. QED
  BY <1>1, <1>4, <1>5 DEF BehindInv

\* The manager process starts passes, or ends one by its crash.
LEMMA ManagerMoves ==
  ASSUME TypeOK,
         \/ \E c \in Classes : Crash(c)
         \/ \E c \in Classes, b \in Bindings : Start(c, b) \/ Deliver(c, b)
  PROVE  \A c \in Classes :
           \/ work'[c] = work[c]
           \/ work'[c] = Idle /\ work'[c].pc = "idle"
           \/ \E b \in Bindings :
                /\ ClassOf[b] = c /\ work'[c].b = b /\ work'[c].obj = cache[c][b]
                /\ work'[c].tunnel = NoTunnel
                /\ \/ work'[c].pc = "validate" /\ cache[c][b].phase = "live"
                   \/ work'[c].pc = "finProvider" /\ cache[c][b].phase = "deleting"
<1>1. CASE \E c \in Classes : Crash(c)
  <2>1. Idle.pc = "idle"
    BY DEF Idle
  <2>2. QED
    BY <1>1, <2>1 DEF Crash, Enter, TypeOK
<1>2. CASE \E c \in Classes, b \in Bindings : Deliver(c, b)
  BY <1>2 DEF Deliver
<1>3. CASE \E c \in Classes, b \in Bindings : Start(c, b)
  <2>1. PICK c \in Classes, b \in Bindings : Start(c, b)
    BY <1>3
  <2> DEFINE w == [Idle EXCEPT !.b = b, !.obj = cache[c][b],
                               !.pc = IF cache[c][b].phase = "live" THEN "validate"
                                      ELSE "finProvider"]
  <2>2. /\ w.b = b /\ w.obj = cache[c][b] /\ w.tunnel = NoTunnel
        /\ w.pc = IF cache[c][b].phase = "live" THEN "validate" ELSE "finProvider"
    <3>1. Idle.tunnel = NoTunnel
      BY DEF Idle
    <3>2. QED
      BY <3>1, IdleType DEF Worker
  <2>3. Enter(c, w) /\ ClassOf[b] = c /\ cache[c][b].phase \in {"live", "deleting"}
    BY <2>1 DEF Start
  <2> HIDE DEF w
  <2>4. work'[c] = w /\ \A d \in Classes \ {c} : work'[d] = work[d]
    BY <2>3 DEF Enter, TypeOK
  <2>5. QED
    BY <2>2, <2>3, <2>4
<1>4. QED
  BY <1>1, <1>2, <1>3

\* A cache gets what the API server holds at that moment.
LEMMA ManagerCopies ==
  ASSUME TypeOK,
         \/ \E c \in Classes : Crash(c)
         \/ \E c \in Classes, b \in Bindings : Start(c, b) \/ Deliver(c, b)
  PROVE  \A c \in Classes, b \in Bindings :
           cache'[c][b] = cache[c][b] \/ cache'[c][b] = api[b]
<1>1. CASE \E c \in Classes : Crash(c)
  BY <1>1 DEF Crash, TypeOK
<1>2. CASE \E c \in Classes, b \in Bindings : Start(c, b)
  BY <1>2 DEF Start
<1>3. CASE \E c \in Classes, b \in Bindings : Deliver(c, b)
  BY <1>3 DEF Deliver, TypeOK
<1>4. QED
  BY <1>1, <1>2, <1>3

\* So do the manager process and its cache.
LEMMA ManagerBehind ==
  ASSUME BehindInv,
         \/ \E c \in Classes : Crash(c)
         \/ \E c \in Classes, b \in Bindings : Start(c, b) \/ Deliver(c, b)
  PROVE  BehindInv'
<1>1. TypeOK /\ OwnershipInv' /\ TypeOK'
  BY OthersKeep DEF BehindInv, OwnershipInv
<1>2. api' = api
  BY DEF Crash, Start, Deliver
<1>3. \A c \in Classes, b \in Bindings : cache'[c][b] = cache[c][b] \/ cache'[c][b] = api[b]
  BY <1>1, ManagerCopies
<1>4. CacheBehind'
  BY <1>2, <1>3 DEF BehindInv, CacheBehind, Guarded, Exists, Ending
<1>5. \A c \in Classes :
        \/ work'[c] = work[c]
        \/ work'[c].pc = "idle"
        \/ \E b \in Bindings :
             /\ ClassOf[b] = c /\ work'[c].b = b /\ work'[c].obj = cache[c][b]
             /\ \/ work'[c].pc = "validate" /\ cache[c][b].phase = "live"
                \/ work'[c].pc = "finProvider" /\ cache[c][b].phase = "deleting"
  BY <1>1, ManagerMoves
<1>6. PassBehind'
  <2>1. SUFFICES ASSUME NEW c \in Classes
                 PROVE  LET b == B(c)
                            o == Obj(c)
                        IN  ( /\ work[c].pc \in Making => Guarded(b)
                              /\ At(c, "validate") => o.phase = "live" /\ (o.finalizer => Guarded(b))
                              /\ At(c, "addFinalizer") => o.phase = "live"
                              /\ work[c].pc \in Finishing =>
                                   o.phase = "deleting" /\ Ending(api[b]) /\ Ending(cache[c][b]) )'
    BY DEF PassBehind
  <2>2. B(c) \in Bindings
    BY <1>1 DEF TypeOK, B, Worker
  <2>3. CASE work'[c] = work[c]
    BY <1>2, <1>3, <2>2, <2>3 DEF BehindInv, PassBehind, Guarded, Exists, Ending, At, B, Obj
  <2>4. CASE work'[c].pc = "idle"
    BY <2>4 DEF Making, Finishing, At
  <2>5. CASE work'[c] # work[c] /\ work'[c].pc # "idle"
    <3>1. PICK b \in Bindings :
             /\ ClassOf[b] = c /\ work'[c].b = b /\ work'[c].obj = cache[c][b]
             /\ \/ work'[c].pc = "validate" /\ cache[c][b].phase = "live"
                \/ work'[c].pc = "finProvider" /\ cache[c][b].phase = "deleting"
      BY <1>5, <2>5
    <3>2. QED
      BY <1>2, <1>3, <3>1
      DEF BehindInv, CacheBehind, Guarded, Exists, Ending, At, B, Obj, Making, Finishing
  <2>6. QED
    BY <2>3, <2>4, <2>5
<1>7. QED
  BY <1>1, <1>4, <1>6 DEF BehindInv

\* It holds initially.
LEMMA BehindInit == Init => BehindInv
<1>1. SUFFICES ASSUME Init PROVE BehindInv
  OBVIOUS
<1>2. \A c \in Classes : work[c].pc = "idle"
  BY <1>1 DEF Init, Idle
<1>3. CacheBehind /\ PassBehind
  BY <1>1, <1>2 DEF Init, CacheBehind, PassBehind, NewObject, Making, Finishing, At
<1>4. QED
  BY <1>1, <1>3, InitOwnership DEF BehindInv

\* It holds while nothing happens.
LEMMA BehindStutters ==
  ASSUME BehindInv, UNCHANGED vars
  PROVE  BehindInv'
<1>1. OwnershipInv'
  BY DEF BehindInv, OwnershipInv, TypeOK, OwnPass, LookupHolds, OneTunnelEach, At, B,
         TunnelsOf, Live, vars
<1>2. QED
  BY <1>1 DEF BehindInv, CacheBehind, PassBehind, Guarded, Exists, At, B, Obj, vars

-----------------------------------------------------------------------------
(* What a step does to the tunnels and to the objects made for a binding.  *)

NoChildren(b) == secret[b] = NoTunnel /\ ~deployed[b] /\ endpoint[b] = NoEndpoint

\* No child of binding b appears or changes, at most one is removed.
NoNewChild(b) ==
  /\ secret'[b] \in {secret[b], NoTunnel}
  /\ deployed'[b] => deployed[b]
  /\ endpoint'[b] \in {endpoint[b], NoEndpoint}

\* A pass makes tunnels only while it programs, and only for its own binding.
LEMMA StepTunnels ==
  ASSUME TypeOK, NEW c \in Classes, Step(c),
         NEW b \in Bindings, b # B(c) \/ work[c].pc \notin Making
  PROVE  TunnelsOf(b)' \subseteq TunnelsOf(b)
<1>1. CASE \/ UNCHANGED remote
           \/ \E t, i : remote' = [remote EXCEPT ![t].ingress = i]
           \/ \E t : remote' = [remote EXCEPT ![t].state = "deleted"]
  BY <1>1, RemoteSteps DEF NoNewTunnel
<1>2. CASE CreateTunnel(c)
  <2>1. b # B(c)
    BY <1>2 DEF CreateTunnel, At, Making
  <2>2. PICK t : \/ UNCHANGED remote
                 \/ remote' = [remote EXCEPT ![t] = [state |-> "live", owner |-> B(c),
                                                     ingress |-> Unset]]
    BY <1>2 DEF CreateTunnel
  <2>3. \A u \in Tunnels : remote'[u] = remote[u] \/ remote'[u].owner = B(c)
    BY <2>2 DEF TypeOK
  <2>4. QED
    BY <2>1, <2>3 DEF TunnelsOf, Live
<1>3. CASE Validate(c) \/ Report(c) \/ AddFinalizer(c)
  BY <1>1, <1>3 DEF Validate, Report, AddFinalizer
<1>4. CASE Withdraw(c)
  BY <1>1, <1>4 DEF Withdraw, Reject, DpTunnel, DpConfig, DpDns
<1>5. CASE Finalize(c)
  <2>1. \/ UNCHANGED remote
        \/ remote' = [remote EXCEPT ![Obj(c).tunnel].state = "deleted"]
    BY <1>5
    DEF Finalize, FinProvider, FinDeploy, FinSecret, FinDns, FinTunnel, FinRemove
  <2>2. QED
    BY <1>1, <2>1
<1>6. CASE Program(c) /\ ~CreateTunnel(c)
  BY <1>1, <1>6 DEF Program, GetTunnel, Find, FindFails, RecordTunnel, Configure, WriteSecret,
                    WriteDeployment, WriteEndpoint, SetReady
<1>7. QED
  BY <1>2, <1>3, <1>4, <1>5, <1>6 DEF Step

\* The same of the connector and the DNS records.
LEMMA StepChildren ==
  ASSUME TypeOK, NEW c \in Classes, Step(c),
         NEW b \in Bindings, b # B(c) \/ work[c].pc \notin Making
  PROVE  NoNewChild(b)
<1>1. CASE UNCHANGED children
  BY <1>1 DEF NoNewChild, children
<1>2. CASE DpDns(c)
  BY <1>2 DEF DpDns, DeleteEndpoint, NoNewChild, TypeOK
<1>3. CASE FinDeploy(c)
  BY <1>3 DEF FinDeploy, NoNewChild, TypeOK
<1>4. CASE FinSecret(c)
  BY <1>4 DEF FinSecret, NoNewChild, TypeOK
<1>5. CASE FinDns(c)
  BY <1>5 DEF FinDns, DeleteEndpoint, NoNewChild, TypeOK
<1>6. CASE WriteSecret(c) \/ WriteDeployment(c) \/ WriteEndpoint(c)
  <2>1. b # B(c)
    BY <1>6 DEF WriteSecret, WriteDeployment, WriteEndpoint, At, Making
  <2>2. CASE WriteSecret(c)
    BY <2>1, <2>2 DEF WriteSecret, NoNewChild, TypeOK
  <2>3. CASE WriteDeployment(c)
    BY <2>1, <2>3 DEF WriteDeployment, NoNewChild, TypeOK
  <2>4. CASE WriteEndpoint(c)
    BY <2>1, <2>4 DEF WriteEndpoint, DeleteEndpoint, NoNewChild, TypeOK
  <2>5. QED
    BY <1>6, <2>2, <2>3, <2>4
<1>7. CASE Validate(c) \/ Report(c) \/ AddFinalizer(c)
  BY <1>1, <1>7 DEF Validate, Report, AddFinalizer
<1>8. CASE Reject(c) \/ DpTunnel(c) \/ DpConfig(c)
  BY <1>1, <1>8 DEF Reject, DpTunnel, DpConfig
<1>9. CASE FinProvider(c) \/ FinTunnel(c) \/ FinRemove(c)
  BY <1>1, <1>9 DEF FinProvider, FinTunnel, FinRemove
<1>10. CASE GetTunnel(c) \/ Find(c) \/ FindFails(c) \/ CreateTunnel(c) \/ RecordTunnel(c)
              \/ Configure(c) \/ SetReady(c)
  BY <1>1, <1>10 DEF GetTunnel, Find, FindFails, CreateTunnel, RecordTunnel, Configure, SetReady
<1>11. QED
  BY <1>2, <1>3, <1>4, <1>5, <1>6, <1>7, <1>8, <1>9, <1>10 DEF Step, Withdraw, Finalize, Program

-----------------------------------------------------------------------------
(* Nothing is made without the finalizer, nothing is left when it goes.    *)

\* The name of a binding without a finalizer stands for nothing.
NothingUnguarded ==
  \A b \in Bindings : api[b].phase # "gone" /\ ~api[b].finalizer =>
                        TunnelsOf(b) = {} /\ NoChildren(b)

\* A binding that is gone has no connector and no DNS records.
NothingLeft == \A b \in Bindings : api[b].phase = "gone" => NoChildren(b)

\* What finalize has removed stays removed while it goes on.
Removed ==
  \A c \in Classes :
    LET b == B(c)
    IN  /\ work[c].pc \in {"finSecret", "finDns", "finTunnel", "finRemove"} => ~deployed[b]
        /\ work[c].pc \in {"finDns", "finTunnel", "finRemove"} => secret[b] = NoTunnel
        /\ work[c].pc \in {"finTunnel", "finRemove"} => endpoint[b] = NoEndpoint

\* Without the DNSEndpoint kind there are none, and finalize need not look.
EndpointKind == DnsCRD \/ \A b \in Bindings : endpoint[b] = NoEndpoint

LifecycleInv == BehindInv /\ NothingUnguarded /\ NothingLeft /\ Removed /\ EndpointKind

\* Each removal finalize goes on from has taken place.
LEMMA StepRemoves ==
  ASSUME LifecycleInv, NEW c \in Classes, Step(c)
  PROVE  /\ Removed' /\ EndpointKind'
<1>1. TypeOK /\ B(c) \in Bindings /\ Onward(c) /\ ~At(c, "idle")
  BY StepOnward, StepObjects DEF LifecycleInv, BehindInv, OwnershipInv, TypeOK, B, Worker
<1>2. EndpointKind'
  <2>1. SUFFICES ASSUME ~DnsCRD, NEW b \in Bindings PROVE endpoint'[b] = NoEndpoint
    BY DEF EndpointKind
  <2>2. endpoint[b] = NoEndpoint
    BY <2>1 DEF LifecycleInv, EndpointKind
  <2>3. CASE WriteEndpoint(c)
    BY <2>1, <2>2, <2>3 DEF WriteEndpoint, DeleteEndpoint
  <2>4. CASE ~WriteEndpoint(c)
    <3>1. endpoint' = endpoint \/ NoNewChild(b)
      <4>1. CASE work[c].pc \notin Making
        BY <1>1, <4>1, StepChildren
      <4>2. CASE work[c].pc \in Making
        <5>1. Program(c)
          BY <4>2 DEF Step, Validate, Report, AddFinalizer, Withdraw, Reject, DpTunnel, DpConfig,
                      DpDns, Finalize, FinProvider, FinDeploy, FinSecret, FinDns, FinTunnel,
                      FinRemove, At, Making
        <5>2. QED
          BY <2>4, <5>1 DEF Program, GetTunnel, Find, FindFails, CreateTunnel, RecordTunnel,
                            Configure, WriteSecret, WriteDeployment, SetReady, children
      <4>3. QED
        BY <4>1, <4>2
    <3>2. QED
      BY <2>2, <3>1 DEF NoNewChild
  <2>5. QED
    BY <2>3, <2>4
<1>3. Removed'
  <2>1. SUFFICES ASSUME NEW d \in Classes
                 PROVE  LET b == B(d)
                        IN  ( /\ work[d].pc \in {"finSecret", "finDns", "finTunnel", "finRemove"}
                                   => ~deployed[b]
                              /\ work[d].pc \in {"finDns", "finTunnel", "finRemove"}
                                   => secret[b] = NoTunnel
                              /\ work[d].pc \in {"finTunnel", "finRemove"}
                                   => endpoint[b] = NoEndpoint )'
    BY DEF Removed
  <2>2. CASE d # c
    <3>1. work'[d] = work[d] /\ B(d) \in Bindings /\ (At(d, "idle") \/ B(d) # B(c))
      BY <1>1, <2>2
      DEF Onward, LifecycleInv, BehindInv, OwnershipInv, OwnPass, TypeOK, B, Worker
    <3>2. At(d, "idle") \/ NoNewChild(B(d))
      BY <1>1, <3>1, StepChildren
    <3>3. QED
      BY <3>1, <3>2 DEF LifecycleInv, Removed, NoNewChild, At, B
  <2>3. CASE d = c /\ work'[c].pc \in {"finSecret", "finDns", "finTunnel", "finRemove"}
    <3>1. work[c].pc \in Finishing /\ B(c)' = B(c) /\ NoNewChild(B(c))
      BY <1>1, <2>3, StepChildren DEF Onward, Aside, Making, Finishing, B
    <3>2. Finalize(c)
      BY <3>1 DEF Step, Validate, Report, AddFinalizer, Withdraw, Reject, DpTunnel, DpConfig,
                  DpDns, Program, GetTunnel, Find, FindFails, CreateTunnel, RecordTunnel, Configure,
                  WriteSecret, WriteDeployment, WriteEndpoint, SetReady, At, Finishing
    <3>3. CASE FinProvider(c)
      BY <1>1, <2>3, <3>3, GotoMoves DEF FinProvider
    <3>4. CASE FinDeploy(c)
      <4>1. PICK r \in Results :
              /\ deployed' = IF Applied(r) THEN [deployed EXCEPT ![B(c)] = FALSE] ELSE deployed
              /\ Goto(c, IF r = "ok" THEN "finSecret" ELSE "idle")
        BY <3>4 DEF FinDeploy, GotoIf
      <4>2. r = "ok" /\ work'[c].pc = "finSecret"
        BY <1>1, <2>3, <4>1, GotoMoves
      <4>3. QED
        BY <1>1, <2>3, <3>1, <4>1, <4>2 DEF Applied, TypeOK
    <3>5. CASE FinSecret(c)
      <4>1. PICK r \in Results :
              /\ secret' = IF Applied(r) THEN [secret EXCEPT ![B(c)] = NoTunnel] ELSE secret
              /\ Goto(c, IF r = "ok" THEN "finDns" ELSE "idle")
        BY <3>5 DEF FinSecret, GotoIf
      <4>2. r = "ok" /\ work'[c].pc = "finDns"
        BY <1>1, <2>3, <4>1, GotoMoves
      <4>3. ~deployed[B(c)]
        BY <3>5 DEF LifecycleInv, Removed, FinSecret, At
      <4>4. QED
        BY <1>1, <2>3, <3>1, <4>1, <4>2, <4>3 DEF Applied, NoNewChild, TypeOK
    <3>6. CASE FinDns(c)
      <4>1. PICK r \in Results :
              /\ DeleteEndpoint(B(c), r)
              /\ Goto(c, IF r = "ok" THEN "finTunnel" ELSE "idle")
        BY <3>6 DEF FinDns, GotoIf
      <4>2. r = "ok" /\ work'[c].pc = "finTunnel"
        BY <1>1, <2>3, <4>1, GotoMoves
      <4>3. ~deployed[B(c)] /\ secret[B(c)] = NoTunnel
        BY <3>6 DEF LifecycleInv, Removed, FinDns, At
      <4>4. endpoint'[B(c)] = NoEndpoint
        BY <1>1, <4>1, <4>2 DEF LifecycleInv, EndpointKind, DeleteEndpoint, Applied, TypeOK
      <4>5. QED
        BY <2>3, <3>1, <4>3, <4>4 DEF NoNewChild
    <3>7. CASE FinTunnel(c) \/ FinRemove(c)
      BY <2>3, <3>1, <3>7 DEF LifecycleInv, Removed, FinTunnel, FinRemove, NoNewChild, At
    <3>8. QED
      BY <3>2, <3>3, <3>4, <3>5, <3>6, <3>7 DEF Finalize
  <2>4. QED
    BY <2>2, <2>3
<1>4. QED
  BY <1>2, <1>3

\* A step makes something only under the finalizer, and takes the finalizer
\* away only when everything is removed.
LEMMA StepGuarded ==
  ASSUME LifecycleInv, NEW c \in Classes, Step(c)
  PROVE  NothingUnguarded' /\ NothingLeft'
<1>1. TypeOK /\ B(c) \in Bindings /\ (SameSpecs \/ Guards(c) \/ Frees(c))
  BY StepObjects DEF LifecycleInv, BehindInv, OwnershipInv, TypeOK, B, Worker
<1>2. work[c].pc \in Making => Guarded(B(c)) /\ SameSpecs
  BY <1>1 DEF LifecycleInv, BehindInv, PassBehind, Guards, Frees, At, Making
<1>3. SUFFICES ASSUME NEW b \in Bindings
               PROVE  /\ (api[b].phase # "gone" /\ ~api[b].finalizer =>
                            TunnelsOf(b) = {} /\ NoChildren(b))'
                      /\ (api[b].phase = "gone" => NoChildren(b))'
  BY DEF NothingUnguarded, NothingLeft
<1>4. CASE b = B(c) /\ work[c].pc \in Making
  BY <1>2, <1>4 DEF SameSpecs, Guarded, Exists
<1>5. CASE b # B(c) \/ work[c].pc \notin Making
  <2>1. TunnelsOf(b)' \subseteq TunnelsOf(b) /\ (NoChildren(b) => NoChildren(b)')
    BY <1>1, <1>5, StepTunnels, StepChildren DEF NoNewChild, NoChildren
  <2>2. CASE SameSpecs
    BY <2>1, <2>2 DEF SameSpecs, LifecycleInv, NothingUnguarded, NothingLeft
  <2>3. CASE Guards(c)
    BY <1>1, <2>1, <2>3 DEF Guards, LifecycleInv, NothingUnguarded, NothingLeft, TypeOK, Object
  <2>4. CASE Frees(c)
    <3>1. NoChildren(B(c))
      BY <2>4 DEF Frees, LifecycleInv, Removed, At, NoChildren
    <3>2. QED
      BY <1>1, <2>1, <2>4, <3>1
      DEF Frees, LifecycleInv, NothingUnguarded, NothingLeft, TypeOK, Object
  <2>5. QED
    BY <1>1, <2>2, <2>3, <2>4
<1>6. QED
  BY <1>4, <1>5

\* Nobody else makes a tunnel or a child, and an unguarded binding that is
\* deleted has none.
LEMMA OthersLifecycle ==
  ASSUME LifecycleInv,
         \/ Others
         \/ \E c \in Classes : Crash(c)
         \/ \E c \in Classes, b \in Bindings : Start(c, b) \/ Deliver(c, b)
  PROVE  LifecycleInv'
<1>1. TypeOK /\ BehindInv'
  BY OthersBehind, ManagerBehind DEF LifecycleInv, BehindInv, OwnershipInv
<1>2. \A c \in Classes : B(c) \in Bindings
  BY <1>1 DEF TypeOK, B, Worker
<1>3. UNCHANGED children
  BY <1>1, OthersObjects DEF Crash, Start, Deliver
<1>4. CASE Others
  <2>1. \A b \in Bindings : TunnelsOf(b)' \subseteq TunnelsOf(b)
    <3>1. UNCHANGED remote \/ \E t : remote' = [remote EXCEPT ![t].state = "removed"]
      BY <1>4 DEF Others, CreateBinding, EditBinding, DeleteBinding, ChangeValid, ChangeRoutes,
                  ChangeProvider, RemoveTunnel
    <3>2. QED
      BY <1>1, <3>1, RemoteSteps DEF NoNewTunnel
  <2>2. NothingUnguarded' /\ NothingLeft'
    BY <1>1, <1>3, <1>4, <2>1, OthersObjects
    DEF LifecycleInv, NothingUnguarded, NothingLeft, NoChildren, children, Exists
  <2>3. Removed' /\ EndpointKind'
    BY <1>1, <1>3, <1>4, OthersObjects
    DEF LifecycleInv, Removed, EndpointKind, B, children
  <2>4. QED
    BY <1>1, <2>2, <2>3 DEF LifecycleInv
<1>5. CASE ~Others
  <2>1. UNCHANGED <<api, remote>>
    BY <1>5 DEF Crash, Start, Deliver
  <2>2. NothingUnguarded' /\ NothingLeft' /\ EndpointKind'
    BY <1>3, <2>1 DEF LifecycleInv, NothingUnguarded, NothingLeft, EndpointKind, NoChildren,
                      TunnelsOf, Live, children
  <2>3. \A c \in Classes : work'[c] = work[c] \/ work'[c].pc \in {"idle", "validate", "finProvider"}
    BY <1>1, <1>5, ManagerMoves
  <2>4. Removed'
    BY <1>2, <1>3, <2>3 DEF LifecycleInv, Removed, B, children
  <2>5. QED
    BY <1>1, <2>2, <2>4 DEF LifecycleInv
<1>6. QED
  BY <1>4, <1>5

\* It holds initially.
LEMMA LifecycleInit == Init => LifecycleInv
<1>1. SUFFICES ASSUME Init PROVE LifecycleInv
  OBVIOUS
<1>2. BehindInv
  BY <1>1, BehindInit
<1>3. \A c \in Classes : work[c].pc = "idle"
  BY <1>1 DEF Init, Idle
<1>4. NothingUnguarded /\ NothingLeft /\ Removed /\ EndpointKind
  BY <1>1, <1>3 DEF Init, NothingUnguarded, NothingLeft, Removed, EndpointKind, NoChildren,
                    TunnelsOf, Live, UnusedTunnel, NewObject, NoEndpoint
<1>5. QED
  BY <1>2, <1>4 DEF LifecycleInv

\* It holds while nothing happens.
LEMMA LifecycleStutters ==
  ASSUME LifecycleInv, UNCHANGED vars
  PROVE  LifecycleInv'
BY BehindStutters
DEF LifecycleInv, NothingUnguarded, NothingLeft, Removed, EndpointKind, NoChildren, TunnelsOf,
    Live, B, vars

\* The steps of a pass keep it.
LEMMA StepLifecycle ==
  ASSUME LifecycleInv, NEW c \in Classes, Step(c)
  PROVE  LifecycleInv'
BY StepBehind, StepRemoves, StepGuarded DEF LifecycleInv

\* The invariant is inductive.
LEMMA Lifecycle == Spec => []LifecycleInv
<1>1. LifecycleInv /\ [Next]_vars => LifecycleInv'
  BY LifecycleStutters, StepLifecycle, OthersLifecycle DEF Next
<1>2. QED
  BY <1>1, LifecycleInit, PTL DEF Spec

\* Whatever is made for a binding, remotely or in the cluster, is guarded by
\* its finalizer: ensureFinalizer comes first in every pass, even one that
\* works on an old copy, and finalize removes it last.
THEOREM FinalizerGuards == Spec => []FinalizerFirst
<1>1. LifecycleInv => FinalizerFirst
  BY DEF LifecycleInv, NothingUnguarded, FinalizerFirst, NoChildren, Exists
<1>2. QED
  BY <1>1, Lifecycle, PTL
=============================================================================
