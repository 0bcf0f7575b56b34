------------------------ MODULE TunnelBindingRecords ------------------------
(***************************************************************************)
(* What is recorded of a tunnel, for any bindings, classes and bounds: a   *)
(* tunnel that routes anything is the one in the status of its binding,    *)
(* the controller deletes no tunnel that DNS records point to, and a       *)
(* binding that is gone left nothing that finalization promised to remove. *)
(*                                                                         *)
(* Statuses, old copies of them and the tunnels that passes hold refer to  *)
(* tunnels.  The argument is about these references: each names a tunnel   *)
(* made for that binding, and one that is still live is what the status in *)
(* the API server names, because the status is only ever overwritten with  *)
(* the one live tunnel of the binding.                                     *)
(***************************************************************************)
EXTENDS TunnelBindingLifecycle

-----------------------------------------------------------------------------
(* What a step does to the tunnels.                                        *)

\* A tunnel is made once, for one binding; the controller ends only the one
\* that the object in memory names, and changes rules of that one or of the
\* one the pass holds.
LEMMA StepRemote ==
  ASSUME TypeOK, NEW c \in Classes, Step(c), NEW t \in Tunnels
  PROVE  /\ remote[t].state # "unused" =>
              /\ remote'[t].owner = remote[t].owner
              /\ \/ remote'[t].state = remote[t].state
                 \/ At(c, "finTunnel") /\ t = Obj(c).tunnel /\ remote'[t].state = "deleted"
              /\ \/ remote'[t].ingress = remote[t].ingress
                 \/ At(c, "dpConfig") /\ t = Obj(c).tunnel
                 \/ At(c, "configure") /\ t = work[c].tunnel
         /\ remote[t].state = "unused" =>
              \/ remote'[t].state = "unused"
              \/ /\ At(c, "create") /\ remote'[t].state = "live"
                 /\ remote'[t].owner = B(c) /\ remote'[t].ingress = Unset
<1>1. remote[t] \in Remote
  BY DEF TypeOK
<1>2. CASE UNCHANGED remote
  BY <1>2
<1>3. \A i, u : remote' = [remote EXCEPT ![u].ingress = i] =>
        /\ remote'[t].owner = remote[t].owner /\ remote'[t].state = remote[t].state
        /\ t # u => remote'[t].ingress = remote[t].ingress
  BY <1>1 DEF TypeOK, Remote
<1>4. CASE DpConfig(c)
  <2>1. At(c, "dpConfig")
    BY <1>4 DEF DpConfig
  <2>2. UNCHANGED remote \/ \E i : remote' = [remote EXCEPT ![Obj(c).tunnel].ingress = i]
    BY <1>4 DEF DpConfig
  <2>3. QED
    BY <1>2, <1>3, <2>1, <2>2
<1>5. CASE Configure(c)
  <2>1. At(c, "configure")
    BY <1>5 DEF Configure
  <2>2. UNCHANGED remote \/ \E i : remote' = [remote EXCEPT ![work[c].tunnel].ingress = i]
    BY <1>5 DEF Configure
  <2>3. QED
    BY <1>2, <1>3, <2>1, <2>2
<1>6. CASE FinTunnel(c)
  <2>1. \/ UNCHANGED remote
        \/ /\ remote' = [remote EXCEPT ![Obj(c).tunnel].state = "deleted"]
           /\ Live(Obj(c).tunnel)
    BY <1>6 DEF FinTunnel
  <2>2. At(c, "finTunnel")
    BY <1>6 DEF FinTunnel
  <2>3. CASE t = Obj(c).tunnel
    BY <1>1, <2>1, <2>2, <2>3 DEF TypeOK, Remote, Live
  <2>4. CASE t # Obj(c).tunnel
    BY <2>1, <2>4 DEF TypeOK
  <2>5. QED
    BY <2>3, <2>4
<1>7. CASE CreateTunnel(c)
  <2>1. PICK u \in Unused :
          \/ UNCHANGED remote
          \/ remote' = [remote EXCEPT ![u] = [state |-> "live", owner |-> B(c), ingress |-> Unset]]
    BY <1>7 DEF CreateTunnel
  <2>2. At(c, "create") /\ remote[u].state = "unused"
    BY <1>7 DEF CreateTunnel, Unused
  <2>3. QED
    BY <2>1, <2>2 DEF TypeOK
<1>8. CASE Validate(c) \/ Report(c) \/ AddFinalizer(c) \/ Reject(c) \/ DpTunnel(c) \/ DpDns(c)
  BY <1>2, <1>8 DEF Validate, Report, AddFinalizer, Reject, DpTunnel, DpDns
<1>9. CASE FinProvider(c) \/ FinDeploy(c) \/ FinSecret(c) \/ FinDns(c) \/ FinRemove(c)
  BY <1>2, <1>9 DEF FinProvider, FinDeploy, FinSecret, FinDns, FinRemove
<1>10. CASE GetTunnel(c) \/ Find(c) \/ FindFails(c) \/ RecordTunnel(c) \/ WriteSecret(c)
              \/ WriteDeployment(c) \/ WriteEndpoint(c) \/ SetReady(c)
  BY <1>2, <1>10 DEF GetTunnel, Find, FindFails, RecordTunnel, WriteSecret, WriteDeployment,
                     WriteEndpoint, SetReady
<1>11. QED
  BY <1>4, <1>5, <1>6, <1>7, <1>8, <1>9, <1>10 DEF Step, Withdraw, Finalize, Program

\* Users only remove tunnels; the manager process does nothing to them.
LEMMA OthersRemote ==
  ASSUME TypeOK,
         \/ Others
         \/ \E c \in Classes : Crash(c)
         \/ \E c \in Classes, b \in Bindings : Start(c, b) \/ Deliver(c, b),
         NEW t \in Tunnels
  PROVE  /\ remote'[t].owner = remote[t].owner /\ remote'[t].ingress = remote[t].ingress
         /\ \/ remote'[t].state = remote[t].state
            \/ remote[t].state = "live" /\ remote'[t].state = "removed"
<1>1. remote[t] \in Remote
  BY DEF TypeOK
<1>2. CASE UNCHANGED remote
  BY <1>2
<1>3. CASE \E u : Live(u) /\ remote' = [remote EXCEPT ![u].state = "removed"]
  BY <1>1, <1>3 DEF TypeOK, Remote, Live
<1>4. QED
  BY <1>2, <1>3 DEF Others, CreateBinding, EditBinding, DeleteBinding, ChangeValid, ChangeRoutes,
                    ChangeProvider, RemoveTunnel, Crash, Start, Deliver

-----------------------------------------------------------------------------
(* What a step does to the references.                                     *)

\* The steps at which a pass holds a tunnel that ensureTunnel found or made.
Holding == {"record", "configure", "secret", "deploy", "dns", "ready"}

\* The status names another tunnel only when a pass records the one it holds.
LEMMA StepLink ==
  ASSUME TypeOK, NEW c \in Classes, Step(c), NEW b \in Bindings
  PROVE  /\ \/ api'[b].tunnel = api[b].tunnel
            \/ /\ b = B(c) /\ work[c].pc \in {"record", "ready"}
               /\ api'[b].tunnel = work[c].tunnel
         /\ api[b].phase = "gone" => api'[b] = api[b] \/ Guards(c) \/ Frees(c)
<1>1. work[c] \in Worker /\ B(c) \in Bindings /\ Obj(c) \in Object
  BY DEF TypeOK, B, Obj, Worker
<1>2. CASE Guards(c) \/ Frees(c)
  <2>1. \E n : /\ api' = [api EXCEPT ![B(c)] = n]
               /\ n.tunnel = api[B(c)].tunnel
    BY ZenonT(60), <1>1, <1>2 DEF Guards, Frees, Object
  <2>2. api'[b].tunnel = api[b].tunnel
    BY <1>1, <2>1 DEF TypeOK
  <2>3. QED
    BY <1>2, <2>2
<1>3. CASE api' = api
  BY <1>3
<1>4. CASE Report(c)
  <2>1. SetCond(Obj(c), Obj(c).cond.accepted, "Unknown").tunnel = Obj(c).tunnel
    BY <1>1 DEF SetCond, Object
  <2>2. QED
    BY <1>1, <1>4, <2>1, PatchEffect DEF Report, Sent, Exists
<1>5. CASE Reject(c)
  <2> DEFINE new == [SetCond(Obj(c), work[c].verdict, "False") EXCEPT !.published = {}]
  <2>1. new.tunnel = Obj(c).tunnel
    BY <1>1 DEF SetCond, Object
  <2>2. PICK r, pc : PatchStatus(c, new, r, pc)
    BY <1>5 DEF Reject
  <2> HIDE DEF new
  <2>3. QED
    BY <1>1, <2>1, <2>2, PatchEffect DEF Sent, Exists
<1>6. CASE RecordTunnel(c)
  <2> DEFINE new == [Obj(c) EXCEPT !.tunnel = work[c].tunnel]
  <2>1. new.tunnel = work[c].tunnel
    BY <1>1 DEF Object
  <2>2. PICK r, pc : PatchStatus(c, new, r, pc)
    BY <1>6 DEF RecordTunnel
  <2> HIDE DEF new
  <2>3. At(c, "record")
    BY <1>6 DEF RecordTunnel
  <2>4. QED
    BY <1>1, <2>1, <2>2, <2>3, PatchEffect DEF Sent, Exists, At
<1>7. CASE SetReady(c)
  <2>1. \A ready, r :
          LET new == [SetCond(Obj(c), "True", ready) EXCEPT !.tunnel = work[c].tunnel,
                                                            !.published = work[c].hosts]
          IN  PatchStatus(c, new, r, "idle") =>
                /\ api'[b].tunnel = api[b].tunnel \/ (b = B(c) /\ api'[b].tunnel = work[c].tunnel)
                /\ api[b].phase = "gone" => api'[b] = api[b]
    <3> TAKE ready, r
    <3> DEFINE new == [SetCond(Obj(c), "True", ready) EXCEPT !.tunnel = work[c].tunnel,
                                                             !.published = work[c].hosts]
    <3>1. new.tunnel = work[c].tunnel
      BY <1>1 DEF SetCond, Object
    <3> HIDE DEF new
    <3>2. ASSUME PatchStatus(c, new, r, "idle")
          PROVE  /\ api'[b].tunnel = api[b].tunnel \/ (b = B(c) /\ api'[b].tunnel = work[c].tunnel)
                 /\ api[b].phase = "gone" => api'[b] = api[b]
      BY <1>1, <3>1, <3>2, PatchEffect DEF Sent, Exists
    <3>3. QED
      BY <3>2 DEF new
  <2>2. QED
    BY <1>7, <2>1 DEF SetReady, Obj, At
<1>8. CASE AddFinalizer(c) \/ FinRemove(c)
  BY <1>2, <1>3, <1>8 DEF AddFinalizer, FinRemove, UpdateObject, Applied, Guards, Frees
<1>9. CASE Validate(c) \/ DpTunnel(c) \/ DpConfig(c) \/ DpDns(c)
  BY <1>3, <1>9 DEF Validate, DpTunnel, DpConfig, DpDns
<1>10. CASE FinProvider(c) \/ FinDeploy(c) \/ FinSecret(c) \/ FinDns(c) \/ FinTunnel(c)
  BY <1>3, <1>10 DEF FinProvider, FinDeploy, FinSecret, FinDns, FinTunnel
<1>11. CASE GetTunnel(c) \/ Find(c) \/ FindFails(c) \/ CreateTunnel(c) \/ Configure(c)
              \/ WriteSecret(c) \/ WriteDeployment(c) \/ WriteEndpoint(c)
  BY <1>3, <1>11 DEF GetTunnel, Find, FindFails, CreateTunnel, Configure, WriteSecret,
                     WriteDeployment, WriteEndpoint
<1>12. QED
  BY <1>4, <1>5, <1>6, <1>7, <1>8, <1>9, <1>10, <1>11 DEF Step, Withdraw, Finalize, Program

\* What a pass that goes on has in memory: the object it had, or what a patch
\* of the status left there.
LEMMA StepCopies ==
  ASSUME TypeOK, NEW c \in Classes, Step(c), work'[c].pc # "idle"
  PROVE  \/ work'[c].obj = Obj(c)
         \/ /\ work'[c].obj.gen \in {Obj(c).gen, api[B(c)].gen}
            /\ \/ /\ At(c, "reject") /\ work'[c].pc = "dpTunnel"
                  /\ work'[c].obj.tunnel \in {Obj(c).tunnel, api'[B(c)].tunnel}
               \/ /\ At(c, "record") /\ work'[c].pc = "configure"
                  /\ work'[c].obj.tunnel = api'[B(c)].tunnel
               \/ /\ At(c, "record") /\ work'[c].pc = "report"
                  /\ work'[c].obj.tunnel = work[c].tunnel
<1>1. work[c] \in Worker /\ B(c) \in Bindings /\ Obj(c) \in Object /\ api[B(c)] \in Object
  BY DEF TypeOK, B, Obj, Worker
<1>2. \A pc, t : Moves(c, pc, Obj(c), t) => work'[c].obj = Obj(c)
  BY DEF Moves
<1>3. \A pc : Goto(c, pc) => work'[c].obj = Obj(c)
  BY GotoMoves DEF Moves
<1>4. CASE Reject(c)
  <2> DEFINE new == [SetCond(Obj(c), work[c].verdict, "False") EXCEPT !.published = {}]
  <2>1. new.tunnel = Obj(c).tunnel /\ new.gen = Obj(c).gen
    BY <1>1 DEF SetCond, Object
  <2>2. PICK r \in Results : \E pc \in {"idle", "dpTunnel"} : PatchStatus(c, new, r, pc)
    BY <1>4 DEF Reject
  <2> DEFINE m == Merged(B(c), Obj(c), new)
  <2>3. m.gen = api[B(c)].gen
    BY <1>1 DEF Merged, Object
  <2> HIDE DEF new, m
  <2>4. work'[c].pc = "dpTunnel" /\ work'[c].obj = IF r = "ok" THEN m ELSE new
    BY <2>2, PatchMoves DEF Moves, m
  <2>5. r = "ok" => api'[B(c)] = m
    BY <2>2, PatchEffect DEF m
  <2>6. QED
    BY <1>4, <2>1, <2>3, <2>4, <2>5 DEF Reject
<1>5. CASE RecordTunnel(c)
  <2> DEFINE new == [Obj(c) EXCEPT !.tunnel = work[c].tunnel]
  <2>1. new.tunnel = work[c].tunnel /\ new.gen = Obj(c).gen
    BY <1>1 DEF Object
  <2>2. PICK r \in Results :
          PatchStatus(c, new, r, IF r = "ok" THEN "configure" ELSE "report")
    BY <1>5 DEF RecordTunnel
  <2> DEFINE m == Merged(B(c), Obj(c), new)
  <2>3. m.gen = api[B(c)].gen
    BY <1>1 DEF Merged, Object
  <2> HIDE DEF new, m
  <2>4. /\ work'[c].pc = IF r = "ok" THEN "configure" ELSE "report"
        /\ work'[c].obj = IF r = "ok" THEN m ELSE new
    BY <2>2, PatchMoves DEF Moves, m
  <2>5. r = "ok" => api'[B(c)] = m
    BY <2>2, PatchEffect DEF m
  <2>6. At(c, "record")
    BY <1>5 DEF RecordTunnel
  <2>7. QED
    BY <2>1, <2>3, <2>4, <2>5, <2>6
<1>6. CASE Report(c) \/ SetReady(c)
  <2>1. \A new, r : ~PatchStatus(c, new, r, "idle")
    BY PatchMoves
  <2>2. QED
    BY <1>6, <2>1 DEF Report, SetReady
<1>7. CASE Validate(c)
  <2>1. PICK f, g, v :
          \/ Goto(c, "report")
          \/ Enter(c, [work[c] EXCEPT !.pc = "getTunnel", !.hosts = f, !.origin = g])
          \/ Enter(c, [work[c] EXCEPT !.pc = "addFinalizer", !.hosts = f, !.origin = g])
          \/ Enter(c, [work[c] EXCEPT !.pc = "reject", !.verdict = v])
    BY <1>7 DEF Validate
  <2>2. CASE Goto(c, "report")
    BY <1>3, <2>2
  <2>3. CASE ~Goto(c, "report")
    <3>1. \E pc : Moves(c, pc, Obj(c), work[c].tunnel)
      BY <2>1, <2>3, EnterMoves
    <3>2. QED
      BY <1>2, <3>1
  <2>4. QED
    BY <2>2, <2>3
<1>8. CASE GetTunnel(c)
  <2>1. Goto(c, "find") \/ Goto(c, "report")
          \/ Enter(c, [work[c] EXCEPT !.pc = "configure", !.tunnel = Obj(c).tunnel])
    BY <1>8 DEF GetTunnel, GotoIf
  <2>2. QED
    BY <1>2, <1>3, <2>1, EnterMoves
<1>9. CASE Find(c) \/ FindFails(c) \/ CreateTunnel(c)
  <2>1. \/ \E pc : Goto(c, pc)
        \/ \E t : Enter(c, [work[c] EXCEPT !.pc = "record", !.tunnel = t])
    BY <1>9 DEF Find, FindFails, CreateTunnel
  <2>2. QED
    BY <1>2, <1>3, <2>1, EnterMoves
<1>10. CASE WriteEndpoint(c)
  <2>1. \E a, pc : Enter(c, [work[c] EXCEPT !.automated = a, !.pc = pc])
    BY <1>10 DEF WriteEndpoint
  <2>2. QED
    BY <1>2, <2>1, EnterMoves
<1>11. CASE \E pc : Goto(c, pc)
  BY <1>3, <1>11
<1>12. CASE Configure(c) \/ WriteSecret(c) \/ WriteDeployment(c) \/ AddFinalizer(c)
  BY <1>11, <1>12 DEF Configure, WriteSecret, WriteDeployment, AddFinalizer, UpdateObject, GotoIf
<1>13. CASE DpTunnel(c) \/ DpConfig(c) \/ DpDns(c)
  BY <1>11, <1>13 DEF DpTunnel, DpConfig, DpDns, GotoIf
<1>14. CASE Finalize(c)
  BY <1>11, <1>14
  DEF Finalize, FinProvider, FinDeploy, FinSecret, FinDns, FinTunnel, FinRemove, UpdateObject, GotoIf
<1>15. QED
  BY <1>4, <1>5, <1>6, <1>7, <1>8, <1>9, <1>10, <1>12, <1>13, <1>14
  DEF Step, Withdraw, Program

\* Which tunnel a pass holds: the recorded one, one it found or made, or the
\* one it held already.
LEMMA StepHolds ==
  ASSUME TypeOK, NEW c \in Classes, Step(c), work'[c].pc \in Holding
  PROVE  \/ /\ At(c, "getTunnel") /\ work'[c].pc = "configure"
            /\ work'[c].tunnel = Obj(c).tunnel
            /\ Obj(c).tunnel # NoTunnel /\ Live(Obj(c).tunnel) /\ UNCHANGED remote
         \/ /\ work[c].pc \in {"find", "create"} /\ work'[c].pc = "record"
            /\ work'[c].tunnel \in TunnelsOf(B(c))'
         \/ /\ work[c].pc \in Holding /\ work'[c].pc # "record"
            /\ work'[c].tunnel = work[c].tunnel
            /\ At(c, "record") => work[c].tunnel \in {Obj(c).tunnel, api'[B(c)].tunnel}
<1>1. work[c] \in Worker /\ B(c) \in Bindings
  BY DEF TypeOK, B, Worker
<1>2. \A pc : Goto(c, pc) /\ pc # "record" =>
        /\ work'[c].pc = pc /\ work'[c].tunnel = work[c].tunnel
  BY GotoMoves DEF Moves, Holding
<1>3. \A pc \in Steps \ Holding : ~Goto(c, pc)
  BY GotoMoves
<1>4. \A new, r, pc : PatchStatus(c, new, r, pc) =>
        work'[c].pc = pc /\ work'[c].tunnel = work[c].tunnel
  BY PatchMoves DEF Moves, Holding
<1>5. CASE Validate(c)
  <2>1. PICK f, g, v :
          \/ Goto(c, "report")
          \/ Enter(c, [work[c] EXCEPT !.pc = "getTunnel", !.hosts = f, !.origin = g])
          \/ Enter(c, [work[c] EXCEPT !.pc = "addFinalizer", !.hosts = f, !.origin = g])
          \/ Enter(c, [work[c] EXCEPT !.pc = "reject", !.verdict = v])
    BY <1>5 DEF Validate
  <2>2. ~Goto(c, "report")
    BY <1>3 DEF Steps, Holding
  <2>3. \E pc \in {"getTunnel", "addFinalizer", "reject"} : Moves(c, pc, Obj(c), work[c].tunnel)
    BY <2>1, <2>2, EnterMoves
  <2>4. QED
    BY <2>3 DEF Moves, Holding
<1>6. CASE Report(c) \/ Reject(c) \/ SetReady(c)
  <2>1. \A new, r : ~PatchStatus(c, new, r, "idle") /\ ~PatchStatus(c, new, r, "dpTunnel")
    BY <1>4 DEF Holding
  <2>2. QED
    BY <1>6, <2>1 DEF Report, Reject, SetReady
<1>7. CASE RecordTunnel(c)
  <2> DEFINE new == [Obj(c) EXCEPT !.tunnel = work[c].tunnel]
  <2>1. PICK r \in Results :
          PatchStatus(c, new, r, IF r = "ok" THEN "configure" ELSE "report")
    BY <1>7 DEF RecordTunnel
  <2>2. r = "ok" /\ work'[c].pc = "configure" /\ work'[c].tunnel = work[c].tunnel
    BY <1>4, <2>1 DEF Holding
  <2>3. new.tunnel = work[c].tunnel
    BY DEF TypeOK, Obj, Worker, Object
  <2> HIDE DEF new
  <2>4. api'[B(c)].tunnel = Sent(work[c].tunnel, Obj(c).tunnel, api[B(c)].tunnel)
    BY <2>1, <2>2, <2>3, PatchEffect
  <2>5. QED
    BY <1>7, <2>2, <2>4 DEF RecordTunnel, Sent, Holding, At
<1>8. CASE AddFinalizer(c) \/ DpTunnel(c) \/ DpConfig(c) \/ DpDns(c)
  BY <1>3, <1>8 DEF AddFinalizer, UpdateObject, DpTunnel, DpConfig, DpDns, GotoIf, Steps, Holding
<1>9. CASE Finalize(c)
  <2>1. \E pc \in Steps \ Holding : Goto(c, pc)
    BY <1>9
    DEF Finalize, FinProvider, FinDeploy, FinSecret, FinDns, FinTunnel, FinRemove,
        UpdateObject, GotoIf, Steps, Holding
  <2>2. QED
    BY <1>3, <2>1
<1>10. CASE GetTunnel(c)
  <2>1. ~Goto(c, "find") /\ ~Goto(c, "report")
    BY <1>3 DEF Steps, Holding
  <2>2. /\ Enter(c, [work[c] EXCEPT !.pc = "configure", !.tunnel = Obj(c).tunnel])
        /\ Obj(c).tunnel # NoTunnel /\ Live(Obj(c).tunnel) /\ UNCHANGED remote
        /\ At(c, "getTunnel")
    BY <1>10, <2>1 DEF GetTunnel, GotoIf
  <2>3. Moves(c, "configure", Obj(c), Obj(c).tunnel)
    BY <2>2, EnterMoves
  <2>4. QED
    BY <2>2, <2>3 DEF Moves
<1>11. CASE Find(c)
  <2>1. PICK t \in TunnelsOf(B(c)) :
          Enter(c, [work[c] EXCEPT !.pc = "record", !.tunnel = t])
    BY <1>3, <1>11 DEF Find, Steps, Holding
  <2>2. Moves(c, "record", Obj(c), t)
    BY <2>1, EnterMoves
  <2>3. work'[c].pc = "record" /\ work'[c].tunnel = t /\ B(c)' = B(c) /\ UNCHANGED remote
    BY <1>11, <2>2 DEF Moves, B, Find
  <2>4. QED
    BY <1>11, <2>3 DEF Find, TunnelsOf, Live, At
<1>12. CASE FindFails(c)
  BY <1>3, <1>12 DEF FindFails, Steps, Holding
<1>13. CASE CreateTunnel(c)
  <2>1. PICK t \in Unused :
          /\ remote' = [remote EXCEPT ![t] = [state |-> "live", owner |-> B(c), ingress |-> Unset]]
          /\ Enter(c, [work[c] EXCEPT !.pc = "record", !.tunnel = t])
    BY <1>3, <1>13 DEF CreateTunnel, Applied, Steps, Holding
  <2>2. Moves(c, "record", Obj(c), t)
    BY <2>1, EnterMoves
  <2>3. work'[c].pc = "record" /\ work'[c].tunnel = t /\ B(c)' = B(c)
    BY <2>2 DEF Moves, B
  <2>4. t \in Tunnels /\ remote'[t].state = "live" /\ remote'[t].owner = B(c)
    BY <2>1 DEF Unused, TypeOK
  <2>5. QED
    BY <1>13, <2>3, <2>4 DEF CreateTunnel, TunnelsOf, Live, At
<1>14. CASE Configure(c) \/ WriteSecret(c) \/ WriteDeployment(c)
  BY <1>2, <1>14 DEF Configure, WriteSecret, WriteDeployment, GotoIf, Holding, At
<1>15. CASE WriteEndpoint(c)
  <2>1. At(c, "dns")
    BY <1>15 DEF WriteEndpoint
  <2>2. \A a, pc : Enter(c, [work[c] EXCEPT !.automated = a, !.pc = pc]) =>
          work'[c].pc = pc /\ work'[c].tunnel = work[c].tunnel
    BY EnterMoves DEF Moves
  <2>3. work'[c].pc \in {"ready", "report"} /\ work'[c].tunnel = work[c].tunnel
    BY <1>15, <2>2 DEF WriteEndpoint
  <2>4. QED
    BY <2>1, <2>3 DEF Holding, At
<1>16. QED
  BY <1>5, <1>6, <1>7, <1>8, <1>9, <1>10, <1>11, <1>12, <1>13, <1>14, <1>15
  DEF Step, Withdraw, Program

\* DNS records are pointed only at the tunnel a pass holds.
LEMMA StepEndpoint ==
  ASSUME TypeOK, NEW c \in Classes, Step(c), NEW b \in Bindings
  PROVE  \/ endpoint'[b] \in {endpoint[b], NoEndpoint}
         \/ b = B(c) /\ At(c, "dns") /\ endpoint'[b].target = work[c].tunnel
<1>1. CASE UNCHANGED endpoint
  BY <1>1
<1>2. CASE WriteEndpoint(c)
  BY <1>2 DEF WriteEndpoint, DeleteEndpoint, TypeOK
<1>3. CASE DpDns(c) \/ FinDns(c)
  BY <1>3 DEF DpDns, FinDns, DeleteEndpoint, TypeOK
<1>4. QED
  BY <1>1, <1>2, <1>3
  DEF Step, Validate, Report, AddFinalizer, Withdraw, Reject, DpTunnel, DpConfig, Finalize,
      FinProvider, FinDeploy, FinSecret, FinTunnel, FinRemove, Program, GetTunnel, Find,
      FindFails, CreateTunnel, RecordTunnel, Configure, WriteSecret, WriteDeployment, SetReady,
      children

\* A pass that reports a failure ends with it.
LEMMA ReportEnds ==
  ASSUME TypeOK, NEW c \in Classes, Step(c), At(c, "report")
  PROVE  work'[c].pc = "idle"
<1>1. Report(c)
  BY DEF Step, Validate, AddFinalizer, Withdraw, Reject, DpTunnel, DpConfig, DpDns, Finalize,
         FinProvider, FinDeploy, FinSecret, FinDns, FinTunnel, FinRemove, Program, GetTunnel,
         Find, FindFails, CreateTunnel, RecordTunnel, Configure, WriteSecret, WriteDeployment,
         WriteEndpoint, SetReady, At
<1>2. QED
  BY <1>1, PatchMoves DEF Report

\* Under policy Delete finalize goes on to remove the finalizer only when the
\* tunnel of the object it has in memory is gone.
LEMMA FinTunnelReleases ==
  ASSUME TypeOK, NEW c \in Classes, Step(c), work'[c].pc = "finRemove",
         Obj(c).policy = "Delete", Obj(c).tunnel # NoTunnel
  PROVE  ~Live(Obj(c).tunnel)'
<1>1. work[c].pc \in Finishing /\ Obj(c)' = Obj(c) /\ Obj(c).tunnel \in Tunnels
  BY StepOnward DEF Onward, Aside, Making, TypeOK, Worker, Object, Obj
<1>2. FinTunnel(c)
  <2>1. \A pc : Goto(c, pc) => pc = "finRemove"
    BY GotoMoves
  <2>2. QED
    BY <1>1, <2>1
    DEF Step, Validate, Report, AddFinalizer, Withdraw, Reject, DpTunnel, DpConfig, DpDns,
        Program, GetTunnel, Find, FindFails, CreateTunnel, RecordTunnel, Configure, WriteSecret,
        WriteDeployment, WriteEndpoint, SetReady, Finalize, FinProvider, FinDeploy, FinSecret,
        FinDns, FinRemove, UpdateObject, GotoIf, At, Finishing
<1>3. PICK r \in Results :
        /\ remote' = IF Applied(r) /\ Live(Obj(c).tunnel)
                     THEN [remote EXCEPT ![Obj(c).tunnel].state = "deleted"] ELSE remote
        /\ Goto(c, IF r = "ok" THEN "finRemove" ELSE "idle")
  BY <1>2 DEF FinTunnel, GotoIf
<1>4. r = "ok"
  BY <1>3, GotoMoves
<1>5. QED
  BY <1>1, <1>3, <1>4 DEF Applied, Live, TypeOK, Remote

-----------------------------------------------------------------------------
(* The references, and what they say of the tunnels.                       *)

\* Tunnel t, if it is one, was made for binding b.
Owns(b, t) == t # NoTunnel => remote[t].state # "unused" /\ remote[t].owner = b

\* Every copy of a binding, and its DNS records, name a tunnel made for it.
Named ==
  /\ \A b \in Bindings : Owns(b, api[b].tunnel) /\ Owns(b, endpoint[b].target)
  /\ \A c \in Classes, b \in Bindings : Owns(b, cache[c][b].tunnel)
  /\ \A c \in Classes : ~At(c, "idle") => Owns(B(c), Obj(c).tunnel)

\* While a pass holds a tunnel the controller does not delete it, and there is
\* no other tunnel of the binding.
Held ==
  \A c \in Classes :
    LET t == work[c].tunnel
    IN  work[c].pc \in Holding =>
          /\ t \in Tunnels /\ Owns(B(c), t)
          /\ remote[t].state # "deleted" /\ TunnelsOf(B(c)) \subseteq {t}

\* A live tunnel that some copy names is the one the status names: no tunnel
\* is forgotten, however old the copy.  Only the copy of a pass that failed to
\* record a tunnel names one that the status does not, and that pass ends.
Stays(b, t) == t \in Tunnels /\ Live(t) => api[b].tunnel = t
NeverForgotten ==
  /\ \A c \in Classes, b \in Bindings : Stays(b, cache[c][b].tunnel)
  /\ \A c \in Classes : ~At(c, "idle") /\ ~At(c, "report") => Stays(B(c), Obj(c).tunnel)
  /\ \A c \in Classes : work[c].pc \in Holding \ {"record"} => Stays(B(c), work[c].tunnel)

\* Under policy Delete the tunnel goes before the finalizer, and stays away.
Released ==
  \A c \in Classes :
    At(c, "finRemove") /\ Obj(c).policy = "Delete" /\ Obj(c).tunnel # NoTunnel =>
      ~Live(Obj(c).tunnel)
Settled ==
  \A b \in Bindings :
    api[b].phase = "gone" /\ api[b].policy = "Delete" /\ api[b].tunnel # NoTunnel =>
      ~Live(api[b].tunnel)

RecordsInv == /\ LifecycleInv /\ Named /\ Held /\ NeverForgotten /\ Released /\ Settled
              /\ ConfiguredIsRecorded /\ NoDanglingDNS

\* The types of the references.
LEMMA ReferenceTypes ==
  ASSUME TypeOK
  PROVE  /\ \A b \in Bindings : /\ api[b].tunnel \in Tunnels \cup {NoTunnel}
                                /\ endpoint[b].target \in Tunnels \cup {NoTunnel}
         /\ \A c \in Classes, b \in Bindings : cache[c][b].tunnel \in Tunnels \cup {NoTunnel}
         /\ \A c \in Classes : /\ Obj(c).tunnel \in Tunnels \cup {NoTunnel}
                               /\ work[c].tunnel \in Tunnels \cup {NoTunnel}
                               /\ B(c) \in Bindings
BY DEF TypeOK, Object, Endpoint, Worker, Obj, B

\* What is made for a binding stays made for it, and does not come back to
\* life: identifiers are not used again.
LEMMA OwnsStays ==
  ASSUME TypeOK, Next,
         NEW b \in Bindings, NEW t \in Tunnels \cup {NoTunnel}, Owns(b, t)
  PROVE  Owns(b, t)' /\ (t \in Tunnels /\ Live(t)' => Live(t))
<1>1. CASE t = NoTunnel
  BY <1>1, TunnelAssumption DEF Owns
<1>2. CASE t \in Tunnels
  <2>1. t # NoTunnel /\ remote[t].state # "unused" /\ remote[t].owner = b
    BY <1>2, TunnelAssumption DEF Owns
  <2>2. /\ remote'[t].owner = b /\ remote'[t].state # "unused"
        /\ remote'[t].state = "live" => remote[t].state = "live"
    <3>1. CASE \E c \in Classes : Step(c)
      BY <1>2, <2>1, <3>1, StepRemote
    <3>2. CASE ~\E c \in Classes : Step(c)
      BY <1>2, <2>1, <3>2, OthersRemote DEF Next
    <3>3. QED
      BY <3>1, <3>2
  <2>3. QED
    BY <2>2 DEF Owns, Live
<1>3. QED
  BY <1>1, <1>2

\* A live tunnel that the status names is not replaced there.
LEMMA LinkKept ==
  ASSUME RecordsInv, NEW c \in Classes, Step(c),
         NEW b \in Bindings, NEW t \in Tunnels, api[b].tunnel = t, Live(t)
  PROVE  api'[b].tunnel = t
<1>1. TypeOK
  BY DEF RecordsInv, LifecycleInv, BehindInv, OwnershipInv
<1>2. t # NoTunnel /\ remote[t].owner = b
  BY TunnelAssumption DEF RecordsInv, Named, Owns
<1>3. CASE b = B(c) /\ work[c].pc \in {"record", "ready"}
  <2>1. t \in TunnelsOf(B(c))
    BY <1>2, <1>3 DEF TunnelsOf
  <2>2. work[c].tunnel = t
    BY <1>3, <2>1 DEF RecordsInv, Held, Holding
  <2>3. QED
    BY <1>1, <2>2, StepLink
<1>4. CASE ~(b = B(c) /\ work[c].pc \in {"record", "ready"})
  BY <1>1, <1>4, StepLink
<1>5. QED
  BY <1>3, <1>4

\* So a reference to it stays what the status names.
LEMMA StaysKept ==
  ASSUME RecordsInv, NEW c \in Classes, Step(c),
         NEW b \in Bindings, NEW t \in Tunnels \cup {NoTunnel}, Owns(b, t), Stays(b, t)
  PROVE  Stays(b, t)'
<1>1. TypeOK
  BY DEF RecordsInv, LifecycleInv, BehindInv, OwnershipInv
<1>2. SUFFICES ASSUME t \in Tunnels, Live(t)' PROVE api'[b].tunnel = t
  BY DEF Stays
<1>3. Live(t)
  BY <1>1, <1>2, OwnsStays DEF Next
<1>4. QED
  BY <1>2, <1>3, LinkKept DEF Stays

\* A step keeps the names right.
LEMMA StepNamed ==
  ASSUME RecordsInv, NEW c \in Classes, Step(c)
  PROVE  Named'
<1>1. TypeOK /\ TypeOK' /\ B(c) \in Bindings /\ Onward(c) /\ UNCHANGED cache /\ ~At(c, "idle")
  BY StepType, StepOnward, StepObjects, ReferenceTypes
  DEF RecordsInv, LifecycleInv, BehindInv, OwnershipInv
<1>2. \A b \in Bindings, t \in Tunnels \cup {NoTunnel} : Owns(b, t) => Owns(b, t)'
  BY <1>1, OwnsStays DEF Next
<1>3. work[c].pc \in Holding => Owns(B(c), work[c].tunnel)
  BY DEF RecordsInv, Held
<1>4. \A b \in Bindings : Owns(b, api[b].tunnel)'
  <2>1. TAKE b \in Bindings
  <2>2. api'[b].tunnel = api[b].tunnel
          \/ (b = B(c) /\ work[c].pc \in Holding /\ api'[b].tunnel = work[c].tunnel)
    BY <1>1, StepLink DEF Holding
  <2>3. QED
    BY <1>1, <1>2, <1>3, <2>2, ReferenceTypes DEF RecordsInv, Named, Owns
<1>5. \A b \in Bindings : Owns(b, endpoint[b].target)'
  <2>1. TAKE b \in Bindings
  <2>2. \/ endpoint'[b].target \in {endpoint[b].target, NoTunnel}
        \/ b = B(c) /\ work[c].pc \in Holding /\ endpoint'[b].target = work[c].tunnel
    BY <1>1, StepEndpoint DEF Holding, NoEndpoint, At
  <2>3. QED
    BY <1>1, <1>2, <1>3, <2>2, ReferenceTypes DEF RecordsInv, Named, Owns
<1>6. \A d \in Classes, b \in Bindings : Owns(b, cache[d][b].tunnel)'
  BY <1>1, <1>2, ReferenceTypes DEF RecordsInv, Named, Owns
<1>7. \A d \in Classes : (~At(d, "idle") => Owns(B(d), Obj(d).tunnel))'
  <2>1. TAKE d \in Classes
  <2>2. CASE d # c
    <3>1. work'[d] = work[d] /\ B(d) \in Bindings
      BY <1>1, <2>2, ReferenceTypes DEF Onward
    <3>2. QED
      BY <1>1, <1>2, <3>1, ReferenceTypes DEF RecordsInv, Named, Owns, At, B, Obj
  <2>3. CASE d = c /\ work'[c].pc # "idle"
    <3>1. Obj(c)'.tunnel \in {Obj(c).tunnel, api'[B(c)].tunnel}
            \/ (work[c].pc \in Holding /\ Obj(c)'.tunnel = work[c].tunnel)
      BY <1>1, <2>3, StepCopies DEF Obj, At, Holding
    <3>2. B(c)' = B(c)
      BY <1>1, <2>3 DEF Onward, B
    <3>3. /\ Owns(B(c), Obj(c).tunnel) /\ Obj(c).tunnel \in Tunnels \cup {NoTunnel}
          /\ api'[B(c)].tunnel = Obj(c)'.tunnel => Owns(B(c), Obj(c).tunnel)'
      BY <1>1, <1>4, <3>2, ReferenceTypes DEF RecordsInv, Named, Owns
    <3>4. \A t \in Tunnels \cup {NoTunnel} :
            Owns(B(c), t) /\ Obj(c)'.tunnel = t => Owns(B(c), Obj(c).tunnel)'
      BY <1>1, <1>2, <3>2 DEF Owns
    <3>5. work[c].tunnel \in Tunnels \cup {NoTunnel}
      BY <1>1, ReferenceTypes
    <3>6. QED
      BY <1>3, <2>3, <3>1, <3>3, <3>4, <3>5
  <2>4. QED
    BY <2>2, <2>3 DEF At
<1>8. QED
  BY <1>4, <1>5, <1>6, <1>7 DEF Named

\* Only the step that makes a tunnel gives its binding one.
LEMMA TunnelsShrink ==
  ASSUME TypeOK, NEW c \in Classes, Step(c), NEW b \in Bindings, b # B(c) \/ ~At(c, "create")
  PROVE  TunnelsOf(b)' \subseteq TunnelsOf(b)
<1>1. SUFFICES ASSUME NEW t \in Tunnels, remote'[t].state = "live", remote'[t].owner = b
               PROVE  remote[t].state = "live" /\ remote[t].owner = b
  BY DEF TunnelsOf, Live
<1>2. CASE remote[t].state = "unused"
  <2>1. At(c, "create") /\ remote'[t].owner = B(c)
    BY <1>1, <1>2, StepRemote
  <2>2. QED
    BY <1>1, <2>1
<1>3. CASE remote[t].state # "unused"
  BY <1>1, <1>3, StepRemote
<1>4. QED
  BY <1>2, <1>3

\* Finalize ends a tunnel of its own binding only.
LEMMA EndsOwn ==
  ASSUME RecordsInv, NEW c \in Classes, Step(c), NEW t \in Tunnels,
         remote[t].state # "deleted", remote'[t].state = "deleted"
  PROVE  At(c, "finTunnel") /\ t = Obj(c).tunnel /\ remote[t].owner = B(c)
<1>1. TypeOK
  BY DEF RecordsInv, LifecycleInv, BehindInv, OwnershipInv
<1>2. remote[t].state # "unused"
  BY <1>1, StepRemote
<1>3. At(c, "finTunnel") /\ t = Obj(c).tunnel
  BY <1>1, <1>2, StepRemote
<1>4. remote[t].owner = B(c)
  BY <1>3, TunnelAssumption DEF RecordsInv, Named, Owns, At
<1>5. QED
  BY <1>3, <1>4

\* A step keeps what passes hold.
LEMMA StepHeld ==
  ASSUME RecordsInv, NEW c \in Classes, Step(c), OwnershipInv'
  PROVE  Held'
<1>1. TypeOK /\ TypeOK' /\ B(c) \in Bindings /\ Onward(c) /\ ~At(c, "idle") /\ OneTunnelEach'
  BY StepOnward, StepObjects, ReferenceTypes
  DEF RecordsInv, LifecycleInv, BehindInv, OwnershipInv
<1>2. \A t \in Tunnels : remote[t].state # "unused" =>
        remote'[t].state # "unused" /\ remote'[t].owner = remote[t].owner
  BY <1>1, StepRemote
<1>3. SUFFICES ASSUME NEW d \in Classes, work'[d].pc \in Holding, NEW t, t = work'[d].tunnel
               PROVE  /\ t \in Tunnels
                      /\ remote'[t].state \notin {"unused", "deleted"}
                      /\ remote'[t].owner = B(d)' /\ TunnelsOf(B(d))' \subseteq {t}
  <2>1. \A d \in Classes :
          work'[d].pc \in Holding =>
            /\ work'[d].tunnel \in Tunnels
            /\ remote'[work'[d].tunnel].state \notin {"unused", "deleted"}
            /\ remote'[work'[d].tunnel].owner = B(d)'
            /\ TunnelsOf(B(d))' \subseteq {work'[d].tunnel}
    BY <1>3
  <2>2. QED
    BY <2>1 DEF Held, Owns
<1>4. ASSUME B(d)' \in Bindings, t \in TunnelsOf(B(d))'
      PROVE  /\ t \in Tunnels
             /\ remote'[t].state \notin {"unused", "deleted"}
             /\ remote'[t].owner = B(d)' /\ TunnelsOf(B(d))' \subseteq {t}
  <2>1. TunnelsOf(B(d))' \subseteq {t}
    BY <1>1, <1>4 DEF OneTunnelEach
  <2>2. QED
    BY <1>4, <2>1 DEF TunnelsOf, Live
<1>5. CASE d # c
  <2>1. work'[d] = work[d] /\ B(d) \in Bindings /\ B(d) # B(c) /\ B(d)' = B(d)
    BY <1>1, <1>3, <1>5, ReferenceTypes
    DEF Onward, RecordsInv, LifecycleInv, BehindInv, OwnershipInv, OwnPass, At, Holding, B
  <2>2. /\ t \in Tunnels /\ remote[t].state \notin {"unused", "deleted"}
        /\ remote[t].owner = B(d) /\ TunnelsOf(B(d)) \subseteq {t}
    BY <1>3, <2>1, TunnelAssumption DEF RecordsInv, Held, Owns
  <2>3. remote'[t].state # "deleted"
    BY <2>1, <2>2, EndsOwn
  <2>4. TunnelsOf(B(d))' \subseteq TunnelsOf(B(d))
    BY <1>1, <2>1, TunnelsShrink DEF TunnelsOf, Live
  <2>5. QED
    BY <1>2, <2>1, <2>2, <2>3, <2>4
<1>6. CASE d = c
  <2>1. B(c)' = B(c)
    BY <1>1, <1>3, <1>6 DEF Onward, Holding, B
  <2>2. CASE t = Obj(c).tunnel /\ t # NoTunnel /\ Live(t) /\ UNCHANGED remote
    <3>1. t \in Tunnels /\ Owns(B(c), t)
      BY <1>1, <2>2, ReferenceTypes DEF RecordsInv, Named
    <3>2. t \in TunnelsOf(B(c))'
      BY <2>1, <2>2, <3>1 DEF Owns, TunnelsOf, Live
    <3>3. QED
      BY <1>1, <1>4, <1>6, <2>1, <3>2
  <2>3. CASE t \in TunnelsOf(B(c))'
    BY <1>1, <1>4, <1>6, <2>1, <2>3
  <2>4. CASE work[c].pc \in Holding /\ t = work[c].tunnel
    <3>1. /\ t \in Tunnels /\ remote[t].state \notin {"unused", "deleted"}
          /\ remote[t].owner = B(c) /\ TunnelsOf(B(c)) \subseteq {t}
      BY <2>4, TunnelAssumption DEF RecordsInv, Held, Owns
    <3>2. ~At(c, "finTunnel") /\ ~At(c, "create")
      BY <2>4 DEF At, Holding
    <3>3. remote'[t].state # "deleted"
      BY <3>1, <3>2, EndsOwn
    <3>4. TunnelsOf(B(c))' \subseteq TunnelsOf(B(c))
      BY <1>1, <2>1, <3>2, TunnelsShrink DEF TunnelsOf, Live
    <3>5. QED
      BY <1>2, <1>6, <2>1, <3>1, <3>3, <3>4
  <2>5. QED
    BY <1>1, <1>3, <1>6, <2>2, <2>3, <2>4, StepHolds
<1>7. QED
  BY <1>5, <1>6

\* A step forgets no tunnel.
LEMMA StepNeverForgotten ==
  ASSUME RecordsInv, NEW c \in Classes, Step(c)
  PROVE  NeverForgotten'
<1>1. TypeOK /\ B(c) \in Bindings /\ Onward(c) /\ UNCHANGED cache /\ ~At(c, "idle")
  BY StepOnward, StepObjects, ReferenceTypes DEF RecordsInv, LifecycleInv, BehindInv, OwnershipInv
<1>2. \A b \in Bindings, t \in Tunnels \cup {NoTunnel} :
        Owns(b, t) /\ Stays(b, t) => Stays(b, t)'
  BY StaysKept
<1>3. \A d \in Classes, b \in Bindings : Stays(b, cache[d][b].tunnel)'
  <2>1. TAKE d \in Classes, b \in Bindings
  <2>2. Owns(b, cache[d][b].tunnel) /\ Stays(b, cache[d][b].tunnel)
    BY DEF RecordsInv, Named, NeverForgotten
  <2>3. QED
    BY <1>1, <1>2, <2>2, ReferenceTypes DEF Stays
<1>4. ASSUME NEW d \in Classes, work'[d] = work[d]
      PROVE  /\ (~At(d, "idle") /\ ~At(d, "report") => Stays(B(d), Obj(d).tunnel))'
             /\ (work[d].pc \in Holding \ {"record"} => Stays(B(d), work[d].tunnel))'
  <2>1. B(d) \in Bindings /\ B(d)' = B(d) /\ Obj(d)' = Obj(d)
    BY <1>1, <1>4, ReferenceTypes DEF B, Obj
  <2>2. ~At(d, "idle") /\ ~At(d, "report") =>
          Owns(B(d), Obj(d).tunnel) /\ Stays(B(d), Obj(d).tunnel)
    BY DEF RecordsInv, Named, NeverForgotten
  <2>3. work[d].pc \in Holding \ {"record"} =>
          Owns(B(d), work[d].tunnel) /\ Stays(B(d), work[d].tunnel)
    BY DEF RecordsInv, Held, NeverForgotten
  <2>4. QED
    BY <1>1, <1>2, <1>4, <2>1, <2>2, <2>3, ReferenceTypes DEF Stays, At
<1>5. ~At(c, "report") => Owns(B(c), Obj(c).tunnel) /\ Stays(B(c), Obj(c).tunnel)
  BY <1>1 DEF RecordsInv, Named, NeverForgotten
<1>6. work'[c].pc # "idle" => ~At(c, "report") /\ B(c)' = B(c)
  BY <1>1, ReportEnds DEF Onward, B
<1>7. (~At(c, "idle") /\ ~At(c, "report") => Stays(B(c), Obj(c).tunnel))'
  <2>1. SUFFICES ASSUME work'[c].pc # "idle", work'[c].pc # "report"
                 PROVE  Stays(B(c), Obj(c).tunnel)'
    BY DEF At
  <2>2. Obj(c)'.tunnel \in {Obj(c).tunnel, api'[B(c)].tunnel}
    BY <1>1, <2>1, StepCopies DEF Obj
  <2>3. CASE Obj(c)'.tunnel = Obj(c).tunnel
    <3>1. Stays(B(c), Obj(c).tunnel) /\ Owns(B(c), Obj(c).tunnel)
      BY <1>5, <1>6, <2>1
    <3>2. ASSUME NEW t \in Tunnels \cup {NoTunnel}, t = Obj(c).tunnel
          PROVE  Stays(B(c), Obj(c).tunnel)'
      <4>1. Stays(B(c), t)'
        BY <1>1, <1>2, <1>6, <2>1, <3>1, <3>2 DEF Stays
      <4>2. QED
        BY <2>3, <3>2, <4>1 DEF Stays
    <3>3. QED
      BY <1>1, <3>2, ReferenceTypes
  <2>4. CASE Obj(c)'.tunnel = api'[B(c)].tunnel
    BY <1>6, <2>1, <2>4 DEF Stays
  <2>5. QED
    BY <2>2, <2>3, <2>4
<1>8. (work[c].pc \in Holding \ {"record"} => Stays(B(c), work[c].tunnel))'
  <2>1. SUFFICES ASSUME work'[c].pc \in Holding \ {"record"}
                 PROVE  Stays(B(c), work[c].tunnel)'
    OBVIOUS
  <2>2. B(c)' = B(c) /\ ~At(c, "report")
    BY <1>6, <2>1 DEF Holding
  <2>3. \/ work'[c].tunnel \in {Obj(c).tunnel, api'[B(c)].tunnel}
        \/ work[c].pc \in Holding \ {"record"} /\ work'[c].tunnel = work[c].tunnel
    BY <1>1, <2>1, StepHolds DEF At
  <2>4. ASSUME NEW t \in Tunnels \cup {NoTunnel}, Owns(B(c), t), Stays(B(c), t),
               work'[c].tunnel = t
        PROVE  Stays(B(c), work[c].tunnel)'
    BY <1>1, <1>2, <2>2, <2>4 DEF Stays
  <2>5. CASE work'[c].tunnel = Obj(c).tunnel
    BY <1>1, <1>5, <2>2, <2>4, <2>5, ReferenceTypes
  <2>6. CASE work'[c].tunnel = api'[B(c)].tunnel
    BY <2>2, <2>6 DEF Stays
  <2>7. CASE work[c].pc \in Holding \ {"record"} /\ work'[c].tunnel = work[c].tunnel
    BY <1>1, <2>4, <2>7, ReferenceTypes DEF RecordsInv, Held, NeverForgotten
  <2>8. QED
    BY <2>3, <2>5, <2>6, <2>7
<1>9. QED
  BY <1>1, <1>3, <1>4, <1>7, <1>8 DEF NeverForgotten, Onward

\* A tunnel that a copy names and that is not live does not come back.
LEMMA StaysGone ==
  ASSUME TypeOK, Next, NEW b \in Bindings, NEW t \in Tunnels \cup {NoTunnel},
         Owns(b, t), t # NoTunnel, ~Live(t)
  PROVE  ~Live(t)'
BY OwnsStays

\* A step keeps what finalization has released.
LEMMA StepReleased ==
  ASSUME RecordsInv, NEW c \in Classes, Step(c)
  PROVE  Released'
<1>1. TypeOK /\ Onward(c) /\ ~At(c, "idle") /\ Next
  BY StepOnward, StepObjects DEF RecordsInv, LifecycleInv, BehindInv, OwnershipInv, Next
<1>2. SUFFICES ASSUME NEW d \in Classes, work'[d].pc = "finRemove",
                      Obj(d)'.policy = "Delete", Obj(d)'.tunnel # NoTunnel
               PROVE  ~Live(Obj(d).tunnel)'
  BY DEF Released, At
<1>3. CASE d # c
  <2>1. work'[d] = work[d]
    BY <1>1, <1>3 DEF Onward
  <2>2. /\ At(d, "finRemove") /\ Obj(d)' = Obj(d)
        /\ Obj(d).policy = "Delete" /\ Obj(d).tunnel # NoTunnel
    BY <1>2, <2>1 DEF At, Obj
  <2>3. /\ Owns(B(d), Obj(d).tunnel) /\ ~Live(Obj(d).tunnel) /\ B(d) \in Bindings
        /\ Obj(d).tunnel \in Tunnels \cup {NoTunnel}
    BY <1>1, <2>2, ReferenceTypes DEF RecordsInv, Named, Released, At
  <2>4. ASSUME NEW t \in Tunnels \cup {NoTunnel}, t = Obj(d).tunnel PROVE ~Live(t)'
    BY <1>1, <2>2, <2>3, <2>4, StaysGone
  <2>5. QED
    BY <2>2, <2>3, <2>4 DEF Live
<1>4. CASE d = c
  <2>1. Obj(c)' = Obj(c)
    BY <1>1, <1>2, <1>4 DEF Onward, Aside, Making, Obj
  <2>2. QED
    BY <1>1, <1>2, <1>4, <2>1, FinTunnelReleases
<1>5. QED
  BY <1>3, <1>4

\* A binding that is gone does not change any more, and goes only with its
\* tunnel released.
LEMMA StepSettled ==
  ASSUME RecordsInv, NEW c \in Classes, Step(c)
  PROVE  Settled'
<1>1. /\ TypeOK /\ B(c) \in Bindings /\ Obj(c) \in Object /\ Next
      /\ SameSpecs \/ Guards(c) \/ Frees(c)
  BY StepObjects, ReferenceTypes
  DEF RecordsInv, LifecycleInv, BehindInv, OwnershipInv, Next, TypeOK, Worker, Obj
<1>2. SUFFICES ASSUME NEW b \in Bindings, api'[b].phase = "gone", api'[b].policy = "Delete",
                      api'[b].tunnel # NoTunnel
               PROVE  ~Live(api[b].tunnel)'
  BY DEF Settled
<1>3. SUFFICES /\ api'[b].tunnel = api[b].tunnel /\ api[b].tunnel # NoTunnel
               /\ ~Live(api[b].tunnel)
  <2>1. ASSUME NEW t \in Tunnels \cup {NoTunnel}, t = api[b].tunnel, t # NoTunnel, ~Live(t)
        PROVE  ~Live(t)'
    BY <1>1, <2>1, StaysGone DEF RecordsInv, Named
  <2>2. QED
    BY <1>1, <1>3, <2>1, ReferenceTypes DEF Live
<1>4. Guards(c) => Obj(c).phase = "live"
  BY DEF Guards, RecordsInv, LifecycleInv, BehindInv, PassBehind
<1>5. Frees(c) => Obj(c).phase = "deleting"
  BY DEF Frees, RecordsInv, LifecycleInv, BehindInv, PassBehind, At, Finishing
<1>6. CASE api[b].phase = "gone"
  <2>1. api'[b] = api[b]
    <3>1. api'[b] = api[b] \/ Guards(c) \/ Frees(c)
      BY <1>1, <1>6, StepLink
    <3>2. Guards(c) \/ Frees(c) => b # B(c)
      BY <1>4, <1>5, <1>6 DEF Guards, Frees
    <3>3. Guards(c) \/ Frees(c) => api'[b] = api[b]
      BY <1>1, <3>2 DEF Guards, Frees, TypeOK
    <3>4. QED
      BY <3>1, <3>3
  <2>2. QED
    BY <1>2, <1>6, <2>1 DEF RecordsInv, Settled
<1>7. CASE api[b].phase # "gone"
  <2>1. Frees(c) /\ b = B(c)
    <3>1. ~SameSpecs
      BY <1>2, <1>7 DEF SameSpecs
    <3>2. Guards(c) => api'[b].phase = api[b].phase
      BY <1>1 DEF Guards, TypeOK, Object
    <3>3. Frees(c) /\ b # B(c) => api'[b] = api[b]
      BY <1>1 DEF Frees, TypeOK
    <3>4. QED
      BY <1>1, <1>2, <1>7, <3>1, <3>2, <3>3
  <2>2. /\ api[b] = Obj(c) /\ api'[b].tunnel = Obj(c).tunnel
        /\ api'[b].policy = Obj(c).policy /\ At(c, "finRemove")
    BY <1>1, <2>1 DEF Frees, TypeOK, Object
  <2>3. QED
    BY <1>2, <2>2 DEF RecordsInv, Released
<1>8. QED
  BY <1>6, <1>7

\* A step gives rules only to a tunnel that the status names.
LEMMA StepConfigured ==
  ASSUME RecordsInv, NEW c \in Classes, Step(c)
  PROVE  ConfiguredIsRecorded'
<1>1. TypeOK /\ TypeOK' /\ B(c) \in Bindings
  BY StepType, ReferenceTypes DEF RecordsInv, LifecycleInv, BehindInv, OwnershipInv
<1>2. SUFFICES ASSUME NEW t \in Tunnels, remote'[t].state = "live", remote'[t].ingress # Unset
               PROVE  api'[remote'[t].owner].tunnel = t
  BY DEF ConfiguredIsRecorded, Live
<1>3. remote[t].state # "unused"
  BY <1>1, <1>2, StepRemote
<1>4. /\ remote[t].state = "live" /\ remote'[t].owner = remote[t].owner
      /\ \/ remote'[t].ingress = remote[t].ingress
         \/ At(c, "dpConfig") /\ t = Obj(c).tunnel
         \/ At(c, "configure") /\ t = work[c].tunnel
  BY <1>1, <1>2, <1>3, StepRemote
<1>5. remote[t].owner \in Bindings
  BY DEF TypeOK, Remote, RecordsInv, LifecycleInv, BehindInv, OwnershipInv
<1>6. api[remote[t].owner].tunnel = t
  <2>1. CASE remote'[t].ingress = remote[t].ingress
    BY <1>2, <1>4, <2>1 DEF RecordsInv, ConfiguredIsRecorded, Live
  <2>2. CASE At(c, "dpConfig") /\ t = Obj(c).tunnel
    BY <1>4, <2>2, TunnelAssumption
    DEF RecordsInv, NeverForgotten, Named, Stays, Owns, Live, At
  <2>3. CASE At(c, "configure") /\ t = work[c].tunnel
    BY <1>4, <2>3, TunnelAssumption
    DEF RecordsInv, NeverForgotten, Held, Holding, Stays, Owns, Live, At
  <2>4. QED
    BY <1>4, <2>1, <2>2, <2>3
<1>7. QED
  BY <1>4, <1>5, <1>6, LinkKept DEF Live

\* A step deletes no tunnel that DNS records point to.
LEMMA StepDNS ==
  ASSUME RecordsInv, NEW c \in Classes, Step(c)
  PROVE  NoDanglingDNS'
<1>1. TypeOK /\ B(c) \in Bindings
  BY ReferenceTypes DEF RecordsInv, LifecycleInv, BehindInv, OwnershipInv
<1>2. SUFFICES ASSUME NEW b \in Bindings, NEW t \in Tunnels, endpoint'[b].target = t,
                      remote'[t].state = "deleted"
               PROVE  FALSE
  BY DEF NoDanglingDNS
<1>3. CASE endpoint'[b] = endpoint[b]
  <2>1. endpoint[b].target = t /\ remote[t].state # "deleted"
    BY <1>2, <1>3 DEF RecordsInv, NoDanglingDNS
  <2>2. At(c, "finTunnel") /\ remote[t].owner = B(c)
    BY <1>2, <2>1, EndsOwn
  <2>3. remote[t].owner = b
    BY <2>1, TunnelAssumption DEF RecordsInv, Named, Owns
  <2>4. endpoint[B(c)] = NoEndpoint
    BY <2>2 DEF RecordsInv, LifecycleInv, Removed, At
  <2>5. QED
    BY <2>1, <2>2, <2>3, <2>4, TunnelAssumption DEF NoEndpoint
<1>4. CASE endpoint'[b] = NoEndpoint
  BY <1>2, <1>4, TunnelAssumption DEF NoEndpoint
<1>5. CASE At(c, "dns") /\ endpoint'[b].target = work[c].tunnel
  <2>1. t = work[c].tunnel /\ remote[t].state # "deleted"
    BY <1>2, <1>5 DEF RecordsInv, Held, Holding, At
  <2>2. At(c, "finTunnel")
    BY <1>2, <2>1, EndsOwn
  <2>3. QED
    BY <1>5, <2>2 DEF At
<1>6. QED
  BY <1>1, <1>3, <1>4, <1>5, StepEndpoint

\* Users and watch events make no tunnel, and change no reference to one.
LEMMA OthersRecords ==
  ASSUME RecordsInv, Others
  PROVE  RecordsInv'
<1>1. TypeOK /\ Next /\ LifecycleInv'
  BY OthersLifecycle DEF RecordsInv, LifecycleInv, BehindInv, OwnershipInv, Next
<1>2. UNCHANGED <<cache, work, endpoint>> /\ \A b \in Bindings : api'[b].tunnel = api[b].tunnel
  BY <1>1, OthersObjects DEF children
<1>3. \A t \in Tunnels :
        /\ remote'[t].owner = remote[t].owner /\ remote'[t].ingress = remote[t].ingress
        /\ remote'[t].state = remote[t].state
             \/ (remote[t].state = "live" /\ remote'[t].state = "removed")
  BY <1>1, OthersRemote
<1>4. \A b \in Bindings, t \in Tunnels \cup {NoTunnel} : Owns(b, t) => Owns(b, t)'
  BY <1>3, TunnelAssumption DEF Owns
<1>5. Named'
  <2>1. \A b \in Bindings : Owns(b, api[b].tunnel)' /\ Owns(b, endpoint[b].target)'
    BY <1>1, <1>2, <1>4, ReferenceTypes DEF RecordsInv, Named, Owns
  <2>2. \A c \in Classes, b \in Bindings : Owns(b, cache[c][b].tunnel)'
    BY <1>1, <1>2, <1>4, ReferenceTypes DEF RecordsInv, Named, Owns
  <2>3. \A c \in Classes : (~At(c, "idle") => Owns(B(c), Obj(c).tunnel))'
    BY <1>1, <1>2, <1>4, ReferenceTypes DEF RecordsInv, Named, Owns, At, B, Obj
  <2>4. QED
    BY <2>1, <2>2, <2>3 DEF Named
<1>6. Held'
  <2>1. SUFFICES ASSUME NEW c \in Classes, work[c].pc \in Holding, NEW t, t = work[c].tunnel
                 PROVE  /\ t \in Tunnels /\ Owns(B(c), t)'
                        /\ remote'[t].state # "deleted" /\ TunnelsOf(B(c))' \subseteq {t}
    BY <1>2 DEF Held, Owns, B
  <2>2. /\ t \in Tunnels /\ Owns(B(c), t)
        /\ remote[t].state # "deleted" /\ TunnelsOf(B(c)) \subseteq {t}
    BY <2>1 DEF RecordsInv, Held
  <2>3. QED
    BY <1>2, <1>3, <2>2 DEF Owns, TunnelsOf, Live, B
<1>7. NeverForgotten'
  <2>1. \A b \in Bindings : \A t : Stays(b, t) => Stays(b, t)'
    BY <1>2, <1>3 DEF Stays, Live
  <2>2. \A c \in Classes, b \in Bindings : Stays(b, cache[c][b].tunnel)'
    BY <1>2, <2>1 DEF RecordsInv, NeverForgotten, Stays
  <2>3. \A c \in Classes :
          /\ (~At(c, "idle") /\ ~At(c, "report") => Stays(B(c), Obj(c).tunnel))'
          /\ (work[c].pc \in Holding \ {"record"} => Stays(B(c), work[c].tunnel))'
    BY <1>1, <1>2, <2>1, ReferenceTypes DEF RecordsInv, NeverForgotten, Stays, B, Obj, At
  <2>4. QED
    BY <2>2, <2>3 DEF NeverForgotten
<1>8. Released'
  BY <1>1, <1>2, <1>3, ReferenceTypes DEF RecordsInv, Released, Live, Obj, At
<1>9. Settled'
  <2>1. SUFFICES ASSUME NEW b \in Bindings, api'[b].phase = "gone", api'[b].policy = "Delete",
                        api[b].tunnel # NoTunnel, Live(api[b].tunnel)
                 PROVE  FALSE
    BY <1>1, <1>2, <1>3, ReferenceTypes DEF Settled, Live
  <2>2. api[b].phase # "gone"
    BY <1>1, <2>1, OthersObjects DEF RecordsInv, Settled, Exists
  <2>3. api[b].phase = "live" /\ ~api[b].finalizer
    BY <1>1, <2>1, <2>2, OthersObjects
  <2>4. TunnelsOf(b) = {}
    BY <2>3 DEF RecordsInv, LifecycleInv, NothingUnguarded
  <2>5. api[b].tunnel \in TunnelsOf(b)
    BY <1>1, <2>1, ReferenceTypes DEF RecordsInv, Named, Owns, TunnelsOf
  <2>6. QED
    BY <2>4, <2>5
<1>10. ConfiguredIsRecorded'
  <2>1. \A t \in Tunnels : remote[t].owner \in Bindings
    BY <1>1 DEF TypeOK, Remote
  <2>2. QED
    BY <1>2, <1>3, <2>1 DEF RecordsInv, ConfiguredIsRecorded, Live
<1>11. NoDanglingDNS'
  BY <1>2, <1>3 DEF RecordsInv, NoDanglingDNS
<1>12. QED
  BY <1>1, <1>5, <1>6, <1>7, <1>8, <1>9, <1>10, <1>11 DEF RecordsInv

\* The manager process copies references, and a status names what it names.
LEMMA ManagerRecords ==
  ASSUME RecordsInv,
         \/ \E c \in Classes : Crash(c)
         \/ \E c \in Classes, b \in Bindings : Start(c, b) \/ Deliver(c, b)
  PROVE  RecordsInv'
<1>1. TypeOK /\ LifecycleInv'
  BY OthersLifecycle DEF RecordsInv, LifecycleInv, BehindInv, OwnershipInv
<1>2. UNCHANGED <<api, remote, endpoint>>
  BY DEF Crash, Start, Deliver, children
<1>3. \A c \in Classes, b \in Bindings : cache'[c][b] = cache[c][b] \/ cache'[c][b] = api[b]
  BY <1>1, ManagerCopies
<1>4. \A c \in Classes :
        \/ work'[c] = work[c]
        \/ work'[c].pc = "idle"
        \/ \E b \in Bindings :
             /\ work'[c].b = b /\ work'[c].obj = cache[c][b]
             /\ work'[c].pc \in {"validate", "finProvider"}
  BY <1>1, ManagerMoves
<1>5. /\ \A b, t : Owns(b, t)' <=> Owns(b, t)
      /\ \A b, t : Stays(b, t)' <=> Stays(b, t)
      /\ \A b : TunnelsOf(b)' = TunnelsOf(b)
  BY <1>2 DEF Owns, Stays, TunnelsOf, Live
<1>6. Named'
  <2>1. \A c \in Classes, b \in Bindings : Owns(b, cache[c][b].tunnel)'
    BY <1>2, <1>3 DEF RecordsInv, Named, Owns
  <2>2. \A c \in Classes : (~At(c, "idle") => Owns(B(c), Obj(c).tunnel))'
    BY <1>2, <1>4 DEF RecordsInv, Named, Owns, At, B, Obj
  <2>3. QED
    BY <1>2, <2>1, <2>2 DEF RecordsInv, Named, Owns
<1>7. Held'
  BY <1>2, <1>4 DEF RecordsInv, Held, Holding, Owns, TunnelsOf, Live, B
<1>8. NeverForgotten'
  <2>1. \A c \in Classes, b \in Bindings : Stays(b, cache[c][b].tunnel)'
    BY <1>2, <1>3 DEF RecordsInv, NeverForgotten, Stays, Live
  <2>2. \A c \in Classes :
          (~At(c, "idle") /\ ~At(c, "report") => Stays(B(c), Obj(c).tunnel))'
    BY <1>2, <1>4 DEF RecordsInv, NeverForgotten, Stays, Live, At, B, Obj
  <2>3. \A c \in Classes :
          (work[c].pc \in Holding \ {"record"} => Stays(B(c), work[c].tunnel))'
    BY <1>2, <1>4 DEF RecordsInv, NeverForgotten, Stays, Live, Holding, B
  <2>4. QED
    BY <2>1, <2>2, <2>3 DEF NeverForgotten
<1>9. Released'
  BY <1>2, <1>4 DEF RecordsInv, Released, Live, Obj, At
<1>10. Settled' /\ ConfiguredIsRecorded' /\ NoDanglingDNS'
  BY <1>2 DEF RecordsInv, Settled, ConfiguredIsRecorded, NoDanglingDNS, Live
<1>11. QED
  BY <1>1, <1>6, <1>7, <1>8, <1>9, <1>10 DEF RecordsInv

\* The invariant is inductive.
LEMMA Records == Spec => []RecordsInv
<1>1. Init => RecordsInv
  <2>1. SUFFICES ASSUME Init PROVE RecordsInv
    OBVIOUS
  <2>2. LifecycleInv
    BY <2>1, LifecycleInit
  <2>3. \A c \in Classes : work[c].pc = "idle"
    BY <2>1 DEF Init, Idle
  <2>4. /\ \A b \in Bindings : /\ api[b].phase = "absent" /\ api[b].tunnel = NoTunnel
                               /\ endpoint[b].target = NoTunnel
        /\ \A c \in Classes, b \in Bindings : cache[c][b].tunnel = NoTunnel
        /\ \A t \in Tunnels : remote[t].state = "unused"
    BY <2>1 DEF Init, NewObject, NoEndpoint, UnusedTunnel
  <2>5. Named /\ NoDanglingDNS
    BY <2>3, <2>4, TunnelAssumption DEF Named, Owns, At, NoDanglingDNS
  <2>6. Held /\ NeverForgotten /\ Released
    BY <2>3, <2>4, TunnelAssumption DEF Held, NeverForgotten, Released, Stays, Holding, At
  <2>7. Settled /\ ConfiguredIsRecorded
    BY <2>4 DEF Settled, ConfiguredIsRecorded, Live
  <2>8. QED
    BY <2>2, <2>5, <2>6, <2>7 DEF RecordsInv
<1>2. RecordsInv /\ [Next]_vars => RecordsInv'
  <2>1. ASSUME RecordsInv, UNCHANGED vars PROVE RecordsInv'
    <3>1. LifecycleInv'
      BY <2>1, LifecycleStutters DEF RecordsInv
    <3>2. Named' /\ Held' /\ NeverForgotten'
      BY <2>1 DEF RecordsInv, Named, Held, NeverForgotten, Owns, Stays, TunnelsOf, Live,
                  At, B, Obj, vars
    <3>3. Released' /\ Settled' /\ ConfiguredIsRecorded' /\ NoDanglingDNS'
      BY <2>1 DEF RecordsInv, Released, Settled, ConfiguredIsRecorded, NoDanglingDNS, Live,
                  At, Obj, vars
    <3>4. QED
      BY <3>1, <3>2, <3>3 DEF RecordsInv
  <2>2. ASSUME RecordsInv, NEW c \in Classes, Step(c) PROVE RecordsInv'
    <3>1. LifecycleInv'
      BY <2>2, StepLifecycle DEF RecordsInv
    <3>2. OwnershipInv'
      BY <3>1 DEF LifecycleInv, BehindInv
    <3>3. QED
      BY <2>2, <3>1, <3>2, StepNamed, StepHeld, StepNeverForgotten, StepReleased, StepSettled,
         StepConfigured, StepDNS
      DEF RecordsInv
  <2>3. QED
    BY <2>1, <2>2, OthersRecords, ManagerRecords DEF Next
<1>3. QED
  BY <1>1, <1>2, PTL DEF Spec

\* A tunnel routes something only while the status of its binding names it:
\* ensureTunnel records the identifier before configuration, and neither an
\* old copy of the status nor a lost response makes a later pass forget it.
THEOREM ConfiguredRecorded == Spec => []ConfiguredIsRecorded
<1>1. RecordsInv => ConfiguredIsRecorded
  BY DEF RecordsInv
<1>2. QED
  BY <1>1, Records, PTL

\* The controller never deletes a tunnel that DNS records point to: finalize
\* withdraws the records first, and no other pass can write them again.
THEOREM DNSNeverDangles == Spec => []NoDanglingDNS
<1>1. RecordsInv => NoDanglingDNS
  BY DEF RecordsInv
<1>2. QED
  BY <1>1, Records, PTL

\* When finalize has let a binding go, its connector, its DNS records and,
\* under policy Delete, its recorded tunnel are gone for good.
THEOREM FinalizationCleans == Spec => []CleanFinalization
<1>1. RecordsInv => CleanFinalization
  BY DEF RecordsInv, LifecycleInv, NothingLeft, NoChildren, Settled, CleanFinalization
<1>2. QED
  BY <1>1, Records, PTL

-----------------------------------------------------------------------------
(* DNS records follow the rules of the tunnel.                             *)

\* A pass goes past configuration only when the tunnel it holds has the rules
\* for its hostnames, and nobody else writes that tunnel's rules.
Routing == {"secret", "deploy", "dns"}
Routed ==
  \A c \in Classes : work[c].pc \in Routing /\ Live(work[c].tunnel) =>
    remote[work[c].tunnel].ingress.hosts = work[c].hosts

\* How a pass gets past configuration.
LEMMA StepRouting ==
  ASSUME TypeOK, NEW c \in Classes, Step(c), work'[c].pc \in Routing
  PROVE  /\ work'[c].tunnel = work[c].tunnel /\ work'[c].hosts = work[c].hosts
         /\ \/ work[c].pc \in Routing /\ UNCHANGED remote
            \/ /\ At(c, "configure")
               /\ remote' = [remote EXCEPT ![work[c].tunnel].ingress =
                              IngressRules(work[c].hosts, work[c].origin)]
<1>1. \A pc : Goto(c, pc) /\ pc \in Routing =>
        work'[c].tunnel = work[c].tunnel /\ work'[c].hosts = work[c].hosts
  <2>1. SUFFICES ASSUME NEW pc, Goto(c, pc), pc \in Routing
                 PROVE  work'[c].tunnel = work[c].tunnel /\ work'[c].hosts = work[c].hosts
    OBVIOUS
  <2> DEFINE w == [work[c] EXCEPT !.pc = pc]
  <2>2. Enter(c, w)
    BY <2>1 DEF Goto, Routing
  <2>3. w.tunnel = work[c].tunnel /\ w.hosts = work[c].hosts
    BY DEF TypeOK, Worker
  <2> HIDE DEF w
  <2>4. QED
    BY <2>2, <2>3, EnterParts
<1>2. \A pc : Goto(c, pc) => work'[c].pc = pc
  BY GotoMoves
<1>3. CASE At(c, "configure")
  <2>1. Configure(c)
    BY <1>3
    DEF Step, Validate, Report, AddFinalizer, Withdraw, Reject, DpTunnel, DpConfig, DpDns,
        Finalize, FinProvider, FinDeploy, FinSecret, FinDns, FinTunnel, FinRemove, Program,
        GetTunnel, Find, FindFails, CreateTunnel, RecordTunnel, WriteSecret, WriteDeployment,
        WriteEndpoint, SetReady, At
  <2>2. PICK r \in Results :
          /\ remote' = IF Applied(r)
                       THEN [remote EXCEPT ![work[c].tunnel].ingress =
                               IngressRules(work[c].hosts, work[c].origin)]
                       ELSE remote
          /\ Goto(c, IF r = "ok" THEN "secret" ELSE "report")
    BY <2>1 DEF Configure, GotoIf
  <2>3. r = "ok"
    BY <1>2, <2>2 DEF Routing
  <2>4. QED
    BY <1>1, <1>3, <2>2, <2>3 DEF Applied, Routing
<1>4. CASE work[c].pc \in Routing
  <2>1. WriteSecret(c) \/ WriteDeployment(c) \/ WriteEndpoint(c)
    BY <1>4
    DEF Step, Validate, Report, AddFinalizer, Withdraw, Reject, DpTunnel, DpConfig, DpDns,
        Finalize, FinProvider, FinDeploy, FinSecret, FinDns, FinTunnel, FinRemove, Program,
        GetTunnel, Find, FindFails, CreateTunnel, RecordTunnel, Configure, SetReady, At, Routing
  <2>2. ~WriteEndpoint(c)
    <3>1. \A a, pc : Enter(c, [work[c] EXCEPT !.automated = a, !.pc = pc]) => work'[c].pc = pc
      BY EnterMoves DEF Moves
    <3>2. QED
      BY <3>1 DEF WriteEndpoint, Routing
  <2>3. UNCHANGED remote /\ \E pc : Goto(c, pc)
    BY <2>1, <2>2 DEF WriteSecret, WriteDeployment, GotoIf
  <2>4. QED
    BY <1>1, <1>2, <1>4, <2>3
<1>5. CASE work[c].pc \notin Routing /\ ~At(c, "configure")
  <2>1. work[c].pc \in Holding
    BY <1>5, StepHolds DEF Routing, Holding
  <2>2. RecordTunnel(c) \/ SetReady(c)
    BY <1>5, <2>1
    DEF Step, Validate, Report, AddFinalizer, Withdraw, Reject, DpTunnel, DpConfig, DpDns,
        Finalize, FinProvider, FinDeploy, FinSecret, FinDns, FinTunnel, FinRemove, Program,
        GetTunnel, Find, FindFails, CreateTunnel, Configure, WriteSecret, WriteDeployment,
        WriteEndpoint, At, Routing, Holding
  <2>3. \A new, r, pc : PatchStatus(c, new, r, pc) => work'[c].pc = pc
    BY PatchMoves
  <2>4. QED
    BY <2>2, <2>3 DEF RecordTunnel, SetReady, Routing
<1>6. QED
  BY <1>3, <1>4, <1>5

\* A step keeps the rules of every tunnel that a pass is about to publish.
LEMMA StepRouted ==
  ASSUME RecordsInv, Routed, NEW c \in Classes, Step(c)
  PROVE  Routed'
<1>1. TypeOK /\ Onward(c) /\ ~At(c, "idle") /\ B(c) \in Bindings
  BY StepOnward, StepObjects, ReferenceTypes DEF RecordsInv, LifecycleInv, BehindInv, OwnershipInv
<1>2. SUFFICES ASSUME NEW d \in Classes, work'[d].pc \in Routing,
                      NEW t, t = work'[d].tunnel, remote'[t].state = "live"
               PROVE  remote'[t].ingress.hosts = work'[d].hosts
  <2>1. \A d \in Classes : work'[d].pc \in Routing /\ remote'[work'[d].tunnel].state = "live" =>
          remote'[work'[d].tunnel].ingress.hosts = work'[d].hosts
    BY <1>2
  <2>2. QED
    BY <2>1 DEF Routed, Live
<1>3. CASE d # c
  <2>1. work'[d] = work[d] /\ B(d) # B(c)
    BY <1>1, <1>2, <1>3
    DEF Onward, RecordsInv, LifecycleInv, BehindInv, OwnershipInv, OwnPass, At, Routing
  <2>2. t \in Tunnels /\ remote[t].state # "unused" /\ remote[t].owner = B(d)
    BY <1>2, <2>1, TunnelAssumption DEF RecordsInv, Held, Owns, Holding, Routing
  <2>3. ~At(c, "idle") => Owns(B(c), Obj(c).tunnel)
    BY DEF RecordsInv, Named
  <2>4. At(c, "configure") => Owns(B(c), work[c].tunnel)
    BY DEF RecordsInv, Held, Holding, At
  <2>5. remote'[t].ingress = remote[t].ingress
    BY <1>1, <2>1, <2>2, <2>3, <2>4, StepRemote, TunnelAssumption DEF Owns
  <2>6. remote[t].state = "live"
    BY <1>1, <1>2, <2>2, StepRemote
  <2>7. QED
    BY <1>2, <2>1, <2>5, <2>6 DEF Routed, Live
<1>4. CASE d = c
  <2>1. t = work[c].tunnel /\ work'[c].hosts = work[c].hosts
    BY <1>1, <1>2, <1>4, StepRouting
  <2>2. CASE work[c].pc \in Routing /\ UNCHANGED remote
    BY <1>2, <1>4, <2>1, <2>2 DEF Routed, Live
  <2>3. CASE /\ At(c, "configure")
             /\ remote' = [remote EXCEPT ![work[c].tunnel].ingress =
                             IngressRules(work[c].hosts, work[c].origin)]
    <3>1. t \in Tunnels
      BY <2>1, <2>3 DEF RecordsInv, Held, Holding, At
    <3>2. remote'[t].ingress = IngressRules(work[c].hosts, work[c].origin)
      BY <1>1, <2>1, <2>3, <3>1 DEF TypeOK, Remote
    <3>3. QED
      BY <1>4, <2>1, <3>2 DEF IngressRules
  <2>4. QED
    BY <1>1, <1>2, <1>4, <2>2, <2>3, StepRouting
<1>5. QED
  BY <1>3, <1>4

\* DNS records are published for the hostnames that the tunnel routes: the
\* endpoint is written after the configuration, with what the pass planned,
\* and no pass of another binding touches that tunnel in between.
THEOREM DNSFollowsIngress == Spec => DnsAfterIngress
<1>1. Init => Routed
  BY DEF Init, Idle, Routed, Routing
<1>2. RecordsInv /\ Routed /\ [Next]_vars => Routed'
  <2>1. SUFFICES ASSUME RecordsInv, Routed, [Next]_vars PROVE Routed'
    OBVIOUS
  <2>2. TypeOK
    BY <2>1 DEF RecordsInv, LifecycleInv, BehindInv, OwnershipInv
  <2>3. CASE UNCHANGED vars
    BY <2>1, <2>3 DEF vars, Routed, Live
  <2>4. CASE Others
    <3>1. UNCHANGED work
      BY <2>2, <2>4, OthersObjects
    <3>2. \A c \in Classes : work[c].pc \in Routing => work[c].tunnel \in Tunnels
      BY <2>1 DEF RecordsInv, Held, Holding, Routing
    <3>3. \A t \in Tunnels : /\ remote'[t].ingress = remote[t].ingress
                             /\ remote'[t].state = "live" => remote[t].state = "live"
      BY <2>2, <2>4, OthersRemote
    <3>4. QED
      BY <2>1, <3>1, <3>2, <3>3 DEF Routed, Live
  <2>5. CASE \/ \E c \in Classes : Crash(c)
             \/ \E c \in Classes, b \in Bindings : Start(c, b) \/ Deliver(c, b)
    <3>1. UNCHANGED remote
      BY <2>5 DEF Crash, Start, Deliver
    <3>2. \A c \in Classes : work'[c] = work[c] \/ work'[c].pc \in {"idle", "validate", "finProvider"}
      BY <2>2, <2>5, ManagerMoves
    <3>3. QED
      BY <2>1, <3>1, <3>2 DEF Routed, Live, Routing
  <2>6. QED
    BY <2>1, <2>3, <2>4, <2>5, StepRouted DEF Next
<1>3. RecordsInv /\ Routed /\ [Next]_vars =>
        [\A b \in Bindings :
           endpoint'[b] # endpoint[b] /\ endpoint'[b] # NoEndpoint =>
             LET t == endpoint'[b].target
             IN  Live(t) => endpoint'[b].hosts = remote[t].ingress.hosts]_vars
  <2>1. SUFFICES ASSUME RecordsInv, Routed, Next, NEW b \in Bindings,
                        endpoint'[b] # endpoint[b], endpoint'[b] # NoEndpoint,
                        Live(endpoint'[b].target)
                 PROVE  endpoint'[b].hosts = remote[endpoint'[b].target].ingress.hosts
    OBVIOUS
  <2>2. TypeOK
    BY <2>1 DEF RecordsInv, LifecycleInv, BehindInv, OwnershipInv
  <2>3. ~Others
    BY <2>1, <2>2, OthersObjects DEF children
  <2>4. PICK c \in Classes : Step(c)
    BY <2>1, <2>3 DEF Next, Crash, Start, Deliver, children
  <2>5. b = B(c) /\ At(c, "dns") /\ endpoint'[b].target = work[c].tunnel
    BY <2>1, <2>2, <2>4, StepEndpoint
  <2>6. WriteEndpoint(c)
    BY <2>4, <2>5
    DEF Step, Validate, Report, AddFinalizer, Withdraw, Reject, DpTunnel, DpConfig, DpDns,
        Finalize, FinProvider, FinDeploy, FinSecret, FinDns, FinTunnel, FinRemove, Program,
        GetTunnel, Find, FindFails, CreateTunnel, RecordTunnel, Configure, WriteSecret,
        WriteDeployment, SetReady, At
  <2>7. endpoint'[b].hosts = work[c].hosts
    BY <2>1, <2>2, <2>5, <2>6 DEF WriteEndpoint, DeleteEndpoint, TypeOK
  <2>8. QED
    BY <2>1, <2>5, <2>7 DEF Routed, Routing, At
<1>4. QED
  BY <1>1, <1>2, <1>3, Records, PTL DEF Spec, DnsAfterIngress
=============================================================================
