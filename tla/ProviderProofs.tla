--------------------------- MODULE ProviderProofs ---------------------------
(***************************************************************************)
(* The provider controller, for any number of bindings and private routes  *)
(* and any number of changes: what its conditions say of the generation    *)
(* they name is so, and a provider that is gone leaves no tunnel behind    *)
(* that needs its credentials.                                             *)
(*                                                                         *)
(* Nothing in the code orders the finalizer of the provider against the    *)
(* passes that make tunnels.  The argument is that the deletion of an      *)
(* object is a new generation, which is never judged: once the cache shows *)
(* it, no pass starts to make a tunnel any more, and whatever a pass that  *)
(* started earlier works for has its finalizer and is in the cache, where  *)
(* finalize finds it.                                                      *)
(***************************************************************************)
EXTENDS Provider, TLAPS

-----------------------------------------------------------------------------
(* Types.                                                                  *)

\* Constants the controller starts from.
LEMMA ValueTypes ==
  /\ NewObject \in Object /\ [NewObject EXCEPT !.valid = FALSE] \in Object
  /\ Idle \in Worker /\ NewReference \in Reference
BY DEF NewObject, Object, Conditions, Phases, Idle, Worker, Steps, NewReference, Reference

\* The initial states have their types.
LEMMA InitType == Init => TypeOK
<1>1. SUFFICES ASSUME Init PROVE TypeOK
  OBVIOUS
<1>2. /\ provider \in Object /\ work \in Worker /\ token \in Tokens /\ changes \in Nat
      /\ refs \in [References -> Reference]
  BY <1>1, ValueTypes DEF Init, Tokens
<1>3. pass \in [Kinds -> References \cup {NoReference}]
  BY <1>1 DEF Init
<1>4. /\ cache \in [provider : Object, refs : [References -> Reference]]
      /\ cache.provider = provider /\ provider.gen \in Nat
  BY <1>1, <1>2 DEF Init, Object
<1>5. QED
  BY <1>2, <1>3, <1>4 DEF TypeOK

\* A pass of the provider keeps the types.
LEMMA StepType ==
  ASSUME TypeOK, Start \/ AddFinalizer \/ Step
  PROVE  TypeOK'
<1>1. /\ work \in Worker /\ provider \in Object /\ cache.provider \in Object /\ Idle \in Worker
      /\ changes \in Nat
  BY ValueTypes DEF TypeOK
<1>2. \A pc \in Steps : Goto(pc) => work' \in Worker
  BY <1>1 DEF Goto, Worker
<1>3. \A a \in {"True", "False"}, d \in {"True", "False", "Unknown"} :
        Judge(a, d) => work' \in Worker
  <2>1. \A x \in Conditions : [work EXCEPT !.pc = "patch", !.cond = x] \in Worker
    BY <1>1 DEF Worker, Steps
  <2>2. work.obj.gen \in Nat
    BY <1>1 DEF Worker, Object
  <2>3. \A a \in {"True", "False"}, d \in {"True", "False", "Unknown"} :
          [accepted |-> a, creds |-> d, gen |-> work.obj.gen] \in Conditions
    BY <2>2 DEF Conditions
  <2>4. QED
    BY ZenonT(60), <2>1, <2>3 DEF Judge
<1>4. CASE Start
  <2>1. work' \in Worker
    BY <1>1, <1>4 DEF Start, Worker, Steps
  <2>2. QED
    BY <1>4, <2>1 DEF Start, TypeOK, world
<1>5. CASE AddFinalizer
  <2>1. provider' \in Object /\ provider'.gen = provider.gen
    BY <1>1, <1>5 DEF AddFinalizer, Object
  <2>2. QED
    BY <1>5, <2>1 DEF AddFinalizer, TypeOK, world
<1>6. CASE Check
  <2>1. work' \in Worker
    BY <1>3, <1>6 DEF Check
  <2>2. changes' \in Nat
    BY <1>1, <1>6 DEF Check, Change
  <2>3. QED
    BY <1>6, <2>1, <2>2 DEF Check, TypeOK, world
<1>7. CASE Patch
  <2>1. work' \in Worker
    BY <1>2, <1>7 DEF Patch, Steps
  <2>2. provider' \in Object /\ provider'.gen = provider.gen
    BY <1>1, <1>7 DEF Patch, Object, Worker
  <2>3. changes' \in Nat
    BY <1>1, <1>7 DEF Patch, Call, Change
  <2>4. QED
    BY <1>7, <2>1, <2>2, <2>3 DEF Patch, TypeOK, world
<1>8. CASE ListBindings \/ ListRoutes
  <2>1. work' \in Worker
    BY <1>2, <1>8 DEF ListBindings, ListRoutes, Steps
  <2>2. QED
    BY <1>8, <2>1 DEF ListBindings, ListRoutes, TypeOK, world
<1>9. CASE RemoveFinalizer
  <2>1. work' \in Worker
    BY <1>2, <1>9 DEF RemoveFinalizer, Steps
  <2>2. provider' \in Object /\ provider'.gen = provider.gen
    BY <1>1, <1>9 DEF RemoveFinalizer, Object, Phases
  <2>3. changes' \in Nat
    BY <1>1, <1>9 DEF RemoveFinalizer, Call, Change
  <2>4. QED
    BY <1>9, <2>1, <2>2, <2>3 DEF RemoveFinalizer, TypeOK, world
<1>10. QED
  BY <1>4, <1>5, <1>6, <1>7, <1>8, <1>9 DEF Step

\* So do the passes of the references.
LEMMA ReferenceType ==
  ASSUME TypeOK,
         \/ \E k \in Kinds : Make(k)
         \/ \E r \in References : StartReference(r) \/ DeliverReference(r)
  PROVE  TypeOK'
<1>1. \A r \in References : KindOf(r) \in Kinds /\ refs[r] \in Reference
  BY DEF KindOf, Kinds, TypeOK
<1>2. CASE \E k \in Kinds : Make(k)
  <2>1. PICK k \in Kinds : Make(k)
    BY <1>2
  <2>2. pass[k] \in References
    BY <2>1 DEF Make, TypeOK
  <2>3. [refs[pass[k]] EXCEPT !.tunnel = @ \/ token = "good"] \in Reference
    BY <1>1, <2>2 DEF Reference
  <2>4. refs' \in [References -> Reference]
    BY <2>1, <2>2, <2>3 DEF Make, TypeOK
  <2>5. pass' \in [Kinds -> References \cup {NoReference}]
    BY <2>1 DEF Make, TypeOK
  <2>6. QED
    BY <2>1, <2>4, <2>5 DEF Make, TypeOK
<1>3. CASE \E r \in References : AdoptReference(r)
  <2>1. PICK r \in References : AdoptReference(r)
    BY <1>3
  <2>2. [refs[r] EXCEPT !.finalizer = TRUE] \in Reference
    BY <1>1 DEF Reference
  <2>3. refs' \in [References -> Reference]
    BY <2>1, <2>2 DEF AdoptReference, TypeOK
  <2>4. QED
    BY <2>1, <2>3 DEF AdoptReference, TypeOK
<1>4. CASE \E r \in References : AcceptReference(r)
  <2>1. pass' \in [Kinds -> References \cup {NoReference}]
    BY <1>1, <1>4 DEF AcceptReference, TypeOK
  <2>2. QED
    BY <1>4, <2>1 DEF AcceptReference, TypeOK
<1>5. CASE \E r \in References : FinishReference(r)
  <2>1. [phase |-> "gone", finalizer |-> FALSE, tunnel |-> FALSE] \in Reference
    BY DEF Reference, Phases
  <2>2. refs' \in [References -> Reference]
    BY <1>5, <2>1 DEF FinishReference, TypeOK
  <2>3. QED
    BY <1>5, <2>2 DEF FinishReference, TypeOK
<1>6. CASE \E r \in References : DeliverReference(r)
  <2>1. PICK r \in References : DeliverReference(r)
    BY <1>6
  <2>2. /\ cache'.provider = cache.provider
        /\ cache' \in [provider : Object, refs : [References -> Reference]]
    BY <1>1, <2>1 DEF DeliverReference, TypeOK
  <2>3. QED
    BY <2>1, <2>2 DEF DeliverReference, TypeOK, world
<1>7. QED
  BY <1>2, <1>3, <1>4, <1>5, <1>6 DEF StartReference

\* And everybody else.
LEMMA OthersType ==
  ASSUME TypeOK, DeliverProvider \/ Crash \/ Users
  PROVE  TypeOK'
<1>1. provider \in Object /\ provider.gen \in Nat /\ cache.provider.gen \in Nat /\ changes \in Nat
  BY DEF TypeOK, Object
<1>2. CASE DeliverProvider
  <2>1. /\ cache' \in [provider : Object, refs : [References -> Reference]]
        /\ cache'.provider = provider
    BY <1>1, <1>2 DEF DeliverProvider, TypeOK
  <2>2. QED
    BY <1>1, <1>2, <2>1 DEF DeliverProvider, TypeOK, world
<1>3. CASE Crash
  <2>1. /\ cache' \in [provider : Object, refs : [References -> Reference]]
        /\ cache'.provider = provider
    BY <1>1, <1>3 DEF Crash, TypeOK
  <2>2. pass' \in [Kinds -> References \cup {NoReference}]
    BY <1>3 DEF Crash
  <2>3. QED
    BY <1>1, <1>3, <2>1, <2>2, ValueTypes DEF Crash, Change, TypeOK
<1>4. CASE EditSpec
  <2>1. \A v \in BOOLEAN, g \in Nat :
          /\ [provider EXCEPT !.valid = v, !.gen = g] \in Object
          /\ [provider EXCEPT !.valid = v, !.gen = g].gen = g
    BY <1>1 DEF Object
  <2>2. provider' = [provider EXCEPT !.valid = ~provider.valid, !.gen = provider.gen + 1]
    BY <1>1, <1>4 DEF EditSpec
  <2>3. (~provider.valid) \in BOOLEAN
    OBVIOUS
  <2>4. provider.gen + 1 \in Nat
    BY <1>1
  <2>5. provider' \in Object /\ provider'.gen = provider.gen + 1
    BY <2>1, <2>2, <2>3, <2>4, Zenon
  <2>6. QED
    BY <1>1, <1>4, <2>5 DEF EditSpec, Change, TypeOK
<1>5. CASE DeleteProvider
  <2>1. /\ [provider EXCEPT !.phase = "gone"] \in Object
        /\ \A g \in Nat : [provider EXCEPT !.phase = "deleting", !.gen = g] \in Object
    BY <1>1 DEF Object, Phases
  <2>2. \/ provider' = [provider EXCEPT !.phase = "gone"]
        \/ provider' = [provider EXCEPT !.phase = "deleting", !.gen = provider.gen + 1]
    BY <1>5 DEF DeleteProvider
  <2>3. provider.gen + 1 \in Nat
    BY <1>1
  <2>4. provider' \in Object
    BY <2>1, <2>2, <2>3
  <2>5. provider'.gen \in {provider.gen, provider.gen + 1}
    BY <1>1, <2>2 DEF Object
  <2>6. QED
    BY <1>1, <1>5, <2>4, <2>5 DEF DeleteProvider, TypeOK, world
<1>6. CASE ChangeToken
  BY <1>1, <1>6 DEF ChangeToken, Change, TypeOK
<1>7. CASE \E r \in References : CreateReference(r) \/ DeleteReference(r)
  <2>1. PICK r \in References : CreateReference(r) \/ DeleteReference(r)
    BY <1>7
  <2>2. \A p \in Phases : [refs[r] EXCEPT !.phase = p] \in Reference
    BY DEF TypeOK, Reference
  <2>3. \E p \in Phases : refs' = [refs EXCEPT ![r].phase = p]
    BY <2>1 DEF CreateReference, DeleteReference, Phases
  <2>4. refs' \in [References -> Reference]
    BY <2>2, <2>3 DEF TypeOK
  <2>5. QED
    BY <2>1, <2>4 DEF CreateReference, DeleteReference, TypeOK
<1>8. QED
  BY <1>2, <1>3, <1>4, <1>5, <1>6, <1>7 DEF Users

\* Every variable keeps its type, and the cache never runs ahead of the server.
THEOREM TypeCorrect == Spec => []TypeOK
<1>1. TypeOK /\ [Next]_vars => TypeOK'
  <2>1. ASSUME TypeOK, UNCHANGED vars PROVE TypeOK'
    BY <2>1 DEF TypeOK, vars
  <2>2. QED
    BY <2>1, StepType, ReferenceType, OthersType DEF Next
<1>2. QED
  BY <1>1, InitType, PTL DEF Spec

-----------------------------------------------------------------------------
(* What the conditions say.                                                *)

\* A copy of the provider is of its generation or of an earlier one, and one of
\* the same generation has its spec and shows its deletion.
Going(o) == o.phase \in {"deleting", "gone"}
Copy(o) ==
  /\ o.gen <= provider.gen
  /\ o.gen = provider.gen =>
       o.valid = provider.valid /\ (provider.phase = "deleting" => o.phase # "live")
  /\ Going(o) => Going(provider)
Copies == Copy(cache.provider) /\ (At("idle") \/ Copy(work.obj))

\* A pass judges a provider that is not being deleted, for the generation that
\* it has in memory: deletion is a generation that no condition names.
Verdicts ==
  /\ provider.cond.gen <= provider.gen
  /\ provider.phase = "deleting" => provider.cond.gen < provider.gen
  /\ cache.provider.phase = "deleting" => cache.provider.cond.gen < cache.provider.gen
  /\ At("check") \/ At("patch") => work.obj.phase = "live"
  /\ At("patch") =>
       /\ work.cond.gen = work.obj.gen
       /\ work.cond.accepted = IF work.obj.valid THEN "True" ELSE "False"

JudgedInv == TypeOK /\ Copies /\ Verdicts /\ VerdictOfSpec

\* What becomes of the provider in the steps that change it.
LEMMA ProviderFields ==
  ASSUME TypeOK
  PROVE  /\ AddFinalizer =>
              /\ provider.phase = "live" /\ provider'.finalizer
              /\ provider'.phase = provider.phase /\ provider'.gen = provider.gen
              /\ provider'.valid = provider.valid /\ provider'.cond = provider.cond
         /\ Patch =>
              /\ provider'.finalizer = provider.finalizer
              /\ provider'.phase = provider.phase /\ provider'.gen = provider.gen
              /\ provider'.valid = provider.valid
              /\ provider'.cond \in {provider.cond, work.cond}
         /\ RemoveFinalizer =>
              \/ provider' = provider
              \/ /\ provider = work.obj /\ provider'.phase = "gone"
                 /\ provider'.gen = provider.gen
                 /\ provider'.valid = provider.valid /\ provider'.cond = provider.cond
         /\ EditSpec =>
              /\ provider'.finalizer = provider.finalizer
              /\ provider'.phase = provider.phase /\ provider'.gen = provider.gen + 1
              /\ provider'.cond = provider.cond
         /\ DeleteProvider =>
              /\ provider.phase = "live" /\ provider'.finalizer = provider.finalizer
              /\ provider'.valid = provider.valid /\ provider'.cond = provider.cond
              /\ \/ /\ provider.finalizer /\ provider'.phase = "deleting"
                    /\ provider'.gen = provider.gen + 1
                 \/ /\ ~provider.finalizer /\ provider'.phase = "gone"
                    /\ provider'.gen = provider.gen
<1>1. provider \in Object
  BY DEF TypeOK
<1>2. ASSUME AddFinalizer
      PROVE  /\ provider.phase = "live" /\ provider'.finalizer
             /\ provider'.phase = provider.phase /\ provider'.gen = provider.gen
             /\ provider'.valid = provider.valid /\ provider'.cond = provider.cond
  BY <1>1, <1>2 DEF AddFinalizer, Object
<1>3. ASSUME Patch
      PROVE  /\ provider'.finalizer = provider.finalizer
             /\ provider'.phase = provider.phase /\ provider'.gen = provider.gen
             /\ provider'.valid = provider.valid
             /\ provider'.cond \in {provider.cond, work.cond}
  BY <1>1, <1>3 DEF Patch, Object
<1>4. ASSUME RemoveFinalizer, provider' # provider
      PROVE  /\ provider = work.obj /\ provider'.phase = "gone"
             /\ provider'.gen = provider.gen
             /\ provider'.valid = provider.valid /\ provider'.cond = provider.cond
  BY <1>1, <1>4 DEF RemoveFinalizer, Object
<1>5. ASSUME EditSpec
      PROVE  /\ provider'.finalizer = provider.finalizer
             /\ provider'.phase = provider.phase /\ provider'.gen = provider.gen + 1
             /\ provider'.cond = provider.cond
  BY <1>1, <1>5 DEF EditSpec, Object
<1>6. ASSUME DeleteProvider
      PROVE  /\ provider.phase = "live" /\ provider'.finalizer = provider.finalizer
             /\ provider'.valid = provider.valid /\ provider'.cond = provider.cond
             /\ \/ /\ provider.finalizer /\ provider'.phase = "deleting"
                   /\ provider'.gen = provider.gen + 1
                \/ /\ ~provider.finalizer /\ provider'.phase = "gone"
                   /\ provider'.gen = provider.gen
  BY <1>1, <1>6 DEF DeleteProvider, Object
<1>7. QED
  BY <1>2, <1>3, <1>4, <1>5, <1>6

\* What becomes of the worker.
LEMMA WorkFields ==
  ASSUME TypeOK
  PROVE  /\ Start => /\ At("idle") /\ Present(cache.provider) /\ cache.provider.finalizer
                     /\ work'.obj = cache.provider
                     /\ work'.pc = IF cache.provider.phase = "deleting" THEN "listBindings"
                                   ELSE "check"
         /\ Check => /\ At("check") /\ work'.pc = "patch" /\ work'.obj = work.obj
                     /\ work'.cond.gen = work.obj.gen
                     /\ work'.cond.accepted = IF work.obj.valid THEN "True" ELSE "False"
         /\ Patch => At("patch") /\ work'.pc = "idle"
         /\ ListBindings => /\ At("listBindings") /\ work'.pc \in {"listRoutes", "idle"}
                            /\ At("idle")' \/ work'.obj = work.obj
         /\ ListRoutes => /\ At("listRoutes") /\ work'.pc \in {"removeFinalizer", "idle"}
                          /\ At("idle")' \/ work'.obj = work.obj
         /\ RemoveFinalizer => At("removeFinalizer") /\ work'.pc = "idle"
<1>1. work \in Worker
  BY DEF TypeOK
<1>2. \A pc : Goto(pc) => work'.pc = pc /\ (pc # "idle" => work'.obj = work.obj)
  BY <1>1 DEF Goto, Worker, Idle
<1>3. \A a, d : Judge(a, d) =>
        /\ work'.pc = "patch" /\ work'.obj = work.obj
        /\ work'.cond.gen = work.obj.gen /\ work'.cond.accepted = a
  BY <1>1 DEF Judge, Worker
<1>4. Start => /\ At("idle") /\ Present(cache.provider) /\ cache.provider.finalizer
               /\ work'.obj = cache.provider
               /\ work'.pc = IF cache.provider.phase = "deleting" THEN "listBindings" ELSE "check"
  BY DEF Start, Idle
<1>5. Check => /\ At("check") /\ work'.pc = "patch" /\ work'.obj = work.obj
               /\ work'.cond.gen = work.obj.gen
               /\ work'.cond.accepted = IF work.obj.valid THEN "True" ELSE "False"
  BY <1>3 DEF Check
<1>6. Patch => At("patch") /\ work'.pc = "idle"
  BY <1>2 DEF Patch
<1>7. ListBindings => /\ At("listBindings") /\ work'.pc \in {"listRoutes", "idle"}
                      /\ At("idle")' \/ work'.obj = work.obj
  BY <1>2 DEF ListBindings, At
<1>8. ListRoutes => /\ At("listRoutes") /\ work'.pc \in {"removeFinalizer", "idle"}
                    /\ At("idle")' \/ work'.obj = work.obj
  BY <1>2 DEF ListRoutes, At
<1>9. RemoveFinalizer => At("removeFinalizer") /\ work'.pc = "idle"
  BY <1>2 DEF RemoveFinalizer
<1>10. QED
  BY <1>4, <1>5, <1>6, <1>7, <1>8, <1>9

\* The other steps leave both alone.
LEMMA ElsewhereSteps ==
  ASSUME TypeOK,
         \/ ChangeToken
         \/ \E k \in Kinds : Make(k)
         \/ \E r \in References : \/ StartReference(r) \/ DeliverReference(r)
                                  \/ CreateReference(r) \/ DeleteReference(r)
  PROVE  provider' = provider /\ work' = work /\ cache'.provider = cache.provider
<1>1. \A r \in References : DeliverReference(r) => cache'.provider = cache.provider
  BY DEF DeliverReference, TypeOK
<1>2. QED
  BY <1>1 DEF ChangeToken, Make, StartReference, AdoptReference, AcceptReference,
              FinishReference, DeliverReference, CreateReference, DeleteReference, world

\* The generations that copies are of stay behind the provider.
LEMMA StepCopies ==
  ASSUME JudgedInv, Next
  PROVE  Copies'
<1>1. /\ TypeOK /\ provider.gen \in Nat /\ cache.provider.gen \in Nat /\ work.obj.gen \in Nat
      /\ Copies /\ Verdicts
  BY DEF JudgedInv, TypeOK, Object, Worker
<1>2. CASE AddFinalizer \/ Patch \/ RemoveFinalizer \/ EditSpec \/ DeleteProvider
  <2>1. cache'.provider = cache.provider /\ (work' = work \/ At("idle")')
    BY <1>1, <1>2, WorkFields
    DEF AddFinalizer, Patch, RemoveFinalizer, EditSpec, DeleteProvider, world, At
  <2>2. provider'.gen \in {provider.gen, provider.gen + 1}
    BY <1>1, <1>2, ProviderFields
  <2>3. provider'.gen = provider.gen => provider'.valid = provider.valid
    BY <1>1, <1>2, ProviderFields
  <2>4. provider'.gen = provider.gen => (provider'.phase = "deleting" => provider.phase = "deleting")
    BY <1>1, <1>2, ProviderFields
  <2>5. Going(provider) => Going(provider')
    BY <1>1, <1>2, ProviderFields DEF Going
  <2>6. Copy(cache.provider)'
    BY <1>1, <2>1, <2>2, <2>3, <2>4, <2>5 DEF Copies, Copy, Going
  <2>7. work' = work /\ ~At("idle") => Copy(work.obj)'
    BY <1>1, <2>2, <2>3, <2>4, <2>5 DEF Copies, Copy, Going
  <2>8. QED
    BY <2>1, <2>6, <2>7 DEF Copies, At
<1>3. CASE Start \/ Check \/ ListBindings \/ ListRoutes
  <2>1. UNCHANGED <<provider, cache>>
    BY <1>3 DEF Start, Check, ListBindings, ListRoutes
  <2>2. At("idle")' \/ work'.obj = cache.provider \/ (work'.obj = work.obj /\ ~At("idle"))
    BY <1>1, <1>3, WorkFields DEF At
  <2>3. QED
    BY <1>1, <2>1, <2>2 DEF Copies, Copy, Going
<1>4. CASE DeliverProvider \/ Crash
  <2>1. /\ provider' = provider /\ cache'.provider = provider
        /\ work' = work \/ At("idle")'
    BY <1>1, <1>4 DEF DeliverProvider, Crash, TypeOK, Idle, At, world
  <2>2. QED
    BY <1>1, <2>1 DEF Copies, Copy, Going, At
<1>5. CASE provider' = provider /\ work' = work /\ cache'.provider = cache.provider
  BY <1>1, <1>5 DEF Copies, Copy, Going, At
<1>6. QED
  BY <1>1, <1>2, <1>3, <1>4, <1>5, ElsewhereSteps DEF Next, Step, Users

\* So do the conditions, and they are right about the generation they name.
LEMMA StepVerdicts ==
  ASSUME JudgedInv, Next
  PROVE  Verdicts' /\ VerdictOfSpec'
<1>1. /\ TypeOK /\ Copies /\ Verdicts /\ VerdictOfSpec
      /\ provider.gen \in Nat /\ cache.provider.gen \in Nat /\ work.obj.gen \in Nat
      /\ provider.cond.gen \in Nat
  BY DEF JudgedInv, TypeOK, Object, Conditions, Worker
<1>2. CASE AddFinalizer \/ RemoveFinalizer \/ EditSpec \/ DeleteProvider
  <2>1. cache'.provider = cache.provider /\ (work' = work \/ At("idle")')
    BY <1>1, <1>2, WorkFields
    DEF AddFinalizer, RemoveFinalizer, EditSpec, DeleteProvider, world, At
  <2>2. /\ provider'.cond = provider.cond
        /\ \/ provider'.gen = provider.gen + 1
           \/ /\ provider'.gen = provider.gen /\ provider'.valid = provider.valid
              /\ provider'.phase = "deleting" => provider.phase = "deleting"
    BY <1>1, <1>2, ProviderFields
  <2>3. QED
    BY <1>1, <2>1, <2>2 DEF Verdicts, VerdictOfSpec, At
<1>3. CASE Patch
  <2>1. cache' = cache /\ At("patch") /\ At("idle")'
    BY <1>1, <1>3, WorkFields DEF Patch, At
  <2>2. /\ provider'.phase = provider.phase /\ provider'.gen = provider.gen
        /\ provider'.valid = provider.valid /\ provider'.cond \in {provider.cond, work.cond}
    BY <1>1, <1>3, ProviderFields
  <2>3. /\ work.cond.gen = work.obj.gen /\ work.obj.phase = "live" /\ Copy(work.obj)
        /\ work.cond.accepted = IF work.obj.valid THEN "True" ELSE "False"
    BY <1>1, <2>1 DEF Copies, Verdicts, At
  <2>4. /\ work.cond.gen <= provider.gen
        /\ provider.phase = "deleting" => work.cond.gen < provider.gen
        /\ work.cond.gen = provider.gen =>
             work.cond.accepted = IF provider.valid THEN "True" ELSE "False"
    BY <1>1, <2>3 DEF Copy
  <2>5. QED
    BY <1>1, <2>1, <2>2, <2>4 DEF Verdicts, VerdictOfSpec, At
<1>4. CASE Start \/ Check \/ ListBindings \/ ListRoutes
  <2>1. UNCHANGED <<provider, cache>>
    BY <1>4 DEF Start, Check, ListBindings, ListRoutes
  <2>2. At("check")' => work'.obj.phase = "live"
    BY <1>1, <1>4, WorkFields DEF At, Present
  <2>3. At("patch")' =>
          /\ work'.obj.phase = "live" /\ work'.cond.gen = work'.obj.gen
          /\ work'.cond.accepted = IF work'.obj.valid THEN "True" ELSE "False"
    BY <1>1, <1>4, WorkFields DEF At, Verdicts
  <2>4. QED
    BY <1>1, <2>1, <2>2, <2>3 DEF Verdicts, VerdictOfSpec, At
<1>5. CASE DeliverProvider \/ Crash
  <2>1. /\ provider' = provider /\ cache'.provider = provider
        /\ work' = work \/ At("idle")'
    BY <1>1, <1>5 DEF DeliverProvider, Crash, TypeOK, Idle, At, world
  <2>2. QED
    BY <1>1, <2>1 DEF Verdicts, VerdictOfSpec, At
<1>6. CASE provider' = provider /\ work' = work /\ cache'.provider = cache.provider
  BY <1>1, <1>6 DEF Verdicts, VerdictOfSpec, At
<1>7. QED
  BY <1>1, <1>2, <1>3, <1>4, <1>5, <1>6, ElsewhereSteps DEF Next, Step, Users

\* The invariant is inductive.
LEMMA Judged == Spec => []JudgedInv
<1>1. Init => JudgedInv
  BY InitType DEF Init, JudgedInv, Copies, Copy, Going, Verdicts, VerdictOfSpec, At, Idle, NewObject
<1>2. JudgedInv /\ [Next]_vars => JudgedInv'
  <2>1. ASSUME JudgedInv, UNCHANGED vars PROVE JudgedInv'
    BY <2>1 DEF JudgedInv, TypeOK, Copies, Copy, Going, Verdicts, VerdictOfSpec, At, vars
  <2>2. ASSUME JudgedInv, Next PROVE TypeOK'
    BY <2>2, StepType, ReferenceType, OthersType DEF JudgedInv, Next
  <2>3. QED
    BY <2>1, <2>2, StepCopies, StepVerdicts DEF JudgedInv
<1>3. QED
  BY <1>1, <1>2, PTL DEF Spec

\* Accepted is about the spec that the generation beside it names, though a
\* pass that judged an older spec may patch the status of the newer one.
THEOREM VerdictIsOfSpec == Spec => []VerdictOfSpec
<1>1. JudgedInv => VerdictOfSpec
  BY DEF JudgedInv
<1>2. QED
  BY <1>1, Judged, PTL

-----------------------------------------------------------------------------
(* What the finalizer protects.                                            *)

\* A reference that a worker makes a tunnel for, or that has one, carries its
\* own finalizer and is in the cache.
Guarded(r) == Present(refs[r]) /\ refs[r].finalizer
Held ==
  \A r \in References :
    /\ cache.refs[r].phase = "live" /\ cache.refs[r].finalizer => Guarded(r)
    /\ refs[r].tunnel \/ pass[KindOf(r)] = r => Guarded(r) /\ Present(cache.refs[r])

\* A worker of either controller works for references of its kind.
Kinded == \A k \in Kinds : pass[k] # NoReference => KindOf(pass[k]) = k

\* No reference of a kind has a tunnel, or is about to get one.
Unclaimed(k) ==
  pass[k] = NoReference /\ \A r \in References : KindOf(r) = k => ~refs[r].tunnel

\* A provider that does not carry the finalizer has never been judged.
Unguarded ==
  provider.phase = "live" /\ ~provider.finalizer =>
    /\ At("idle") /\ ~cache.provider.finalizer
    /\ provider.cond.accepted = "unset" /\ cache.provider.cond.accepted = "unset"
    /\ \A k \in Kinds : Unclaimed(k)

\* finalize works from a cache that shows the deletion, so that what it did not
\* find there does not come afterwards.
Finalizing ==
  /\ work.pc \in {"listBindings", "listRoutes", "removeFinalizer"} =>
       work.obj.phase = "deleting" /\ Going(cache.provider)
  /\ work.pc \in {"listRoutes", "removeFinalizer"} => Unclaimed("binding")
  /\ At("removeFinalizer") => Unclaimed("route")

\* Neither does anything come when the provider is gone.
Released ==
  provider.phase = "gone" => ~Ready(cache.provider) /\ \A k \in Kinds : Unclaimed(k)

ReleasedInv == JudgedInv /\ Held /\ Kinded /\ Unguarded /\ Finalizing /\ Released

\* A provider whose deletion the cache shows is not ready for references.
LEMMA GoingNotReady ==
  ASSUME JudgedInv, Going(cache.provider)
  PROVE  ~Ready(cache.provider)
<1>1. /\ cache.provider.phase = "deleting" => cache.provider.cond.gen < cache.provider.gen
      /\ cache.provider.gen \in Nat
  BY DEF JudgedInv, Verdicts, TypeOK, Object
<1>2. QED
  BY <1>1 DEF Going, Ready, Present

\* Nobody takes up a reference while the provider is not ready for it, so
\* that what is not claimed stays so.
LEMMA StaysUnclaimed ==
  ASSUME TypeOK, Kinded, Next, NEW k \in Kinds, Unclaimed(k), ~Ready(cache.provider)
  PROVE  Unclaimed(k)'
<1>1. /\ \A r \in References : refs[r] \in Reference /\ KindOf(r) \in Kinds
      /\ pass[k] = NoReference /\ \A r \in References : KindOf(r) = k => ~refs[r].tunnel
  BY DEF TypeOK, KindOf, Kinds, Unclaimed
<1>2. CASE UNCHANGED <<refs, pass>>
  BY <1>1, <1>2 DEF Unclaimed
<1>3. CASE \E j \in Kinds : Make(j)
  <2>1. PICK j \in Kinds : Make(j)
    BY <1>3
  <2>2. j # k /\ pass[j] # NoReference
    BY <1>1, <2>1 DEF Make
  <2>3. pass'[k] = NoReference
    BY <1>1, <2>1, <2>2 DEF Make, TypeOK
  <2>4. \A r \in References : r # pass[j] => refs'[r] = refs[r]
    BY <2>1 DEF Make, TypeOK
  <2>5. QED
    BY <1>1, <2>2, <2>3, <2>4 DEF Kinded, Unclaimed
<1>4. CASE \E r \in References : AdoptReference(r) \/ CreateReference(r) \/ DeleteReference(r)
  <2>1. UNCHANGED pass /\ \A r \in References : refs'[r].tunnel = refs[r].tunnel
    BY <1>1, <1>4 DEF AdoptReference, CreateReference, DeleteReference, TypeOK, Reference
  <2>2. QED
    BY <1>1, <2>1 DEF Unclaimed
<1>5. CASE \E r \in References : FinishReference(r)
  <2>1. UNCHANGED pass /\ \A r \in References : ~refs[r].tunnel => ~refs'[r].tunnel
    BY <1>5 DEF FinishReference, TypeOK
  <2>2. QED
    BY <1>1, <2>1 DEF Unclaimed
<1>6. CASE Crash
  BY <1>1, <1>6 DEF Crash, Unclaimed
<1>7. QED
  BY <1>2, <1>3, <1>4, <1>5, <1>6
  DEF Next, Start, AddFinalizer, Step, Check, Patch, ListBindings, ListRoutes, RemoveFinalizer,
      DeliverProvider, Users, EditSpec, DeleteProvider, ChangeToken, StartReference,
      AcceptReference, DeliverReference, world

\* What a reference and its cached copy may become.
LEMMA StepHeld ==
  ASSUME TypeOK, Held, Kinded, Next
  PROVE  Held' /\ Kinded'
<1>1. /\ \A r \in References : /\ refs[r] \in Reference /\ cache.refs[r] \in Reference
                               /\ KindOf(r) \in Kinds
      /\ NoReference \notin References
  BY KindAssumption DEF TypeOK, KindOf, Kinds
<1>2. CASE UNCHANGED <<refs, pass>> /\ cache'.refs = cache.refs
  BY <1>2 DEF Held, Kinded, Guarded
<1>3. CASE \E k \in Kinds : Make(k)
  <2>1. PICK k \in Kinds : Make(k)
    BY <1>3
  <2>2. pass[k] \in References /\ KindOf(pass[k]) = k
    BY <2>1 DEF Make, TypeOK, Kinded
  <2>3. /\ UNCHANGED cache
        /\ \A r \in References : /\ refs'[r].phase = refs[r].phase
                                 /\ refs'[r].finalizer = refs[r].finalizer
                                 /\ r # pass[k] => refs'[r].tunnel = refs[r].tunnel
        /\ \A j \in Kinds : pass'[j] \in {pass[j], NoReference}
    BY <1>1, <2>1, <2>2 DEF Make, TypeOK, Reference
  <2>4. Guarded(pass[k]) /\ Present(cache.refs[pass[k]])
    BY <2>2 DEF Held
  <2>5. Kinded'
    BY <2>3 DEF Kinded
  <2>6. ASSUME NEW r \in References
        PROVE  /\ cache'.refs[r].phase = "live" /\ cache'.refs[r].finalizer => Guarded(r)'
               /\ refs'[r].tunnel \/ pass'[KindOf(r)] = r => Guarded(r)' /\ Present(cache'.refs[r])
    <3>1. Guarded(r) => Guarded(r)'
      BY <2>3, <2>6 DEF Guarded, Present
    <3>2. pass'[KindOf(r)] = r => pass[KindOf(r)] = r
      BY <1>1, <2>3, <2>6
    <3>3. QED
      BY <2>3, <2>4, <2>6, <3>1, <3>2 DEF Held
  <2>7. QED
    BY <2>5, <2>6 DEF Held
<1>4. CASE \E r \in References : AdoptReference(r) \/ CreateReference(r) \/ DeleteReference(r)
  <2>1. /\ UNCHANGED <<cache, pass>>
        /\ \A r \in References :
             /\ refs'[r].tunnel = refs[r].tunnel
             /\ Present(refs[r]) /\ refs[r].finalizer => Present(refs'[r]) /\ refs'[r].finalizer
    BY <1>1, <1>4
    DEF AdoptReference, CreateReference, DeleteReference, TypeOK, Reference, Present
  <2>2. QED
    BY <2>1 DEF Held, Kinded, Guarded
<1>5. CASE \E r \in References : AcceptReference(r)
  <2>1. PICK r \in References : AcceptReference(r)
    BY <1>5
  <2>2. /\ UNCHANGED <<cache, refs>> /\ cache.refs[r].phase = "live" /\ cache.refs[r].finalizer
        /\ pass'[KindOf(r)] = r /\ \A k \in Kinds \ {KindOf(r)} : pass'[k] = pass[k]
    BY <1>1, <2>1 DEF AcceptReference, TypeOK
  <2>3. QED
    BY <1>1, <2>2 DEF Held, Kinded, Guarded, Present
<1>6. CASE \E r \in References : FinishReference(r)
  <2>1. PICK r \in References : FinishReference(r)
    BY <1>6
  <2>2. /\ UNCHANGED <<cache, pass>> /\ cache.refs[r].phase = "deleting"
        /\ pass[KindOf(r)] = NoReference /\ ~refs'[r].tunnel
        /\ \A s \in References \ {r} : refs'[s] = refs[s]
    BY <1>1, <2>1 DEF FinishReference, TypeOK
  <2>3. QED
    BY <1>1, <2>2 DEF Held, Kinded, Guarded
<1>7. CASE Crash \/ \E r \in References : DeliverReference(r)
  <2>1. /\ UNCHANGED refs
        /\ \A r \in References : cache'.refs[r] \in {cache.refs[r], refs[r]}
        /\ \A k \in Kinds : pass'[k] \in {pass[k], NoReference}
    BY <1>1, <1>7 DEF Crash, DeliverReference, TypeOK, world
  <2>2. QED
    BY <1>1, <2>1 DEF Held, Kinded, Guarded, Present
<1>8. CASE DeliverProvider
  <2>1. UNCHANGED <<refs, pass>> /\ cache'.refs = cache.refs
    BY <1>8 DEF DeliverProvider, TypeOK, world
  <2>2. QED
    BY <1>2, <2>1
<1>9. QED
  BY <1>2, <1>3, <1>4, <1>5, <1>6, <1>7, <1>8
  DEF Next, Start, AddFinalizer, Step, Check, Patch, ListBindings, ListRoutes, RemoveFinalizer,
      Users, EditSpec, DeleteProvider, ChangeToken, StartReference, world

\* What finalize found nothing of in the cache is not there.
LEMMA ListedAreClaimed ==
  ASSUME TypeOK, Held, Kinded
  PROVE  /\ Listed(Bindings) = {} => Unclaimed("binding")
         /\ Listed(PrivateRoutes) = {} => Unclaimed("route")
<1>1. /\ \A r \in References : KindOf(r) = "binding" <=> r \in Bindings
      /\ \A r \in References : KindOf(r) = "route" <=> r \in PrivateRoutes
      /\ References = Bindings \cup PrivateRoutes
  BY KindAssumption DEF KindOf, References
<1>2. \A k \in Kinds, r \in References :
        KindOf(r) = k /\ (refs[r].tunnel \/ pass[k] = r) => Present(cache.refs[r])
  BY DEF Held
<1>3. \A k \in Kinds : pass[k] \in References \cup {NoReference}
  BY DEF TypeOK
<1>4. \A k \in Kinds :
        (\A r \in References : KindOf(r) = k => ~Present(cache.refs[r])) => Unclaimed(k)
  BY <1>2, <1>3 DEF Kinded, Unclaimed
<1>5. QED
  BY <1>1, <1>4 DEF Listed, Kinds

\* A provider without its finalizer stays unjudged, and one that goes so needs
\* no protection.
LEMMA StepUnguarded ==
  ASSUME ReleasedInv, Next
  PROVE  Unguarded'
<1>1. JudgedInv /\ TypeOK /\ Kinded /\ Unguarded
  BY DEF ReleasedInv, JudgedInv
<1>2. SUFFICES ASSUME provider'.phase = "live", ~provider'.finalizer
               PROVE  /\ At("idle")' /\ ~cache'.provider.finalizer
                      /\ provider'.cond.accepted = "unset"
                      /\ cache'.provider.cond.accepted = "unset"
                      /\ \A k \in Kinds : Unclaimed(k)'
  BY DEF Unguarded
<1>3. ~AddFinalizer /\ ~DeleteProvider
  BY <1>1, <1>2, ProviderFields
<1>4. provider.phase = "live" /\ ~provider.finalizer
  <2>1. CASE UNCHANGED provider
    BY <1>2, <2>1
  <2>2. CASE Patch \/ RemoveFinalizer \/ EditSpec
    BY <1>1, <1>2, <2>2, ProviderFields
  <2>3. QED
    BY <1>1, <1>3, <2>1, <2>2, ElsewhereSteps
    DEF Next, Start, Step, Check, ListBindings, ListRoutes, DeliverProvider, Crash, Users
<1>5. /\ At("idle") /\ ~cache.provider.finalizer /\ provider.cond.accepted = "unset"
      /\ cache.provider.cond.accepted = "unset" /\ \A k \in Kinds : Unclaimed(k)
  BY <1>1, <1>4 DEF Unguarded
<1>6. ~Ready(cache.provider)
  <2>1. "True" # "unset"
    OBVIOUS
  <2>2. QED
    BY <1>5, <2>1 DEF Ready
<1>7. \A k \in Kinds : Unclaimed(k)'
  BY <1>1, <1>5, <1>6, StaysUnclaimed
<1>8. ~Start /\ ~Step
  BY <1>1, <1>5, WorkFields DEF Step, At
<1>9. At("idle")' /\ provider'.cond = provider.cond /\ cache'.provider \in {cache.provider, provider}
  <2>1. CASE DeliverProvider \/ Crash
    BY <1>1, <1>5, <2>1 DEF DeliverProvider, Crash, TypeOK, Idle, At, world
  <2>2. CASE EditSpec
    BY <1>1, <1>5, <2>2, ProviderFields DEF EditSpec, At
  <2>3. CASE provider' = provider /\ work' = work /\ cache'.provider = cache.provider
    BY <1>5, <2>3 DEF At
  <2>4. QED
    BY <1>1, <1>3, <1>8, <2>1, <2>2, <2>3, ElsewhereSteps DEF Next, Users
<1>10. QED
  BY <1>4, <1>5, <1>7, <1>9

\* finalize goes on only without references, and none comes after that.
LEMMA StepFinalizing ==
  ASSUME ReleasedInv, Next
  PROVE  Finalizing'
<1>1. JudgedInv /\ TypeOK /\ Copies /\ Held /\ Kinded /\ Finalizing
  BY DEF ReleasedInv, JudgedInv
<1> DEFINE Listing == {"listBindings", "listRoutes", "removeFinalizer"}
<1>2. SUFFICES ASSUME work'.pc \in Listing
               PROVE  /\ work'.obj.phase = "deleting" /\ Going(cache'.provider)
                      /\ work'.pc \in {"listRoutes", "removeFinalizer"} => Unclaimed("binding")'
                      /\ work'.pc = "removeFinalizer" => Unclaimed("route")'
  BY DEF Finalizing, At
<1>3. ~Check /\ ~Patch /\ ~RemoveFinalizer /\ ~Crash
  BY <1>1, <1>2, WorkFields DEF Crash, Idle
<1>4. CASE Start
  <2>1. /\ work'.pc = "listBindings" /\ work'.obj = cache.provider
        /\ cache.provider.phase = "deleting" /\ UNCHANGED cache
    BY <1>1, <1>2, <1>4, WorkFields DEF Start
  <2>2. QED
    BY <2>1 DEF Going
<1>5. CASE ~Start
  <2>1. /\ work'.obj = work.obj /\ work.pc \in Listing
        /\ \/ work'.pc = work.pc
           \/ ListBindings /\ work'.pc = "listRoutes"
           \/ ListRoutes /\ work'.pc = "removeFinalizer"
    <3>1. CASE ListBindings
      BY <1>1, <1>2, <3>1, WorkFields DEF At
    <3>2. CASE ListRoutes
      BY <1>1, <1>2, <3>2, WorkFields DEF At
    <3>3. CASE work' = work
      BY <1>2, <3>3
    <3>4. QED
      BY <1>1, <1>3, <1>5, <3>1, <3>2, <3>3, ElsewhereSteps
      DEF Next, Step, AddFinalizer, DeliverProvider, Users, EditSpec, DeleteProvider, world
  <2>2. work.obj.phase = "deleting" /\ Going(cache.provider)
    BY <1>1, <2>1 DEF Finalizing
  <2>3. Going(provider)
    BY <1>1, <2>2 DEF Copies, Copy
  <2>4. cache'.provider \in {cache.provider, provider}
    <3>1. CASE DeliverProvider
      BY <1>1, <3>1 DEF DeliverProvider, TypeOK
    <3>2. QED
      BY <1>1, <1>3, <1>5, <3>1, ElsewhereSteps
      DEF Next, Step, ListBindings, ListRoutes, AddFinalizer, Users, EditSpec, DeleteProvider, world
  <2>5. \A k \in Kinds : Unclaimed(k) => Unclaimed(k)'
    BY <1>1, <2>2, GoingNotReady, StaysUnclaimed
  <2>6. work'.pc \in {"listRoutes", "removeFinalizer"} => Unclaimed("binding")'
    <3>1. ListBindings /\ work'.pc = "listRoutes" => Listed(Bindings) = {}
      BY DEF ListBindings, Goto, Idle
    <3>2. ListRoutes => At("listRoutes")
      BY DEF ListRoutes
    <3>3. work'.pc \in {"listRoutes", "removeFinalizer"} => Unclaimed("binding")
      BY <1>1, <2>1, <3>1, <3>2, ListedAreClaimed DEF Finalizing, At
    <3>4. QED
      BY <2>5, <3>3 DEF Kinds
  <2>7. work'.pc = "removeFinalizer" => Unclaimed("route")'
    <3>1. ListRoutes /\ work'.pc = "removeFinalizer" => Listed(PrivateRoutes) = {}
      BY DEF ListRoutes, Goto, Idle
    <3>2. work'.pc = "removeFinalizer" => Unclaimed("route")
      BY <1>1, <2>1, <3>1, ListedAreClaimed DEF Finalizing, At
    <3>3. QED
      BY <2>5, <3>2 DEF Kinds
  <2>8. QED
    BY <2>1, <2>2, <2>3, <2>4, <2>6, <2>7
<1>6. QED
  BY <1>4, <1>5

\* The provider goes when nothing needs it, and nothing needs it afterwards.
LEMMA StepReleased ==
  ASSUME ReleasedInv, Next
  PROVE  Released'
<1>1. /\ JudgedInv /\ TypeOK /\ Kinded /\ Unguarded /\ Finalizing /\ Released
  BY DEF ReleasedInv, JudgedInv
<1>2. SUFFICES ASSUME provider'.phase = "gone"
               PROVE  ~Ready(cache'.provider) /\ \A k \in Kinds : Unclaimed(k)'
  BY DEF Released
<1>3. ~Ready(cache.provider) /\ \A k \in Kinds : Unclaimed(k)
  <2>1. CASE provider.phase = "gone"
    BY <1>1, <2>1 DEF Released
  <2>2. CASE provider.phase # "gone" /\ DeleteProvider
    <3>1. provider.phase = "live" /\ ~provider.finalizer
      BY <1>1, <1>2, <2>2, ProviderFields
    <3>2. cache.provider.cond.accepted = "unset" /\ \A k \in Kinds : Unclaimed(k)
      BY <1>1, <3>1 DEF Unguarded
    <3>3. "True" # "unset"
      OBVIOUS
    <3>4. QED
      BY <3>2, <3>3 DEF Ready
  <2>3. CASE provider.phase # "gone" /\ RemoveFinalizer
    <3>1. At("removeFinalizer")
      BY <2>3 DEF RemoveFinalizer
    <3>2. Going(cache.provider) /\ Unclaimed("binding") /\ Unclaimed("route")
      BY <1>1, <3>1 DEF Finalizing, At
    <3>3. QED
      BY <1>1, <3>2, GoingNotReady DEF Kinds
  <2>4. provider.phase # "gone" => DeleteProvider \/ RemoveFinalizer
    <3>1. ~UNCHANGED provider \/ provider.phase = "gone"
      BY <1>2
    <3>2. AddFinalizer \/ Patch \/ EditSpec => provider'.phase = provider.phase
      BY <1>1, ProviderFields
    <3>3. QED
      BY <1>1, <1>2, <3>1, <3>2, ElsewhereSteps
      DEF Next, Start, Step, Check, ListBindings, ListRoutes, DeliverProvider, Crash, Users
  <2>5. QED
    BY <2>1, <2>2, <2>3, <2>4
<1>4. \A k \in Kinds : Unclaimed(k)'
  BY <1>1, <1>3, StaysUnclaimed
<1>5. cache'.provider \in {cache.provider, provider'}
  BY <1>1, ElsewhereSteps
  DEF Next, Start, AddFinalizer, Step, Check, Patch, ListBindings, ListRoutes, RemoveFinalizer,
      DeliverProvider, Crash, Users, EditSpec, DeleteProvider, TypeOK, world
<1>6. QED
  BY <1>2, <1>3, <1>4, <1>5 DEF Ready, Present

\* The invariant is inductive.
LEMMA ReleasedAlways == Spec => []ReleasedInv
<1>1. Init => Held /\ Kinded /\ Unguarded /\ Finalizing /\ Released
  <2>1. SUFFICES ASSUME Init PROVE Held /\ Kinded /\ Unguarded /\ Finalizing /\ Released
    OBVIOUS
  <2>2. /\ provider.phase = "live" /\ provider.cond.accepted = "unset" /\ ~provider.finalizer
        /\ cache.provider = provider /\ work.pc = "idle"
    BY <2>1 DEF Init, NewObject, Idle
  <2>3. /\ \A r \in References : /\ ~refs[r].tunnel /\ KindOf(r) \in Kinds
                                 /\ ~cache.refs[r].finalizer
        /\ \A k \in Kinds : pass[k] = NoReference
    BY <2>1 DEF Init, NewReference, KindOf, Kinds
  <2>4. \A k \in Kinds : Unclaimed(k)
    BY <2>3 DEF Unclaimed
  <2>5. QED
    BY <2>2, <2>3, <2>4, KindAssumption DEF Held, Kinded, Unguarded, Finalizing, Released, At
<1>2. JudgedInv /\ JudgedInv' /\ Held /\ Kinded /\ Unguarded /\ Finalizing /\ Released /\ [Next]_vars
        => (Held /\ Kinded /\ Unguarded /\ Finalizing /\ Released)'
  <2>1. ASSUME ReleasedInv, UNCHANGED vars
        PROVE  (Held /\ Kinded /\ Unguarded /\ Finalizing /\ Released)'
    BY <2>1
    DEF ReleasedInv, Held, Kinded, Unguarded, Finalizing, Released, Guarded, Unclaimed, Ready,
        Going, Present, At, vars
  <2>2. ASSUME ReleasedInv, Next PROVE Held' /\ Kinded'
    BY <2>2, StepHeld DEF ReleasedInv, JudgedInv
  <2>3. QED
    BY <2>1, <2>2, StepUnguarded, StepFinalizing, StepReleased DEF ReleasedInv
<1>3. QED
  BY <1>1, <1>2, Judged, PTL DEF Spec, ReleasedInv

\* A provider that is gone leaves no reference with a tunnel: the lists that
\* finalize takes from the cache are enough, though no pass looks whether the
\* provider is being deleted.
THEOREM ProviderProtects == Spec => []Protected
<1>1. ReleasedInv => Protected
  <2>1. SUFFICES ASSUME ReleasedInv, provider.phase = "gone", NEW r \in References
                 PROVE  ~refs[r].tunnel
    BY DEF Protected
  <2>2. Unclaimed(KindOf(r))
    BY <2>1 DEF ReleasedInv, Released, KindOf, Kinds
  <2>3. QED
    BY <2>2 DEF Unclaimed
<1>2. QED
  BY <1>1, ReleasedAlways, PTL
=============================================================================
