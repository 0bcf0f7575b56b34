------------------------------ MODULE Provider ------------------------------
(***************************************************************************)
(* The ClusterCloudflareProvider controller                                *)
(* (internal/controller/clustercloudflareprovider_controller.go) together  *)
(* with the bindings and private routes that refer to the provider.  Their *)
(* two controllers run in the same process and read the same informer      *)
(* cache; of their passes only what meets the provider is kept here, the   *)
(* rest is in TunnelBinding and PrivateRoute.                              *)
(***************************************************************************)
EXTENDS Naturals

CONSTANTS
  Bindings,       \* CloudflareTunnelBindings that name the provider
  PrivateRoutes,  \* CloudflareTunnelPrivateRoutes that name it
  NoReference,    \* a worker of their controllers is idle
  MaxChanges      \* bound: changes of the spec and of the token, failed calls,
                  \* lost responses and crashes, together

References == Bindings \cup PrivateRoutes

ASSUME KindAssumption  ==
  Bindings \cap PrivateRoutes = {} /\ NoReference \notin References
ASSUME BoundAssumption == MaxChanges \in Nat

VARIABLES
  provider,  \* the provider in the API server
  refs,      \* the references in the API server
  cache,     \* the manager's informer cache of both
  work,      \* the provider controller's worker
  pass,      \* the worker of the bindings' and that of the routes' controller:
             \* the reference it is about to make a tunnel for
  token,     \* the content of the key of the Secret that the provider names
  changes

vars  == <<provider, refs, cache, work, pass, token, changes>>
world == <<refs, pass, token>>

-----------------------------------------------------------------------------
(* Values.                                                                 *)

Phases == {"absent", "live", "deleting", "gone"}
\* "absent": no Secret, no such key, or nothing in it; "bad": rejected.
Tokens == {"absent", "good", "bad"}

\* Accepted and CredentialsValid; both are set by every pass that judges, for
\* generation gen.
Conditions == [accepted : {"unset", "True", "False"},
               creds : {"unset", "True", "False", "Unknown"}, gen : Nat]
\* valid: the zones normalize and the namespace selector parses.
Object == [phase : Phases, finalizer : BOOLEAN, gen : Nat, valid : BOOLEAN,
           cond : Conditions]
\* tunnel: the status records a tunnel, which exists in Cloudflare.
Reference == [phase : Phases, finalizer : BOOLEAN, tunnel : BOOLEAN]
NewReference == [phase |-> "absent", finalizer |-> FALSE, tunnel |-> FALSE]

NewObject == [phase |-> "live", finalizer |-> FALSE, gen |-> 1, valid |-> TRUE,
              cond |-> [accepted |-> "unset", creds |-> "unset", gen |-> 0]]

Steps == {"idle", "check", "patch", "listBindings", "listRoutes", "removeFinalizer"}
\* obj is the object in memory, cond the pass's verdict.
Worker == [pc : Steps, obj : Object, cond : Conditions]
Idle == [pc |-> "idle", obj |-> NewObject, cond |-> NewObject.cond]

Kinds == {"binding", "route"}
KindOf(r) == IF r \in Bindings THEN "binding" ELSE "route"
Present(o) == o.phase \in {"live", "deleting"}

Init ==
  /\ provider \in {NewObject, [NewObject EXCEPT !.valid = FALSE]}
  /\ refs     = [r \in References |-> NewReference]
  /\ cache    = [provider |-> provider, refs |-> refs]
  /\ work     = Idle
  /\ pass     = [k \in Kinds |-> NoReference]
  /\ token \in {"absent", "good"}
  /\ changes = 0

-----------------------------------------------------------------------------
(* The provider's reconcile pass.                                          *)

\* A call succeeds or fails without effect.  A write is the last call of its
\* pass: one that takes effect but whose response is lost ends the pass as a
\* success does, and the object comes back to the workqueue either way.
Results == {"ok", "failed"}
\* Something fails, or the administrators change something.
Change  == changes < MaxChanges /\ changes' = changes + 1
Call(r) == IF r = "ok" THEN UNCHANGED changes ELSE Change

At(pc)   == work.pc = pc
Goto(pc) == work' = IF pc = "idle" THEN Idle ELSE [work EXCEPT !.pc = pc]

\* Slip: a provider that is judged is not judged again.
StartOnce ==
  LET o == cache.provider
  IN  /\ At("idle") /\ Present(o) /\ o.finalizer
      /\ o.phase = "live" => o.cond.gen # o.gen
      /\ work' = [Idle EXCEPT !.obj = o,
                     !.pc = IF o.phase = "deleting" THEN "listBindings" ELSE "check"]
      /\ UNCHANGED <<provider, cache, world, changes>>

\* A pass starts from the cached object, which may be older than provider.
Start ==
  LET o == cache.provider
  IN  /\ At("idle") /\ Present(o) /\ o.finalizer
      /\ work' = [Idle EXCEPT !.obj = o,
                     !.pc = IF o.phase = "deleting" THEN "listBindings" ELSE "check"]
      /\ UNCHANGED <<provider, cache, world, changes>>

\* The finalizer comes first, in a pass of its own: an Update, which the server
\* refuses when it holds another version of the object than the cache.
AddFinalizer ==
  /\ At("idle") /\ cache.provider.phase = "live" /\ ~cache.provider.finalizer
  /\ provider = cache.provider
  /\ provider' = [provider EXCEPT !.finalizer = TRUE]
  /\ UNCHANGED <<cache, work, world, changes>>

\* setCondition, for the generation of the object in memory.
Judge(accepted, creds) ==
  work' = [work EXCEPT !.pc = "patch",
             !.cond = [accepted |-> accepted, creds |-> creds, gen |-> work.obj.gen]]

\* Slip: the status is one that no condition has.
CheckReason ==
  /\ At("check") /\ Judge("True", IF token = "good" THEN "True" ELSE "Rejected")
  /\ UNCHANGED <<provider, cache, world, changes>>

\* A spec that is not valid is rejected without a look at the token.  Else the
\* Secret is read from the server, not from the cache, and a read that fails is
\* a rejection as much as a Secret that is not there.  Of Cloudflare only the
\* refusal of the token is a rejection, not its silence.
Check ==
  /\ At("check")
  /\ IF ~work.obj.valid THEN Judge("False", "Unknown") /\ UNCHANGED changes
     ELSE \/ Judge("True", IF token = "good" THEN "True" ELSE "False") /\ UNCHANGED changes
          \/ Judge("True", "False") /\ Change
          \/ Judge("True", "Unknown") /\ token # "absent" /\ Change
  /\ UNCHANGED <<provider, cache, world>>

\* Slip: the object is read again, and its generation taken for the judged one.
PatchRefreshed ==
  /\ At("patch") /\ Present(provider)
  /\ provider' = [provider EXCEPT !.cond = [work.cond EXCEPT !.gen = provider.gen]]
  /\ Goto("idle")
  /\ UNCHANGED <<cache, world, changes>>

\* Status().Patch: a merge patch without a precondition on the version; it
\* carries the list of conditions only if the pass changed it.
Patch ==
  /\ At("patch")
  /\ \E r \in Results :
       /\ IF Present(provider) THEN Call(r) ELSE r = "failed" /\ UNCHANGED changes
       /\ provider' = IF r = "ok" /\ work.cond # work.obj.cond
                      THEN [provider EXCEPT !.cond = work.cond] ELSE provider
  /\ Goto("idle")
  /\ UNCHANGED <<cache, world>>

-----------------------------------------------------------------------------
(* finalize.                                                               *)

Listed(kind) == {r \in kind : Present(cache.refs[r])}

\* A reference ends the pass with an error.
ListBindings ==
  /\ At("listBindings")
  /\ Goto(IF Listed(Bindings) = {} THEN "listRoutes" ELSE "idle")
  /\ UNCHANGED <<provider, cache, world, changes>>

ListRoutes ==
  /\ At("listRoutes")
  /\ Goto(IF Listed(PrivateRoutes) = {} THEN "removeFinalizer" ELSE "idle")
  /\ UNCHANGED <<provider, cache, world, changes>>

\* Slip: only a provider with valid credentials is released.
RemoveFinalizerJudged ==
  /\ At("removeFinalizer") /\ Goto("idle")
  /\ provider' = IF work.obj.cond.creds = "True" /\ provider = work.obj
                 THEN [provider EXCEPT !.finalizer = FALSE, !.phase = "gone"]
                 ELSE provider
  /\ UNCHANGED <<cache, world, changes>>

\* With its last finalizer removed, the object disappears.
RemoveFinalizer ==
  /\ At("removeFinalizer") /\ Goto("idle")
  /\ \E r \in Results :
       /\ IF provider = work.obj THEN Call(r) ELSE r = "failed" /\ UNCHANGED changes
       /\ provider' = IF r = "ok"
                      THEN [provider EXCEPT !.finalizer = FALSE, !.phase = "gone"]
                      ELSE provider
  /\ UNCHANGED <<cache, world>>

-----------------------------------------------------------------------------
(* The references' controllers.                                            *)

\* What validateClusterProvider and validate require of the cached provider.
\* Nothing asks whether it is being deleted, but the deletion is a new
\* generation, which is never judged.
Ready(o) == Present(o) /\ o.cond = [accepted |-> "True", creds |-> "True", gen |-> o.gen]

\* The finalizer, written with a precondition on the version: a binding gets it
\* when it is accepted, a route before it is looked at.
AdoptReference(r) ==
  LET o == cache.refs[r]
  IN  /\ pass[KindOf(r)] = NoReference /\ o.phase = "live" /\ ~o.finalizer
      /\ r \in Bindings => Ready(cache.provider)
      /\ refs[r] = o
      /\ refs' = [refs EXCEPT ![r].finalizer = TRUE]
      /\ UNCHANGED <<provider, cache, work, pass, token, changes>>

\* Slip: the conditions are read whatever generation they are of.
AcceptReferenceStale(r) ==
  LET o == cache.refs[r]
      p == cache.provider
  IN  /\ pass[KindOf(r)] = NoReference
      /\ o.phase = "live" /\ o.finalizer /\ ~o.tunnel
      /\ Present(p) /\ p.cond.accepted = "True" /\ p.cond.creds = "True"
      /\ pass' = [pass EXCEPT ![KindOf(r)] = r]
      /\ UNCHANGED <<provider, refs, cache, work, token, changes>>

\* The pass has the provider in memory from now on.
AcceptReference(r) ==
  LET o == cache.refs[r]
  IN  /\ pass[KindOf(r)] = NoReference
      /\ o.phase = "live" /\ o.finalizer /\ ~o.tunnel /\ Ready(cache.provider)
      /\ pass' = [pass EXCEPT ![KindOf(r)] = r]
      /\ UNCHANGED <<provider, refs, cache, work, token, changes>>

\* readAPIToken reads the Secret from the server; without a good token nothing
\* is made.
Make(k) ==
  /\ pass[k] # NoReference
  /\ refs' = [refs EXCEPT ![pass[k]].tunnel = @ \/ token = "good"]
  /\ pass' = [pass EXCEPT ![k] = NoReference]
  /\ UNCHANGED <<provider, cache, work, token, changes>>

\* Slip: finalize reads the token though there is nothing to delete.
FinishReferenceAlways(r) ==
  /\ pass[KindOf(r)] = NoReference
  /\ cache.refs[r].phase = "deleting" /\ refs[r] = cache.refs[r]
  /\ Present(cache.provider) /\ token = "good"
  /\ refs' = [refs EXCEPT ![r] = [phase |-> "gone", finalizer |-> FALSE,
                                  tunnel |-> FALSE]]
  /\ UNCHANGED <<provider, cache, work, pass, token, changes>>

\* The reference's own finalize, in one step: with a tunnel it needs the
\* provider and its token.
FinishReference(r) ==
  LET o == cache.refs[r]
  IN  /\ pass[KindOf(r)] = NoReference
      /\ o.phase = "deleting" /\ refs[r] = o
      /\ o.tunnel => Present(cache.provider) /\ token = "good"
      /\ refs' = [refs EXCEPT ![r] = [phase |-> "gone", finalizer |-> FALSE,
                                      tunnel |-> FALSE]]
      /\ UNCHANGED <<provider, cache, work, pass, token, changes>>

-----------------------------------------------------------------------------
(* Everybody else.                                                         *)

\* The process stops; its successor fills a new cache.
Crash ==
  /\ Change
  /\ work' = Idle /\ pass' = [k \in Kinds |-> NoReference]
  /\ cache' = [provider |-> provider, refs |-> refs]
  /\ UNCHANGED <<provider, refs, token>>

\* Watch events: the newest version replaces the cached one.  Those of one kind
\* and those of another are not ordered.
DeliverProvider ==
  /\ cache.provider # provider
  /\ cache' = [cache EXCEPT !.provider = provider]
  /\ UNCHANGED <<provider, work, world, changes>>
DeliverReference(r) ==
  /\ cache.refs[r] # refs[r]
  /\ cache' = [cache EXCEPT !.refs[r] = refs[r]]
  /\ UNCHANGED <<provider, work, world, changes>>

EditSpec ==
  /\ Present(provider) /\ Change
  /\ provider' = [provider EXCEPT !.valid = ~@, !.gen = @ + 1]
  /\ UNCHANGED <<refs, cache, work, pass, token>>

\* The server gives an object that it starts to delete a new generation.
DeleteProvider ==
  /\ provider.phase = "live"
  /\ provider' = IF provider.finalizer
                 THEN [provider EXCEPT !.phase = "deleting", !.gen = @ + 1]
                 ELSE [provider EXCEPT !.phase = "gone"]
  /\ UNCHANGED <<cache, work, world, changes>>

\* The Secret is not watched, and a new token is no new generation.
ChangeToken ==
  /\ Change /\ \E t \in Tokens \ {token} : token' = t
  /\ UNCHANGED <<provider, refs, cache, work, pass>>

CreateReference(r) ==
  /\ refs[r].phase = "absent"
  /\ refs' = [refs EXCEPT ![r].phase = "live"]
  /\ UNCHANGED <<provider, cache, work, pass, token, changes>>

DeleteReference(r) ==
  /\ refs[r].phase = "live"
  /\ refs' = [refs EXCEPT ![r].phase = IF refs[r].finalizer THEN "deleting" ELSE "gone"]
  /\ UNCHANGED <<provider, cache, work, pass, token, changes>>

Step == Check \/ Patch \/ ListBindings \/ ListRoutes \/ RemoveFinalizer
StartReference(r) == AdoptReference(r) \/ AcceptReference(r) \/ FinishReference(r)
Users == \/ EditSpec \/ DeleteProvider \/ ChangeToken
         \/ \E r \in References : CreateReference(r) \/ DeleteReference(r)

Next ==
  \/ Start \/ AddFinalizer \/ Step \/ DeliverProvider \/ Crash \/ Users
  \/ \E k \in Kinds : Make(k)
  \/ \E r \in References : StartReference(r) \/ DeliverReference(r)

Spec == Init /\ [][Next]_vars

\* Watch events arrive, workers go on, and the workqueue returns to every
\* object: a pass ends with RequeueAfter 1, 5 or 10 minutes, with an error
\* (backoff), or after a write whose event requeues it.  What enables the start
\* of a pass is not taken away again and again, so that weak fairness will do.
Fairness ==
  /\ WF_vars(Step) /\ WF_vars(Start \/ AddFinalizer) /\ WF_vars(DeliverProvider)
  /\ \A k \in Kinds : WF_vars(Make(k))
  /\ \A r \in References :
       WF_vars(StartReference(r)) /\ WF_vars(DeliverReference(r))
FairSpec == Spec /\ Fairness

-----------------------------------------------------------------------------
(* Properties.                                                             *)

\* Every variable has its type; the cache never runs ahead of the server.
TypeOK ==
  /\ provider \in Object /\ refs \in [References -> Reference]
  /\ cache \in [provider : Object, refs : [References -> Reference]]
  /\ work \in Worker /\ pass \in [Kinds -> References \cup {NoReference}] /\ token \in Tokens
  /\ changes \in Nat
  /\ cache.provider.gen <= provider.gen

\* finalize lists references from the cache and then removes the finalizer, and
\* the references' controllers do not look at the provider's deletion: still, a
\* provider that is gone leaves no reference with a tunnel that nobody has the
\* credentials to delete.
Protected ==
  provider.phase = "gone" =>
    \A r \in References : Present(refs[r]) => ~refs[r].tunnel

\* A pass that judged an old spec patches the status of the new one: Accepted
\* is of the spec that the generation beside it names all the same.
VerdictOfSpec ==
  provider.cond.accepted # "unset" /\ provider.cond.gen = provider.gen =>
    provider.cond.accepted = IF provider.valid THEN "True" ELSE "False"

\* Though Secrets are not watched, the conditions end up those of the present
\* spec and token.
EventuallyJudged ==
  <>[](provider.phase = "live" =>
         provider.cond = [accepted |-> IF provider.valid THEN "True" ELSE "False",
                          creds    |-> IF ~provider.valid THEN "Unknown"
                                       ELSE IF token = "good" THEN "True" ELSE "False",
                          gen      |-> provider.gen])

\* A provider that is deleted goes as soon as its references are gone, whether
\* its spec and token are any good or not.
ProviderReleased ==
  <>[](provider.phase = "deleting" => \E r \in References : Present(refs[r]))

\* Provider and references never wait for each other: a reference that is
\* deleted goes too, as long as there is a good token to delete its tunnel.
ReferencesReleased ==
  \A r \in References :
    <>[](refs[r].phase = "deleting" => refs[r].tunnel /\ token # "good")
=============================================================================
