# KFlared: TLA+ models, checks and proofs

KFlared is a Kubernetes operator. From `CloudflareTunnelBinding` objects it makes Cloudflare
tunnels that publish the hostnames of a Gateway's HTTPRoutes; from
`CloudflareTunnelPrivateRoute` objects it makes tunnels with a `/32` CIDR route to a
Service. Both need a `ClusterCloudflareProvider` (account, API token, admission rules). The
modules here model its three controllers together with what they act on: the API server, the
informer cache, the Cloudflare account, and the people who change all three. `src/` is
abbreviated away in paths below; *binding controller* is
`internal/controller/cloudflaretunnelbinding_controller.go`, *private controller* is
`internal/controller/cloudflaretunnelprivateroute_controller.go`.

## 1. Inventory

| Component | State it keeps | Operations | Hard behaviour | What makes it correct |
|---|---|---|---|---|
| Tunnel binding controller | `status` of each binding (tunnel id, published hostnames, conditions), the finalizer; connector Secret and Deployment; DNSEndpoint; tunnel and its configuration | `Reconcile` (93-186), `rejected`/`deprogramTunnel` (530-572), `finalize` (574-623), the `ensure*`/`reconcile*`/`delete*` helpers | 10-15 calls per pass to three systems, each may fail, take effect without answering, or be the last one before a crash; every pass starts from a cache; conflicts between bindings are decided on other objects' statuses | one tunnel per binding; nothing unguarded by the finalizer; record before use; DNS only for what is routed; removal in order; fail closed; every deletion ends |
| Private route controller | `status` (tunnel id, CIDR route id, network), finalizer, connector Secret and Deployment, tunnel, CIDR route | `Reconcile`/`reconcile` (65-148), `ensureTunnel`, `ensureRoute`, `deleteRoute`, `removeRoute`, `ensureConnector`, `finalize` (501-554) | the same, and a Service whose address changes, and an account where anybody may route the network | one CIDR route per object, always to be found again; other people's routes untouched; route removed before tunnel |
| Provider controller | provider conditions, protection finalizer | `Reconcile` (63-132), `finalize` (134-158) | finalization races with new references; a verdict on an old spec; a token that nobody watches; provider and references waiting for each other | a provider outlives the tunnels made with it; its conditions are of the spec they name, and become those of the present token; every deletion ends |
| Eligibility (the checks of the two main controllers and their watches) | none of their own; the informer cache and the workqueues | `validateAndPlan` (192-358), `validate` (150-215), `bindingsForObject`, `routesForObject` | eight kinds of objects read one after the other, each changed by somebody else at any time | nothing served without the consent of provider, Service owner and Traefik; no change missed |
| Planner (`internal/planner`) | none | `Plan`, `IngressRules`, `TunnelName`, `BindingPrecedes`, zone and hostname normalization | boundary cases | total, order-independent, deterministic |
| Cloudflare client (`internal/cloudflare`) | none | the tunnel, configuration, token and CIDR route calls; 404 means "gone" | idempotence of deletions, exact match of CIDRs | |
| API types (`api/v1alpha1`) | specs and statuses | validation markers: immutable references, enumerations | | |
| Manager (`cmd/main.go`) | caches, leader lease | one worker per controller; Secrets and Deployments are read live (184-187) | restarts | |
| Chart, manifests, generated code, docs, tests | - | - | - | not modelled |

The controllers never call each other. They meet in the API server: the provider controller
writes conditions that the other two read, and finalizes a provider only when its cache
shows no reference to it; bindings read each other's spec and status to decide conflicts,
and so do private routes. All of them use the same Cloudflare account. Watches only enqueue
a key; a pass reads everything again.

`PROJECT.json` lists every component with its status, and each hazard at its line.

## 2. Modules

| Module | What it is |
|---|---|
| `TunnelBinding` | the binding controller, one worker per controller class, with its whole environment |
| `PrivateRoute` | the private controller and its environment |
| `Provider` | the provider controller, with the bindings and private routes that refer to one provider |
| `Eligibility` | the checks, the map functions behind the watches, and the workqueues |
| `OwnedTunnels` | abstract: what a controller may do to the tunnels of the objects it owns; refined by `TunnelBinding` and `PrivateRoute` |
| `MCTunnelBinding`, `MCPrivateRoute`, `MCProvider`, `MCEligibility` | instances for TLC |
| `TunnelBindingProofs`, `...Ownership`, `...Lifecycle`, `...Records`, `...Refinement` | the theorems about `TunnelBinding`, each module on top of the one before |
| `PrivateRouteProofs`, `ProviderProofs`, `EligibilityProofs` | the theorems about the other three |

### How a pass is modelled

A worker is a record: program counter, the object in memory (`obj`), and the locals the code
carries from call to call. Each action is one call that writes, with the reads and the
computation that belong to it; an action ends where another actor can get in. So
`ensureTunnel` of the binding controller is `GetTunnel` (361-371), `Find` (372-379),
`CreateTunnel` (380-385) and `RecordTunnel` (386-395).

*Failures.* A call has a result `ok`, `failed` (no effect) or `lost` (took effect, but the
caller sees an error). An error ends the pass the way the code does: straight (bindings
before `reportOperationalFailure` applies), or through the status patch that reports it
(`Report`, `Fail`). `Crash` drops the locals and refills the cache. Calls with a revoked
token fail without being counted against the bound.

*The API server.* `api` is what it holds. `Update` (finalizers) is refused when the server
holds another version than the object in memory (`UpdateObject`; versions are compared by
content). A status patch sends only the fields that changed in memory (`Merged`, `Sent`),
carries no version, replaces the conditions list whole, and *refreshes the object in memory*
with what the server returns; the rest of the pass then works with the newer spec. A patch
of an object that is gone fails.

*The cache.* `cache` lags `api`; `Deliver` brings the newest version of one object. The
states of providers, the validity flags, hostnames and Service addresses are what the cache
shows; delay of those is delay of the change itself. Secrets, Deployments and DNSEndpoints
are read live by the code, and here.

*The account.* Tunnel names and CIDR route comments contain the object's UID, so `owner`
stands for both; a tunnel or route somebody deleted is `removed`, one the controller deleted
is `deleted`, and its identifier is never used again. An account has at most one CIDR route
per network (assumed of Cloudflare, external).

*Users.* They create and delete objects, edit mutable spec fields, change providers, grants,
routes and Services, and remove or add things in the Cloudflare dashboard.

*Conflicts.* `Rank` is the order by creation time and then name. Creation times have a
resolution of one second, so an object with a smaller rank may appear after one with a
larger. In `TunnelBinding` the constant `SameSecond` says whether it may; in `PrivateRoute`
objects are always created, and reach the cache, in any order. An earlier binding keeps from
later ones what its routes ask for while its provider is accepted, and what it last
published otherwise (`ClaimedHosts`).

### The abstract specification

`OwnedTunnels` knows an object's phase, finalizer, deletion policy and recorded tunnel, and
the tunnels; no passes, calls, caches or failures. A tunnel is made only for an object that
carries the finalizer and has no live tunnel; the status names only a tunnel made for the
object; the controller deletes a tunnel only while its object is in deletion and records it
(`Release`); and the object goes only when a tunnel it records under policy Delete is dealt
with (`Finish`). `ImplementsOwnedTunnels` in `TunnelBinding` and `PrivateRoute` is this
specification under the mapping `Life`.

The constant `OldCopies` marks where the two differ: may a pass on an old copy delete the
tunnel of an object that is gone? For bindings it is `FALSE`. For private routes it has to
be `TRUE`: when the policy changes to Retain in the middle of `finalize`, the patch that
clears the route (454) reads it back, the finalizer is removed without deleting the tunnel,
and a pass that still starts from the cached copy (policy Delete) deletes the retained
tunnel (547) although its object is gone. Its own `Update` is then refused, too late. The
binding controller does not patch during `finalize`, so its `Update` finds the changed
policy by its version.

### What old copies do to private routes

controller-runtime starts a pass as soon as an event arrives, also before the watch has
brought back the controller's own last patch. So a pass may start from any copy the cache
has shown (`Start`), and no run or theorem here assumes anything else. Status patches of the
private controller carry no version, and `removeRoute` erases what the pass has in memory:
a pass that works with an old status can make the status wrong. Three histories that TLC
finds:

- finalization from a copy without the network deletes the tunnel before the route
  (operations.md:81 says the route goes first; the retry then deletes the route);
- a pass from a copy without the tunnel, after that tunnel was removed in the dashboard,
  records a second tunnel beside a route of the first; `ensureRoute` (372) and `deleteRoute`
  (434) then refuse on every pass, and the object stays in deletion (`Refused`);
- when in addition the Service has moved, the route of the first tunnel is not found by
  network and comment, and the object gets a second one.

What can be said nevertheless is said step by step. `Scoped(p)`: the live routes of `p` are
the one its status describes, and none when `p` went under policy Delete. `Informed`: the
copy of the current pass has the tunnel, route and network that the server has. `ScopeKept`:
no step takes `Scoped(p)` away but one of a pass on `p` that is not `Informed`.
`RouteBeforeTunnel` likewise speaks of informed passes over a status that is right.
`ScopeBeforeRoute` and `FinalizerFirst` hold for every pass. The liveness properties except
states and not schedules: `DeletionCompletes` and `EventuallyRouted` except `Refused(p)`,
the state the second history leads to, and `EventuallyWithdrawn` the routes a wrong status
does not lead to. An old copy is no excuse by itself: passes go on starting from old copies
in these runs, and the properties hold.

### How providers are modelled

`Provider` has one provider, the Secret key with its token, and references of both kinds.
Its pass is `Start`, `Check` (spec, Secret, Cloudflare's answer) and `Patch`; finalization
is `ListBindings`, `ListRoutes` and `RemoveFinalizer`, each of which reads the cache or the
server at its own moment. Of a reference's pass only what meets the provider is kept: it
gets a finalizer (`AdoptReference`), accepts the cached provider (`AcceptReference`), makes
a tunnel with the token in the Secret (`Make`), and is finalized (`FinishReference`); the
two controllers have a worker each.

No controller looks at the provider's `deletionTimestamp` before using it. That no tunnel is
made with a provider that goes away (`Protected`) rests on two facts: the API server gives
an object that enters deletion a new generation, which `finalize` never judges, so that
conditions are not current any more; and all controllers read the same cache, in which the
deletion is seen before `finalize` starts. So a provider that is deleted while it is
referenced stays, but its bindings stop being reconciled (`ProviderStatusUnknown`) and its
private routes are withdrawn (`ProviderNotReady`).

A Secret that cannot be read for a moment counts as `CredentialsValid=False`, which the
other controllers take for a rejection and withdraw what they serve, until the next pass.

### How eligibility is modelled

The state of `Eligibility` is the informer cache. An *event* replaces one object in it and
queues the claims (bindings and private routes) that the map functions return for the old
and the new object. A pass takes a claim off the queue and reads the provider, then Gateway,
grants and Service, then HTTPRoutes, with events in between, and leaves `exposed[o]`: pairs
of a hostname or address and the Service behind it. Rejections withdraw; a binding whose
provider's status is unknown is retried with nothing changed; a claim whose provider now
belongs to another controller class is left as it is, so for such a claim a withdrawn grant
is not enforced, and the properties do not speak of it. Status texts and reasons are left
out, and strings are values: `Canonical` is what trimming, lower-casing and the test for
concrete names make of a spelling, and a zone list is the set of hostnames within it.
Conflicts between claims are in the other two modules; a loser is not queued when the winner
goes, only its periodic pass helps it.

### What the models leave out

Collisions of child names (12 digits of the UID) and adoption checks on children;
re-creation of an object under the same name (a member of `Bindings`/`Routes` is one UID);
whether a connector runs, is ready, or re-reads its Secret; the content of pods, labels,
events and condition reasons; the characters of hostnames, zones and names; in `Provider`,
references under policy Retain (their finalization can do without the provider) and tunnels
made but not recorded; garbage collection through owner references (the controller deletes
what it made explicitly); a call that takes effect *after* its pass has given up, and two
leaders at once; tunnels with our name made by somebody else. The deletion of a CIDR route
merges the read with the delete, since owner, network and tunnel of a route never change.

## 3. Runs

Bounds: `MaxEdits` caps what users and other controllers change, `MaxFaults` caps failed
calls, lost answers and crashes; the constants `Policies` and `...Choices` say which values
they choose from. One of each suffices for the classic situations (lost answer
then deletion; change in the middle of a pass), two edits allow a change and its reversal,
or two different changes. Identifiers of tunnels and CIDR routes are never used again;
somebody removes a tunnel only while identifiers for new ones are left. Object creation, deletion and cache delivery are not
counted. `binding_faults` and `private_faults` have one edit and two faults, since a fault
can be the crash between a lost answer and the retry; two edits and one fault have been run
too (below). `MaxChanges` of `Provider` counts both kinds together: a change of spec or
token, or a fault; what races in that module is deletion, references and deliveries, which
are free. `MaxEvents` of `Eligibility` counts changes of any object since the caches were
filled (the initial states are all that the lists may bring): two are enough for one during
a pass and one after it, for a change and its reversal, and for two reads of one pass that
see different worlds. `CHECK_DEADLOCK FALSE` everywhere: when all objects are gone and the
bounds are used up the system rests, as it should.

The bounds of the listed runs keep each of them within a few minutes on two cores. Larger
instances that were run to the end once, without an error: `binding_faults` with two edits
and one fault (6.2 million states); `binding_pair` with two edits and two of the provider's
states (0.8 million), with four of the provider's states (0.7 million), and with bindings
that gain and lose the hostname (0.8 million); `private_faults` with two edits and one fault
(11 million); `private_live` with two edits, no fault and three tunnels (0.9 million);
`private_pair` with a fault (2.6 million) and with two addresses (0.6 million); `provider`
with one edit *and* one fault, liveness included (1.1 million), and with two changes of
either kind for the safety properties (1.8 million); `eligibility` with three events from a
cluster in which everything is in order (6.3 million). The safety properties among them are
proved for every bound (section 4).

| Run | Instance | What it shows |
|---|---|---|
| `binding_faults` | 1 binding, 3 tunnels, both policies, DNS on and off, 1 edit, 2 faults, stale caches | `TypeOK`; `OneTunnelEach`; `FinalizerFirst` (nothing made for a binding without its finalizer); `CleanFinalization`; `ConfiguredIsRecorded` (a tunnel with rules is recorded); `NoDanglingDNS`; `DnsAfterIngress`; `ImplementsOwnedTunnels` |
| `binding_live` | 1 binding, 2 tunnels, 1 edit, 1 fault, fair | `DeletionCompletes`, `EventuallyServed`, `EventuallyWithdrawn` |
| `binding_pair` | 2 bindings of 2 providers claiming 1 hostname, created within a second; 1 edit: the earlier one's provider is `ok`, `pending` or `refused`; fair | `EventuallyServed`, `EventuallyWithdrawn`: the one entitled is served in the end, the other withdraws, in every order, and a rejected binding's last published hostnames block nobody |
| `private_faults` | 1 object, 2 addresses, 2 tunnels, 3 CIDR routes, both policies, 1 edit, 2 faults, any cached copies (1.5 million states) | `TypeOK`, `OneTunnelEach`, `CleanFinalization`, `FinalizerFirst`, `OwnRoutesOnly`, `ScopeKept`, `RouteBeforeTunnel`, `ScopeBeforeRoute`, `ImplementsOwnedTunnels` |
| `private_live` | the same with 1 fault, fair | `DeletionCompletes`, `EventuallyRouted`, `EventuallyWithdrawn` |
| `private_pair` | 2 objects of 1 Service, created in either order, fair | `EventuallyRouted`, `EventuallyWithdrawn`: the one entitled to the network routes it, the other gives it up |
| `provider` | 1 provider, 1 binding, 1 private route, 1 change of spec or token, or fault, fair | `TypeOK`, `Protected`, `VerdictOfSpec` (the verdict is that of the generation it names); `EventuallyJudged`, `ProviderReleased`, `ReferencesReleased` |
| `eligibility` | 1 binding, 1 private route, 2 namespaces with a Service and an HTTPRoute each, 3 grants, 2 listeners, 2 events, every initial cluster | `TypeOK`; `NoMissedWatch` (with no event pending, a claim exposes what its checks would now say); `ConsentedOrigin`, `PublishedAreServed`, `WithinProvider` |
| `binding_orphan`, `binding_status`, `binding_handover`, `private_orphan` | | violated: section 5 |

What an earlier binding may keep from a later one is stated in `binding_pair` by the state of
its provider (`Claims`): its routes' hostnames while the provider is accepted, what it last
published while a changed provider is not yet judged, and nothing once the provider is
refused or missing. So the property fails when a rejected binding does not clear its status.

*Fairness.* A worker that can take a step takes it (weak fairness of `Step`): it is a
goroutine in a loop. Watches deliver in the end (weak fairness of `Deliver`). Passes recur
(strong fairness of `Start`, since a worker busy with another object disables it): a pass
that ends well asks for `RequeueAfter` of 2 or 5 minutes, an error is requeued with backoff,
and a finished write produces an event. That a loser comes back when the winner of its
conflict goes is due to `RequeueAfter` alone, which the runs assume and cannot check. Users
are not fair, and no failure is required to stop: failures are bounded by `MaxFaults`
instead. In `Provider` weak fairness is enough for
`Start \/ AddFinalizer` and `StartReference`: a pass always ends, and changes and faults are
bounded, so that a start which is due stays due; requeues after 1, 5 or 10 minutes, or
backoff, bring it. All liveness properties have the form `<>[]`: once the world has come to
rest, so does the system, in the right state.

*Mutants.* Each checked property has an operator marked `Slip` beside the definition it
would replace: a plausible bug that makes TLC violate the property.

## 4. Proofs

Every type invariant, every safety invariant and every action property of the passing runs
is a theorem, and both refinements are, for any sets of objects, tunnels, routes and
hostnames, any values of the bounds, and passes from any cached copies. No theorem has a
hypothesis beyond the assumptions on constants. The theorems bear on `Spec`, without
fairness. `PROJECT.json` lists them; here is why they hold.

Each proof has the same shape. The property is seldom inductive; an invariant named `...Inv`
contains it and what it rests on, and was first checked by TLC on the runs above. Lemmas say
what a step may do to one part of the state (`Step...`, `Others...`: the tunnels, the
copies, where the pass goes), so that the conjuncts of the invariant are proved from a few
facts and not from thirty actions each.

### Binding controller

| Module | Theorems | Inductive invariant |
|---|---|---|
| `TunnelBindingProofs` | `TypeCorrect` | `TypeOK`, which also says that a worker holds an object, a tunnel or none |
| `TunnelBindingOwnership` | `OneTunnel` | `OwnershipInv`: while a worker is about to create, its binding has no tunnel (`LookupHolds`), and a worker serves bindings of its own class (`OwnPass`); so two workers about to create serve different bindings |
| `TunnelBindingLifecycle` | `FinalizerGuards` | `BehindInv`, then `LifecycleInv` |
| `TunnelBindingRecords` | `ConfiguredRecorded`, `DNSNeverDangles`, `FinalizationCleans`, `DNSFollowsIngress` | `RecordsInv`; for the last one also `Routed` |
| `TunnelBindingRefinement` | `Implements` | `DecidedInv` |

`BehindInv` says what a pass may conclude from a copy that is out of date. Creation,
deletion and the finalizer are not taken back while the object exists (`CacheBehind`), with
one exception, the finalizer that `finalize` removes, which needs a copy that shows the
deletion; so a pass that makes things does so for a binding that has the finalizer *now*
(`PassBehind`). `LifecycleInv` adds that what `finalize` removed stays removed, because
nobody else works for that binding (`OwnPass`).

`RecordsInv` is about references: statuses, copies of statuses, DNS targets and the tunnels
in the hands of passes. Each names a tunnel made for that binding (`Named`), and one that is
still live is what the status names (`NeverForgotten`), because a status is overwritten only
with the one live tunnel of its binding. This is where `OneTunnelEach` is needed: an old
copy that names a live tunnel cannot make a pass forget a newer one, as there is none.
`DNSFollowsIngress` needs that between `Configure` and `WriteEndpoint` nobody else writes
the rules of the pass's tunnel (`Routed`).

`Implements` maps each step to a step of `OwnedTunnels` or a stutter. All but one follow
from the above. The exception is `FinTunnel` from an old copy of a binding that is gone
already: `Decided` shows that such a copy has the policy under which the binding went. The
finalizer goes only in an update from the very version in the API server, and what the cache
shows afterwards is that version or a later one, by its generation.

### Private route controller

`PrivateRouteProofs` has two layers.

- The life of objects and tunnels: `TypeCorrect`, `DeletesOwnRoutes`, `OneTunnel`,
  `FinalizationCleans`, `GuardedFirst`. The invariant `LifeInv` is the counterpart of
  `LifecycleInv`: what any copy may say (`Copied`), that an object without the finalizer has
  nothing (`Bare`), what a pass may rely on (`Guarding`) and has removed (`Cleaned`).
- Routes and the status: `ScopeIsKept`, `RouteGoesFirst`, `ScopeGoesFirst`. `ScopeInv` adds
  what a pass has established at each point even though the copy it started from was old.
  The patch that ends `ensureTunnel` brings the object in memory up to date, and nobody but
  the one worker writes the status, so that `ensureRoute` works with what the server has
  (`Agreed`); `TunnelFound`, `NetworkFound` and `RouteFound` say what `ensureTunnel`, `ensureRoute` and
  `deleteRoute` know about the account when they write. `OneRouteEach` says that a status
  that is right leaves room for no second route. `PassKeepsScope` and `OthersKeepScope` then
  take the steps of `ScopeKept` one by one.

`Implements` adds `Present` to the invariant: a pass on a copy that is not in deletion is
about an object that exists. That rules out what the abstract specification never allows: a
tunnel made, or recorded, for an object that is gone.

### Provider controller

`VerdictIsOfSpec` rests on `JudgedInv`: a copy of the provider has the spec of the
generation it names, and a deletion is a generation that no condition ever names, as
`finalize` does not judge. `ProviderProtects` rests on `ReleasedInv`: once the cache shows
the deletion, the provider is not `Ready` for references, so what a list of `finalize` did
not show cannot appear later (`Finalizing`, `Released`), while what a pass that began
earlier works for has its own finalizer and is in the cache (`Held`), where the lists find
it. `Unguarded` covers a provider that never got its finalizer: it has never been judged, so
nobody uses it.

### Eligibility

`NoWatchMissed`: as long as no event has queued a claim again, what its pass has read so far
is still so (`Current`). The heart is lemma `WatchesMissNothing`: an event that changes the
verdict on a claim, or anything its pass has read, queues that claim. `ConsentHolds`,
`PublishedServed` and `ProviderContains` follow from it, since they are true of `Verdict`
itself; the second also needs that a parent status of the current generation was computed
from the current spec (`Reported`).

### Assumptions, and what the proofs changed

The assumptions on constants are in the modules that declare them: who belongs to whom is a
function, placeholders are not values, choices are within the API's enumerations, bounds are
naturals. Two were added for the proofs of `Eligibility`: there is a Service to point at,
and the `from` entries of a grant consist of a kind and a namespace (`GrantAssumption`),
which is all the check reads of them. The proof of `NoWatchMissed` found one mistake in the
model: `Verdict` was a `CASE` with overlapping guards, which leaves the choice open; it is
now the sequence of tests that the code makes.

### What is only model-checked

- Liveness: `DeletionCompletes`, `EventuallyServed`, `EventuallyWithdrawn`,
  `EventuallyRouted`, `EventuallyJudged`, `ProviderReleased`, `ReferencesReleased`. They
  need fairness and `ENABLED`, which TLAPS 1.4.5 does not reason about.
- The properties of section 5, which are false.

## 5. Where documents and code differ

- `binding_orphan` / `DeleteRemovesTunnel`: a binding deleted before its new tunnel's
  identifier reached the status leaves that tunnel in the account (configuration.md:70 says
  it is removed).
- `binding_status` / `StatusCatchesUp`: `rejected` clears `publishedHostnames` before the
  tunnel is emptied; when emptying keeps failing the status stays wrong (operations.md:18).
- `binding_handover` / `OneOwnerPerHost`: an earlier binding that gains a hostname publishes
  it before the later one has withdrawn it (security.md:46).
- `private_orphan` / `NoOrphanRoute`: a finalization from an old copy, after the tunnel was
  replaced, looks for a route of the old tunnel, finds none, erases the newer network by a
  versionless patch, which also refreshes the copy, and so removes the finalizer: the CIDR
  route stays (configuration.md:127, and the comment at 392-393).

## 6. Plan

Done: the three controllers, eligibility and watches, the abstract specification and its two
refinements, eight passing runs, four that refute a document, and a proof of everything the
passing ones check except liveness. Next, in this order:

1. What `OwnedTunnels` promises by itself (one live tunnel per object, none made for an
   object without the finalizer), proved once at the abstract level, and the exclusion of
   two settled bindings that claim one hostname as an invariant of `TunnelBinding`.
2. Names of children as a function of the UID's prefix, and what the adoption checks do when
   two objects share one.
3. A creation that takes effect after its pass has given up, under an account that does or
   does not refuse a second tunnel of one name.
