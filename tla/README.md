# ConfigPropagation controller: a TLA+ model

The repository is a Kubernetes operator. A user creates a `ConfigPropagation`
that names a source ConfigMap, a namespace selector, a rollout strategy and
policies; the controller keeps a managed copy of the source, optionally
filtered to some keys, in every selected namespace. This directory models the
controller, the API server and caches it works against, and the users around
it; checks small instances with TLC; shows that the controller implements an
abstract ownership protocol; and proves its central invariants, for instances of
any size, with TLAPS.

Paths below are relative to `src/`; `controller.go` and
`runtime_controller.go` are in `pkg/controllers/configpropagation/`,
`controller_runtime_client.go`, `metrics.go` and `events.go` in `pkg/adapters/`, `webhook.go` in
`pkg/api/v1alpha1/`, the rest in `pkg/core/`.

## 1. Inventory

| Part | State | Operations | Module |
|---|---|---|---|
| Reconcile loop, `runtime_controller.go` | none of its own; the object read from the cache | Get, add finalizer, reconcile or finalize, patch status, resync; watches ConfigPropagations only, one worker | `Propagation` |
| Reconciler, `controller.go` | locals of one call | default and validate, read source, list targets, plan, per-namespace sync, report, clean up deselected namespaces, `Finalize` | `Propagation`, `ConfigData` |
| Rollout planner, `rollout.go` | in memory, per propagation: content hash and completed namespaces | `Plan`, `MarkCompleted`, `CompletedNamespaces`, `Forget`, under a mutex | `RolloutPlanner` |
| Spec rules, `validation.go`, `types.go` | none | `DefaultSpec`, `ValidateSpec`, `BATCH_SIZE` | `SpecRules` |
| Content hash, `hash.go` | none | `HashData` | `ContentHash` in detail, `ConfigData` abstractly |
| Client adapter, `controller_runtime_client.go` | informer caches (controller-runtime) | read source and target, list namespaces and managed ConfigMaps, upsert, delete, metadata update | `Propagation`, `Selectors` |
| Status and admission, `webhook.go` | the resource's status | `Default`, `Validate*`, `ApplyRolloutStatus`, `ApplyErrorStatus` | `Propagation` |
| `WorkQueue`, `queue.go` | FIFO with a membership set | `Add`, `Get`, `Len` | `WorkQueue` |
| Webhook guardrails, `pkg/adapters/webhooks/` | none | stateless checks | not modelled: nothing calls them (section 4) |
| Events, `events.go`; metrics, `metrics.go` | two gauges, counters, a histogram | output only | the gauges, in `Propagation` |
| Manager, `cmd/configpropagation/main.go` | flags | start-up | `ENABLE_WEBHOOKS` and restarts, in `Propagation` |

How the parts interact: a change of a ConfigPropagation reaches the
informer, which enqueues its key; the worker takes the key and calls
`Reconcile`, which talks to the API server once per read-modify-write. Reads go
through caches that trail the server. Between any two calls users may change
anything, the process may die, a call may fail, or take effect without its
answer arriving. Sources, targets and namespaces are not watched; the resync
period, a retry backoff, or the event of the controller's own status patch is
all that triggers another reconcile.

What is hard here, and what correctness means for each part:

* *Finalizer protocol.* Nothing is written for a resource that could vanish
  without cleanup (`FinalizerGuard`); nothing of it is left once it is released
  (`FinalizeComplete`); it is eventually released (`DeletionCompletes`); and at no
  moment is there a managed copy that nobody will clean up (`NoOrphans`). The
  difficulty is in stale reads, conflicts, lost answers and restarts.
  `ImplementsOwnership` states the protocol as a whole.
* *Rollout.* A completed set remembered across reconciles must stay true while
  the content, the selector and the labels change (`CompletedIsSynced`,
  `SettledReady`), a reconcile must take on as many targets as the batch size says
  (`BatchRespected`), and every target must get its turn.
* *Status.* A merge patch computed against an outdated copy must still leave
  a consistent status (`SettledStatus`).
* *Convergence.* After the last change everything is applied, and the resyncs that
  go on send no more writes to the targets (`Converges`, `WritesCease`), also next to a propagation that keeps failing
  (`NeighboursConverge`).
* *Users' objects.* A source is changed by users only (`SourceKept`), and a detached
  copy keeps what they wrote to it (`DetachPreserves`).
* *Work queue.* Set and slice agree (`Consistent`), no change is lost in
  de-duplication (`NoLostChange`), and none waits for ever (`EventuallyRead`).
* *Hash.* It must not depend on Go's map order (`Stable`) and must tell
  contents apart (`Faithful`).

`PROJECT.json` lists the hazards one by one, each at the line where it bites,
including those that no property covers yet.

## 2. Modules

    ConfigData, Selectors <- SpecRules <- RolloutPlanner <- Propagation
    Propagation <- PropagationOwnership <- PropagationClaims <- MCPropagation  (TLC)
    Propagation <- PropagationSteps <- PropagationFinalizer
                <- PropagationStatus                                        (TLAPS)
    PropagationStatus <- PropagationContents                                (TLAPS)
    PropagationFinalizer, PropagationOwnership <- PropagationRefinement     (TLAPS)
    Ownership <- OwnershipProofs                                            (TLAPS)
    ContentHash <- MCContentHash                                            (TLC)
    ContentHash <- ContentHashProofs                                        (TLAPS)
    WorkQueue <- MCWorkQueue                                                (TLC)
    WorkQueue <- WorkQueueProofs                                            (TLAPS)

`Propagation` is the composition: the cluster, the caches, the queue, the
worker, the failures and the users.

`Ownership` is the abstract specification. It knows no controller: a propagation
goes from absent to new, guarded, deleting and back to absent; copies of its
source are made only while it is guarded or deleting, and it leaves that phase
only when there are none. `PropagationOwnership` instantiates it with the phase
read off the resource at the API server (does it exist, has it the finalizer, is
it being deleted) and the owner read off the managed label and the source
annotation of each ConfigMap. It is a specification of what is promised, not a
translation of lines, so only the mapping is in `PROJECT.json`'s map.

`WorkQueue` is on its own. The Reconciler's `OnCRChange`, `OnSourceChange` and
`OnNamespaceLabelChange` fill it, but the binary registers none of them and
nothing outside the tests takes keys out: what drives the operator is
controller-runtime's queue, which `Propagation` models as the set `queued`. The
module checks the queue for the use it is made for: handlers add, several
workers get.

### State

| Variables | Code |
|---|---|
| `cm`, `labels`, `cr` | the API server's ConfigMaps (one name, so one per namespace), namespaces with their labels, ConfigPropagations |
| `cmCache`, `cmStale`, `crCache`, `crStale` | informer caches, and the objects whose newest version has not arrived |
| `queued`, `delayed` | controller-runtime's queue; keys waiting for a backoff or for `RequeueAfter` |
| `planner` | `rolloutPlanner.states` |
| `gauges` | `targetsGauge` and `outOfSyncGauge` of `metrics.go` |
| `recent` | resources whose `LastSyncTime` may be the current second |
| `pc`, `key`, `hand`, `fresh` | the API call the worker is about to make, and its copy of the resource (`fresh`: its resource version is current) |
| `data`, `targets`, `todo`, `at`, `done`, `skipped`, `result`, `meta` | locals of `reconcileImpl`, `syncTargets`, `cleanupDeselected` |
| `edits`, `faults`, `crashes` | bounds |

A ConfigMap is reduced to its data, the managed label, the source and hash
annotations, and whether it carries metadata of the users' own. A selector has
`matchLabels` and `matchExpressions` with the four operators; it may be one that
the CRD admits and the labels library refuses (`Convertible`). Ready, Progressing and Degraded are set
together, so a condition is its reason and the counts its messages carry. A
hash is an injective image of the data except that empty data hash to the
empty string, which is also what a missing annotation reads as. Timestamps are
reduced to whether they differ from those in the copy in hand.

### Actions

| Action | Code |
|---|---|
| `Get`, `Begin` | `runtime_controller.go:44-68`, `controller.go:72-96, 360-373` |
| `GetFailed` | the error of that `Get` other than NotFound, returned and retried, `runtime_controller.go:49-55` |
| `AddFinalizer`, `Release`, `UpdateConflict` | the two `Update`s of the resource, with optimistic locking |
| `ReadSource`, `ListAndPlan`, `SelectorRejected` | `controller.go:98-126`, `controller_runtime_client.go:40-84` |
| `Lookup`, `Upsert` | one iteration of `syncTargets` and `UpsertConfigMap`; the reads of the two are separate steps |
| `WriteRefused` | a write the API server refuses: forbidden, the namespace gone, or a version conflict |
| `Report` | `controller.go:128-192` |
| `ListManaged`, `Prune`, `DetachLookup`, `Detach`, `DetachTargetGone`, `EndCleanup` | `cleanupDeselected`, for reconcile and `Finalize`; then the gauges |
| `PatchStatus`, `PatchErrorStatus`, `StatusRefused` | the status merge patch, the resync period, the returned error; a CRD without the status endpoint |
| `ApiFailure`, `ReplyLost` | any call of the `KubeClient` interface (`ClientCalls`) or of the controller itself (`ControllerCalls`) fails; a write takes effect and its answer is lost |
| `Crash` | restart: planner, queue and locals lost, caches listed again |
| `DeliverResource`, `DeliverConfigMap`, `DelayElapsed` | informers and timers |
| `CreateResource` ... `DeleteNamespace` | users (external), through the admission webhook when enabled |
| `Add`, `Get`, `Notify` (`WorkQueue`) | `queue.go:20-49`, `controller.go:40-53`; `Change`, `Take`, `Process` are external |

A reconcile is cut only where an API call separates its parts; planner
methods and local computation between two calls are in the step of the call.
`UpsertConfigMap` and `UpdateConfigMapMetadata` read and write in one step: an
interleaved change would only turn the write into the version conflict that
`WriteRefused` already covers.

## 3. Runs that pass

All runs of the controller have three namespaces and `IntWidth` 4. Unless said
otherwise namespace 1 holds the source, 2 and 3 can be targets, and there is one
ConfigPropagation.

| Run | Bounds | Checks |
|---|---|---|
| `lifecycle` | 3 edits among create, update, delete; a rolling/prune/overwrite spec of required fields only, an immediate/detach/skip spec that selects every namespace, the source's included, and a spec whose selector cannot be converted; 1 fault, 1 restart | `TypeOK`, `FinalizerGuard`, `SettledStatus`, `ImplementsOwnership`, `FinalizeComplete`, `SourceKept`, `DeletionCompletes` |
| `rollout` | 3 edits among spec, source content, source deletion, labels; 3 rolling specs; 1 fault, 1 restart | `CompletedIsSynced`, `BatchRespected`, `GaugesAgree` |
| `updates` | 4 edits of the spec: two data keys, selectors, batch sizes and the strategy; 1 restart | `SettledReady` |
| `interference` | 4 edits, users also create, edit, annotate and delete targets; the ConfigMap cache may trail; the CRD serves no status | `DeletionCompletes`, `DetachPreserves` |
| `resync` | 3 edits of resource, source, labels with a resync period, rolling and immediate; 1 fault, 1 restart | `Converges`, `WritesCease` |
| `neighbours` | two propagations `p`, `q` with the sources 1 and 3, to two teams; 4 edits among create, delete, relabel, create and delete a namespace; namespace 3 is selected by `p` and refuses every write | `NoOrphans`, `ImplementsOwnership`, `NeighboursConverge` |
| `content_hash` | all maps from three keys (one a prefix of another) to six values with line feeds, every range order | `Stable`, `Faithful` |
| `work_queue` | three keys, two workers, any number of changes | `Consistent`, `NoLostChange`, `EventuallyRead` |

Why these bounds are enough for the cases of interest: two targets and a batch
of one make a rollout take two batches, so content, selection or the process
can change in between; three edits allow create, change, change back and
create, delete, create, and the fourth edit of `updates` a switch of strategy and
back in the middle of that; the lifecycle run leaves `batchSize` to a
`BATCH_SIZE` of 17, which wraps to 1 in 4 bits; one fault or restart falls on
every step in turn, and the retry after it is not bounded. In `neighbours` four
edits are: create both, then move, remove or bring back the namespace that both
may own, twice, or delete one of them. In `work_queue` three keys are enough for
a key to be overtaken by others for ever, and two workers for two of them to hold
the same key.

Deadlock is not checked (`CHECK_DEADLOCK FALSE`) for the controller because it
comes to rest when nothing is queued; `SettledStatus` and `SettledReady` say what
such a state looks like, and the liveness runs say that it is a good one.
`HashData` ends likewise. `work_queue` checks deadlock.

**Fairness** (`FairSpec`). The worker goroutine keeps running; each informer
eventually delivers an object's newest version; a backoff or `RequeueAfter`
eventually elapses. These are weak fairness of `Work`, `DeliverResource(c)`,
`DeliverConfigMap(ns)` and `DelayElapsed(c)`, and are what controller-runtime
provides. Its queue is first-in first-out, so a key that is in it is taken after
those before it; with several propagations this is strong fairness of `Get(c)`
(the worker is idle again and again, not continuously). Nothing is assumed of
users, failures or restarts, which are bounded instead. In `WorkQueue` handlers
are called for every event and each worker keeps calling `Get`: weak fairness of
`Notify(k)`, `Take(w)` and `Process(w)`. No fairness is given to a single key
there; that it is served follows from the queue's order.

`WritesCease` sees a write of equal content too: it asks where the worker is, not
what the ConfigMaps hold, and it fails if the comparison of hashes is dropped, which
`Converges` does not notice. It says nothing of status writes, which need not cease:
each reconcile stamps `LastSyncTime`, and a reconcile and its event that fall into
different seconds trigger the next one.

`Converges` and `WritesCease` are stated where no one edits targets, reads of
ConfigMaps are current and the policy is overwrite; `NeighboursConverge` where
the sources differ and so do their contents. The next section shows why each of
these is needed.

## 4. Runs that refute a statement of the repository

`PropagationClaims` states what a document or comment says; the run shows what
the code does. Each finding in `PROJECT.json` quotes the line.

| Run | What happens |
|---|---|
| `recreate` | `Finalize` does not `Forget` the planner's entry; a propagation created again under its name is Ready at once and never copied |
| `starvation` | a namespace skipped for a conflict heads every batch; with `batchSize` such namespaces the rollout never reaches the others |
| `user_owned` | a ConfigMap created between the two reads is overwritten under `skip` |
| `source_change` | copies of a former source that no reconcile has rewritten are not found by `Finalize` and stay behind, marked as managed |

Further disagreements, met while modelling and without a run of their own. Each
can be seen with the model as it stands, by checking the formula given under
the settings given (one ConfigPropagation, the settings of `recreate` where nothing
else is said; liveness under `FairSpec` and, where not said otherwise, with a resync
period of 10). `Served` abbreviates
`\A c \in CRs : Live(c) => \A ns \in Selected(cr[c].spec) \ Denied : Synced(cr[c].spec, ns)`.

*What stops or spoils a rollout*

* One namespace that refuses writes aborts the loop before those that sort after
  it, at every retry (`failure_handling_and_resilience.md:26`, "Failures do not
  block healthy namespaces"; `controller.go:286`): `<>[]Served`, an immediate
  spec, `Denied` = {2}, edit `createResource`.
* A rollout goes on only because its status patch is an event; a patch that
  changes nothing (same counts, same second) ends it half way
  (`rollout_strategies.md:20`, "progresses across ticks"; `runtime_controller.go:110`):
  as an invariant, `Settled` implies that no live propagation reports
  `RollingUpdate`; rolling specs with and without `dataKeys`, no resync period,
  `TwoEntries`, edits `createResource` and `updateResource`.
* Rolling, then immediate with other content, then rolling with the old
  content: if the immediate reconcile fails half way, `Forget` is not reached, the
  old completed set is revived, and Ready is reported over copies that hold the
  other content (`configmap_spec.md:105`; `controller.go:180`): `ReadyMeansCopied`, the
  settings of `updates` with `MaxFaults` = 1.
* A namespace that is unlabelled, pruned and labelled again before the cache has
  seen the deletion is marked completed and, with rolling, never visited again
  (`configmap_spec.md:107`, "When a namespace is labeled into selection, a copy appears
  automatically"; `rollout.go:70`): `<>[]Served`, a rolling spec, `InformerLag`, edits
  `createResource` and `relabel`.
* A namespace deleted and created again between two rolling reconciles is still
  in the completed set and never gets its copy back (`configmap_spec.md:107`;
  `rollout.go:61-70`): `<>[]Served`, a rolling spec, edits `createResource`,
  `deleteNamespace` and `createNamespace`.
* Without a resync period a source change is never propagated (`README.md:6`,
  "listens for updates to the `ConfigPropagation` CR, the source ConfigMap, and
  matching namespaces"; only ConfigPropagations are watched,
  `runtime_controller.go:127`): as an invariant, `Settled` implies `Served`; an
  immediate spec without resync, edits `createResource` and `source`.
* A target whose data was edited under an unchanged hash annotation is never
  corrected (`drift_detection_and_conflicts.md:22`, "manual edit to target ->
  overwrite corrects"; `controller.go:280`): `<>[]Served`, an immediate spec, edits
  `createResource` and `editTarget`.

*Who owns a copy*

* `Finalize` lists from a cache that misses the last copies, and releases the
  finalizer (`configmap_spec.md:49`, "prevent orphaned resources";
  `controller.go:316`): `FinalizeComplete`, an immediate spec, `InformerLag`, edits
  `createResource` and `deleteResource`.
* A ConfigMap that a user put in place of a copy after the list was read is
  deleted, since the delete has no precondition (`configmap_spec.md:73`, "Operator
  touches only resources it manages"; `controller_runtime_client.go:187`):
  `[][pc = "cleanup" /\ edits' = edits => \A ns \in Namespaces : cm[ns] # Nil /\
  ~cm[ns].managed => cm'[ns] = cm[ns]]_vars`, an immediate spec, 4 edits among
  `createResource`, `deleteResource`, `deleteTarget` and `createTarget`.
* Two propagations of one source prune each other's copies for ever, since the
  markers name the source (`controller_runtime_client.go:171`): `<>[]Served`, two
  immediate specs of source 1, for the teams a and b.
* The managed label alone makes a ConfigMap count as one's own, so the copy of
  another source with equal content is up to date. When its namespace moves from
  one propagation to the other, the new owner counts it as completed, the former
  one prunes it, and with rolling it is never restored (`controller.go:262, 280`):
  `<>[]Served`, two rolling specs of the sources 1 and 3 with `OneEntry`, edits
  `createResource` and `relabel`.
* A change of `sourceRef` to a source with equal content never rewrites the
  annotation (`controller.go:262, 280`): `<>[]Served`, `SourceChangeSpecs` with resync.
* A selector that matches the source's own namespace makes the source a target;
  under overwrite it is replaced by its filtered data and marked as managed, and
  deletion prunes it (`controller.go:107`): `SourceKept` with an immediate overwrite
  spec that selects everything.
* Metadata added between the two reads of the detach branch is lost
  (`controller.go:338`, "preserve any other metadata";
  `controller_runtime_client.go:196-202`):
  `[][pc = "detach" /\ pc' = "cleanup" /\ cm[at] # Nil /\ cm[at].user => cm'[at].user]_vars`,
  `DetachSpec`, edits `createResource`, `deleteResource` and `annotateTarget`. An update
  removes all labels and annotations of the users' own
  (`target_selection_and_sync.md:22`, "preserves user metadata";
  `controller_runtime_client.go:118`).

*What is deployed*

* The shipped CRD (`configs/crd/configpropagation.yaml`, and the chart's) has no
  `subresources.status`, although `configpropagation_types.go:16` asks for it. Every
  status patch is refused, so every reconcile ends in an error, is retried with
  growing backoff and never reaches the resync period; the status stays empty:
  `<>[]` of `Reported` for live propagations, `StatusServed` = FALSE. `interference`
  runs with this setting: deletions finish and detached data is kept all the same.
* `README.md:26` offers `STRICT_SELECTOR_GUARD` and `ENFORCE_SOURCE_IMMUTABILITY`, but
  nothing calls `ValidateConfigPropagation` of `pkg/adapters/webhooks`. The second would
  give exactly what `source_change` lacks and what the refinement assumes
  (`SourcesFixed`).
* The gauges have no label for the propagation: with two propagations they show
  whichever was reconciled last (`docs/performance.md:10`, "targets per propagation";
  `metrics.go:56-64`): as an invariant, `Settled` implies that `gauges.targets` is the
  target count of every live propagation; two immediate specs of different size.
* `WORKERS` and `RESYNC_SECONDS` of the chart and of `docs/performance.md:16-17` are read nowhere.
* `WorkQueue` does not keep two workers from holding one key at the same time: a key
  is out of the set as soon as it is taken. With the one worker of
  `runtime_controller.go:126` this does not matter.
* A `BATCH_SIZE` beyond int32 becomes negative (`validation.go:73`). Without
  webhooks a propagation that leaves `batchSize` unset still gets its finalizer,
  but `Finalize` fails validation for ever (`configmap_spec.md:110`, "removes
  finalizers"): `DeletionCompletes`, `BatchSizeEnv` = 8, `EnableWebhooksEnv` = FALSE,
  `MinimalSpec`, edits `createResource` and `deleteResource`. (A width of 4 bits stands
  for 32, so 8 stands for 2^31.)

## 5. Proofs

TLAPS proves the following for any number of propagations, namespaces and
labels, any sets of keys, values and specs, and any bounds, from the named
assumptions of `ConfigData`, `SpecRules` and `Propagation`: namespaces are a finite
set of naturals (their order is the string order), specs have the type of the
API, the initial state is typed, `Nil` is neither an object nor a namespace nor
a number nor a digest. What a theorem assumes beyond these is a formula over the constants,
named in its statement.

* `TypeCorrect`: `Spec => []TypeOK`. `TypeOK` alone is not inductive: the
  finalizer and release updates write a copy of `cr[key]`, which must exist.
  `TypeInv` adds that a current copy is a copy of something (`FreshExists`) and
  that the cache holds the server's version unless a change is under way
  (`Coherent`). From the first call after `ValidateSpec` on, the spec in hand is
  `CompleteSpec`: source, selector, strategy, a batch size of at least one, conflict
  policy and prune are set, so the pointers that `controller.go:115, 121, 137, 230`
  follow are not nil. The resync period may stay unset and is looked at before it is
  followed (`runtime_controller.go:111`).
* `FinalizerGuarded`: `Spec => []FinalizerGuard`, with stale caches, lost
  answers and restarts. `GuardInv` adds that what the cache shows as live and
  protected is protected at the server (`CacheGuard`). The finalizer leaves only
  through a release whose copy is current and deleted (`HandCurrent`,
  `PhaseGuard`), and then the cache has seen the deletion too
  (`CacheDeleting`).
* `FinalizationComplete`: if the ConfigMap cache does not trail
  (`~InformerLag`), `Spec => FinalizeComplete`. `CleanInv` says that from
  `listManaged` on, every marked copy of the source is still in `todo`
  (`Remaining`), so none is left at `release` (`ReleaseEmpty`). It needs that
  the copy in hand has the server's source if it is fresh, and that users do
  not forge the markers. Section 4 shows that the assumption is necessary.
* `Refinement`: if the cache does not trail and every spec that users apply to a
  propagation names one source (`SourcesFixed`), `Spec => ImplementsOwnership`. The
  step lemma (`RefinementStep`) maps the status patch, reads, planning, failures
  and restarts to stuttering, `FinalizerCall` to `Guard`, `ReleaseCall` to `Release`,
  `UpsertCall` to `Copy`, `PruneCall` and `DetachCall` to `Drop`, and a user's
  deletion to `Withdraw` or `RequestDelete`. Besides the invariants above it
  needs that every stored, cached or held spec names the source of its
  propagation (`SourceInv`) and that only a guarded resource is marked as
  deleted (`MarkedGuarded`). A reconcile that began before the deletion may still
  write after it; `FinalizerGuard` is what makes this a `Copy` of a guarded or
  deleting propagation. `source_change` shows that `SourcesFixed` is necessary.
* `AllAccounted`: in the protocol every copy has a guarded propagation of its
  source, also when several share one.
* `NothingOrphaned`: under the assumptions of `Refinement`, `Spec => []NoOrphans`. It
  is not proved on the controller again: `AllAccounted` carries over through the
  refinement, and `SourceInv` and `CopiesNamed` (a managed copy names a source)
  translate it back. `source_change` shows what happens without `SourcesFixed`.
* `StatusSettled`, `GaugesAgreed`: `Spec => []SettledStatus` and `Spec => []GaugesAgree`,
  without any hypothesis. `Rests` says that a resource is awaited (an event, a
  key, a timer or the worker will look at it again) or in order. Whoever changes
  a resource leaves an event, and a reconcile ends by leaving a timer or an event
  unless its status patch changes nothing. That patch was computed against the
  copy in hand: if the copy is outdated something still awaits the resource
  (`HandSeen`), if not, the status that stays is the one computed from the result.
  Its counts add up (`ResultAdds`) because `syncTargets` deals every target to
  exactly one of todo, done and skipped, away from what the planner had completed
  (`LoopParts`), and cardinalities of disjoint sets add.
* `BatchesRespected`: `Spec => []BatchRespected`, without any hypothesis. `BatchCount` says
  that `NextBatch` has as many members as the batch size, or all the pending ones:
  counting the namespaces before each (`Place`) is a bijection between the pending
  ones and 0 to their number less one, and the batch is what it maps below the batch
  size. `CompleteSpec` gives that the batch size is at least one, also where a
  `BATCH_SIZE` beyond int32 was the default, and `LoopParts` that the loop only moves
  namespaces from todo to done and skipped.
* `DetachPreserved`: `Spec => DetachPreserves`, without any hypothesis: the cache
  holds the server's version of every ConfigMap that is not stale
  (`CopiesCoherent`), and a write to a stale one is refused.
* `SourcesKept`: if every propagation that may ever select a source's namespace
  (`MaySelect`) skips conflicts and users do not take that source away
  (`SourcesSafe`), `Spec => SourceKept`, also with a trailing cache. `SparedInv` says
  that sources carry no markers, at the server and in the cache, so `Lookup` finds
  a conflict and `ListManaged` does not list them. Section 4 shows what happens
  under overwrite; a source that is deleted after a reconcile has read it leaves
  nothing to be in conflict with, and the loop puts a managed copy in its place.
* `CompletedSynced`: under `RolloutSetting` and `StrategyFixed`,
  `Spec => []CompletedIsSynced`, through changes of specs, source contents and
  labels, failures, lost answers and restarts. `RolloutInv` says that a managed
  copy carries the hash of its data and lies in the territory of a propagation of
  its source (`MarkersOwned`), that completed namespaces hold the hash
  (`CompletedHeld`), and that so does what the loop has done (`LoopHolds`). It needs
  that the loops never touch a completed namespace: `syncTargets` leaves them out,
  and `cleanupDeselected` works outside the targets, to which `Plan` has cut the
  completed set down (`LoopPlaces`).
* `ReadySettled`: under `ReadySetting`, `Spec => []SettledReady`. `LoopCurrent` says that
  what the worker has read is still so, that with nothing out of sync all targets
  hold the content, and that what else is marked is still in `todo`; `SpecSeen` that
  an outdated spec in hand will be read again; `ReadyRests` that a propagation
  nobody awaits and that says Reconciled is applied. That equal hashes mean equal
  content is `HashInjective`, from the abstraction of the digest.
* `QueueConsistent`, `ChangesKept`: `Consistent` and `NoLostChange` of the work queue, for
  any number of keys and workers, from `None \notin Keys`. `Consistent` is inductive
  as it stands, with lemmas on what appending to and taking from an injective
  sequence leave; `NoLostChange` needs it: that `Add` may drop a key in the set
  because the key is then in the slice.
* `HashStable`, `HashFaithful`: `Stable` and `Faithful` of `ContentHash`, for
  any finite map of any keys and values within `NamesAssumption` and
  `ContentsAssumption`. `HashInv` says that the keys collected and those not visited
  are the map's, each once, and that from `Sort` on the keys left are the rest of the
  list of ranks and the text that of the entries before. `Before` is a strict total
  order (`BeforeAsymmetric`, `BeforeTransitive`, `BeforeTotal`), so the number of smaller
  keys gives every key a place of its own (`KeyAtFacts`), and a permutation without
  inversion is the list in that order (`SortedKeys`). For `Faithful` a text is read
  back: a key ends at the first NUL, and the value at the last line feed before the
  next NUL or the end, since neither is in a key and no NUL is in a value (`ReadOnce`).
  Two maps with the same text then agree on their entries one after the other
  (`SerialisedInjective`). Where one would use induction over the entries, the proofs
  take the least counterexample (`LeastElement`, from well-foundedness of the
  naturals, which takes no operator as a parameter).

The hypotheses of `CompletedSynced` and `ReadySettled`, and why the code needs them (each was found by
TLC as a counterexample to the invariant without it; several are findings or
are described in section 4):

| Hypothesis | Without it |
|---|---|
| `~InformerLag` | a pruned namespace that is labelled again is found up to date in the cache and marked completed |
| `Apart`: propagations have their own sources and namespaces | they prune or adopt each other's copies |
| `CopiesLeftAlone`: no edits or deletions of targets, no deletions of namespaces | an edit under an unchanged hash annotation; a namespace that is created again |
| `NothingRevived`: propagations are not deleted, or all are immediate | `recreate`: the planner's entry outlives a rolling propagation |
| `StrategyFixed`, or `NothingFails` | an immediate reconcile overwrites what a rollout completed; while it runs this breaks `CompletedIsSynced`, and if it fails half way the planner never forgets, which breaks `SettledReady` |
| sources and labels stay (`ReadySetting` only) | they are not watched |
| one source per propagation (`ReadySetting` only) | a copy of the old source with equal content counts as up to date |

The constants of `rollout` satisfy `RolloutSetting` and `StrategyFixed`, those of `updates`
`ReadySetting` (with changes of the strategy, and `NothingFails`), those of `lifecycle` and
`interference` `SourcesSafe`, so that each theorem speaks of the instance that TLC
checks and of all larger ones. All the invariants above were checked by TLC on
such instances before they were proved; `SettledReady` with
deletions on the settings of `updates` with immediate specs only, `deleteResource`
and a fault.

The proofs split `[Next]_vars` by kinds of steps: `PropagationSteps` holds the typing
of the helper operators and one lemma for each write
(`FinalizerFacts`, `UpsertFacts`, ...), used both by the action that succeeds and by
`ReplyLost`, what users can change (`UserFacts`), and which steps can change a given
variable or move the worker (`StepKinds`, `HandKinds`, `LoopKinds`, ...).

Only model-checked: the liveness properties (`Converges`, `WritesCease`,
`NeighboursConverge`, `DeletionCompletes`, `EventuallyRead`), since fairness and `ENABLED` are
out of the prover's reach. Every safety property of a passing run has its theorem.

## 6. Not modelled

* Lag of the namespace informer, label changes of the source's own namespace, and
  the time a namespace spends terminating: it goes in one step with its ConfigMap.
  A cache moves from one version of an object to the newest; intermediate
  versions are not shown to the reader.
* Finalizers of other controllers on the resource.
* Events, counters, the duration histogram, logs and message texts: nothing reads
  them back.
* Two replicas: leader election, off by default (`main.go:44`), is taken to be on
  and to work. A second process would need a planner, caches and a worker of
  its own.
* Values of ConfigMaps that contain NUL characters, for which `Faithful` does not hold.
* Selector keys and values that the API server or the labels library refuses for
  their syntax; every refusal of the library is represented by an operator with
  the wrong number of values.
* The webhook guardrails, which no code calls, and the deep copies: values of the
  model are immutable.

## 7. What could come next

Modelling is complete up to section 6, and every invariant and every action
property that a passing run checks is proved. What could be weakened further is the
setting of `ReadySettled`: changes of sources and labels could be admitted if `Settled`
were replaced by "no change since the last reconcile was read", which needs a
history of what each reconcile has seen. A second operator process (section 6)
would be a model of its own.
