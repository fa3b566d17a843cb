---------------------------- MODULE Propagation -----------------------------
(***************************************************************************)
(* The ConfigPropagation controller and the cluster around it.             *)
(*                                                                         *)
(* The API server holds the ConfigPropagations (cr), one ConfigMap per     *)
(* namespace under the propagated name (cm) and the namespaces' labels.    *)
(* The controller reads all of them through informer caches and writes to  *)
(* the API server. Its single worker (MaxConcurrentReconciles: 1) takes a  *)
(* key from the work queue and runs runtime_controller.go's Reconcile; pc  *)
(* is the API call it is about to make, so that users, informers, timers   *)
(* and crashes interleave between any two calls:                           *)
(*                                                                         *)
(*   idle -> finalizer -> source -> list -> lookup <-> upsert              *)
(*        -> listManaged -> cleanup <-> detach -> patch    -> idle         *)
(*   any error of these                        -> errpatch -> idle, retry  *)
(*   deletion: idle -> listManaged -> cleanup <-> detach -> release -> idle*)
(*                                                                         *)
(* An Update carries the resource version that was read and succeeds only  *)
(* if that version is still current. cmStale and crStale are the objects   *)
(* whose newest version has not reached the cache; fresh says whether the  *)
(* ConfigPropagation in the worker's hand is still the current version.    *)
(***************************************************************************)
EXTENDS RolloutPlanner

CONSTANTS
    CRs,            \* names of ConfigPropagations
    Specs,          \* ConfigPropagation -> the specs users apply to it
    InitialLabels,  \* namespace -> its labels at the start, Nil if it does not exist
    SourceNamespaces, \* where users keep source ConfigMaps
    InitialData,    \* source namespace -> content of the source at the start
    Edits,          \* which kinds of change the users make
    Denied,         \* namespaces where a quota or policy refuses the operator's ConfigMaps
    EnableWebhooksEnv, \* ENABLE_WEBHOOKS as a boolean, Nil if unset or not one
    StatusServed,   \* the installed CRD has the status subresource
    InformerLag,    \* whether the ConfigMap cache may trail the API server
    MaxEdits,       \* bound on user changes
    MaxFaults,      \* bound on failed API calls
    MaxCrashes      \* bound on restarts of the operator

ASSUME SpecsAssumption == Specs \in [CRs -> SUBSET SpecType]
ASSUME LabelsAssumption == InitialLabels \in [Namespaces -> LabelMaps \cup {Nil}]
ASSUME SourceAssumption == SourceNamespaces \subseteq Namespaces
ASSUME InitialDataAssumption == InitialData \in [SourceNamespaces -> Data]
ASSUME LagAssumption == InformerLag \in BOOLEAN

VARIABLES
    \* API server
    cm,         \* namespace -> ConfigMap or Nil
    labels,     \* namespace -> its labels, Nil if it does not exist
    cr,         \* ConfigPropagation or Nil
    \* informer caches and the controller's work queue
    cmCache, cmStale, crCache, crStale,
    queued,     \* keys to reconcile
    delayed,    \* keys waiting for a retry backoff or the resync period
    \* operator memory
    planner,    \* rolloutPlanner.states
    recent,     \* CRs whose status may carry the current second as LastSyncTime
    gauges,     \* targetsGauge and outOfSyncGauge
    \* the worker
    pc, key,
    hand,       \* the ConfigPropagation read from the cache, spec defaulted
    fresh,      \* hand is the API server's current version
    data,       \* effectiveData
    targets,    \* targetNamespaces
    todo,       \* namespaces the current loop still has to visit
    at,         \* the namespace being written, Nil between two
    done, skipped, \* syncSummary.completed, syncSummary.outOfSync
    result,     \* RolloutResult
    meta,       \* user metadata read by the detach branch
    \* bounds
    edits, faults, crashes

clusterVars == <<cm, labels, cr>>
cacheVars   == <<cmCache, cmStale, crCache, crStale>>
queueVars   == <<queued, delayed>>
memoryVars  == <<planner, recent, gauges>>
localVars   == <<data, targets, todo, at, done, skipped, result, meta>>
workerVars  == <<pc, key, hand, fresh, localVars>>
boundVars   == <<edits, faults, crashes>>
vars == <<clusterVars, cacheVars, queueVars, memoryVars, workerVars, boundVars>>

-----------------------------------------------------------------------------
(* Objects                                                                 *)

ConfigMaps ==
    [data    : Data,
     managed : BOOLEAN,                 \* ManagedLabel = "true"
     source  : Namespaces \cup {Nil},   \* SourceAnnotation
     hash    : Hashes,                  \* HashAnnotation
     user    : BOOLEAN]                 \* carries labels or annotations of the users' own

Reasons == {"ConflictPolicySkip", "PendingRollout", "PendingSync"}
OutOfSyncItems == SUBSET (Namespaces \X Reasons)

\* The Ready, Progressing and Degraded conditions are always set together;
\* their messages name the counts of the RolloutResult.
Conditions ==
    [reason : {"Unknown", "Reconciled", "RollingUpdate", "Error"},
     completed : Nat, total : Nat, batch : Nat]

Statuses ==
    [targetCount : Nat, syncedCount : Nat, outOfSyncCount : Nat,
     outOfSync : OutOfSyncItems, conditions : Conditions]

NoCondition == [reason |-> "Unknown", completed |-> 0, total |-> 0, batch |-> 0]
NewStatus == [targetCount |-> 0, syncedCount |-> 0, outOfSyncCount |-> 0,
              outOfSync |-> {}, conditions |-> NoCondition]

Resources ==
    [spec : SpecType, deleting : BOOLEAN, finalizer : BOOLEAN, status : Statuses]

Results ==
    [planned : Nat, total : Nat, completed : Nat, outOfSync : OutOfSyncItems]
Gauges == [targets : Nat, outOfSync : Nat]
NoGauges == [targets |-> 0, outOfSync |-> 0]
NoResult == [planned |-> 0, total |-> 0, completed |-> 0, outOfSync |-> {}]

\* An object is never confused with its absence.
ASSUME NilAssumption == Nil \notin Resources /\ Nil \notin ConfigMaps /\ Nil \notin Namespaces

UserConfigMap(d) ==
    [data |-> d, managed |-> FALSE, source |-> Nil, hash |-> Nil, user |-> FALSE]

\* The existing namespaces that the selector matches.
Selected(spec) ==
    {ns \in Namespaces : labels[ns] # Nil /\ Selects(spec.selector, labels[ns])}

\* Whether ListManagedTargetNamespaces reports a ConfigMap of this source.
ListedFor(configMap, source) ==
    configMap # Nil /\ configMap.managed /\ configMap.source = source

\* Whether syncTargets regards a ConfigMap as managed: either marker is enough.
ManagedFor(configMap, source) ==
    configMap # Nil /\ (configMap.managed \/ configMap.source = source)

-----------------------------------------------------------------------------
(* Writes to the API server                                                *)

WriteConfigMap(ns, value) ==
    /\ cm' = [cm EXCEPT ![ns] = value]
    /\ IF InformerLag
       THEN cmStale' = cmStale \cup {ns} /\ UNCHANGED cmCache
       ELSE cmCache' = cm' /\ UNCHANGED cmStale

\* A deletion; of a ConfigMap that is not there, it does nothing.
RemoveConfigMap(ns) ==
    IF cm[ns] = Nil THEN UNCHANGED <<cm, cmCache, cmStale>> ELSE WriteConfigMap(ns, Nil)

WriteResource(c, value) ==
    /\ cr' = [cr EXCEPT ![c] = value]
    /\ crStale' = crStale \cup {c}
    /\ UNCHANGED crCache

-----------------------------------------------------------------------------
(* How a reconcile ends                                                    *)

ResetLocals ==
    /\ data' = EmptyData /\ targets' = {} /\ todo' = {} /\ at' = Nil
    /\ done' = {} /\ skipped' = {} /\ result' = NoResult /\ meta' = FALSE

\* Reconcile has returned and the worker takes the next key.
Return == pc' = "idle" /\ key' = Nil /\ hand' = Nil /\ fresh' = FALSE /\ ResetLocals

\* The error is swallowed and the key is not added again.
ReturnErrorDropped == Return /\ UNCHANGED queueVars

\* Reconcile returned an error: controller-runtime adds the key again after a backoff.
ReturnError ==
    /\ Return
    /\ delayed' = delayed \cup {key}
    /\ UNCHANGED queued

\* The steps that are one call of the KubeClient interface each; lookup and
\* cleanup are the loops that make its other calls.
ClientCalls == {"source", "list", "upsert", "listManaged", "detach"}

\* The Updates and status patches that the runtime controller sends itself.
ControllerCalls == {"finalizer", "patch", "errpatch", "release"}

Calls == ClientCalls \cup ControllerCalls

\* An API call fails. Errors of reconciler.Reconcile go through the error
\* status; those of Finalize and of the controller's own calls are returned.
CallFails ==
    IF hand.deleting \/ pc \in ControllerCalls
    THEN ReturnError
    ELSE /\ pc' = "errpatch"
         /\ ResetLocals
         /\ UNCHANGED <<key, hand, fresh, queueVars>>

\* The rest of the worker is untouched while a loop advances to pc = next.
Advance(next) ==
    /\ pc' = next
    /\ UNCHANGED <<key, hand, fresh, queueVars>>

-----------------------------------------------------------------------------
(* runtime_controller.go, Reconcile: reading the resource, the finalizer   *)

\* controller.reconciler.Reconcile and Finalize begin alike: default, validate.
Begin(c, resource, current) ==
    LET spec == DefaultSpec(resource.spec)
        copy == [resource EXCEPT !.spec = spec]
    IN  IF ValidateSpec(spec)
        THEN /\ pc' = IF resource.deleting THEN "listManaged" ELSE "source"
             /\ key' = c /\ hand' = copy /\ fresh' = current
             /\ ResetLocals
             /\ UNCHANGED delayed
        ELSE IF resource.deleting
        THEN Return /\ delayed' = delayed \cup {c}
        ELSE /\ pc' = "errpatch"
             /\ key' = c /\ hand' = copy /\ fresh' = current
             /\ ResetLocals
             /\ UNCHANGED delayed

\* The worker takes a key and Gets the resource from the cache: not found, or
\* deleted and already released, ends the reconcile; a live resource without
\* the finalizer gets it first.
Get(c) ==
    /\ pc = "idle" /\ c \in queued
    /\ queued' = queued \ {c}
    /\ \/ /\ crCache[c] # Nil => crCache[c].deleting /\ ~crCache[c].finalizer
          /\ UNCHANGED <<workerVars, delayed>>
       \/ /\ crCache[c] # Nil /\ ~crCache[c].deleting /\ ~crCache[c].finalizer
          /\ pc' = "finalizer" /\ key' = c /\ hand' = crCache[c] /\ fresh' = (c \notin crStale)
          /\ UNCHANGED <<localVars, delayed>>
       \/ /\ crCache[c] # Nil /\ crCache[c].finalizer
          /\ Begin(c, crCache[c], c \notin crStale)
    /\ UNCHANGED <<clusterVars, cacheVars, memoryVars, boundVars>>

\* The Get fails for another reason than that there is no such resource.
GetFailed(c) ==
    /\ faults < MaxFaults
    /\ pc = "idle" /\ c \in queued
    /\ queued' = queued \ {c}
    /\ delayed' = delayed \cup {c}
    /\ faults' = faults + 1
    /\ UNCHANGED <<clusterVars, cacheVars, memoryVars, workerVars, edits, crashes>>

\* The finalizer is added to the copy in memory but not sent.
FinalizerCallUnsent ==
    /\ pc = "finalizer" /\ fresh
    /\ UNCHANGED <<clusterVars, cacheVars, memoryVars>>

\* The Update that adds the finalizer, with the resource version of the cache.
FinalizerCall ==
    /\ pc = "finalizer" /\ fresh
    /\ WriteResource(key, [cr[key] EXCEPT !.finalizer = TRUE])
    /\ UNCHANGED <<cm, labels, cmCache, cmStale, memoryVars>>

AddFinalizer ==
    /\ FinalizerCall
    /\ Begin(key, cr'[key], TRUE)
    /\ UNCHANGED <<queued, boundVars>>

\* An Update of a resource that has changed or gone since it was read.
UpdateConflict ==
    /\ pc \in {"finalizer", "release"} /\ ~fresh
    /\ ReturnError
    /\ UNCHANGED <<clusterVars, cacheVars, memoryVars, boundVars>>

-----------------------------------------------------------------------------
(* controller.go, reconcileImpl                                            *)

ReadSource ==
    /\ pc = "source"
    /\ LET source == cmCache[hand.spec.source]
       IN  IF source = Nil
           THEN CallFails
           ELSE /\ Advance("list")
                /\ data' = ComputeEffective(source.data, hand.spec.dataKeys)
                /\ UNCHANGED <<targets, todo, at, done, skipped, result, meta>>
    /\ UNCHANGED <<clusterVars, cacheVars, memoryVars, boundVars>>

\* listTargets, then planTargets: immediate plans every target and leaves the
\* planner alone, rolling plans the next batch.
ListAndPlan ==
    LET selected == Selected(hand.spec)
        state    == PlannedState(planner[key], HashData(data), selected)
    IN  /\ pc = "list" /\ Convertible(hand.spec.selector)
        /\ Advance("lookup")
        /\ targets' = selected
        /\ IF hand.spec.strategy = "immediate"
           THEN todo' = selected /\ UNCHANGED planner
           ELSE /\ planner' = [planner EXCEPT ![key] = state]
                /\ todo' = NextBatch(state.completed, hand.spec.batchSize, selected)
        /\ UNCHANGED <<data, at, done, skipped, result, meta>>
        /\ UNCHANGED <<clusterVars, cacheVars, recent, gauges, boundVars>>

\* A selector that was admitted but that the labels library does not accept.
SelectorRejected ==
    /\ pc = "list" /\ ~Convertible(hand.spec.selector)
    /\ CallFails
    /\ UNCHANGED <<clusterVars, cacheVars, memoryVars, boundVars>>

\* The next planned namespace in order.
IsFirst(ns) == ns \in todo /\ \A m \in todo : ns <= m

\* Every ConfigMap in the way is replaced, whatever the policy.
ConflictNever(target) == FALSE

\* A ConfigMap of the users that conflictPolicy skip leaves alone.
Conflict(target) ==
    /\ target # Nil /\ ~ManagedFor(target, hand.spec.source)
    /\ hand.spec.conflictPolicy = "skip"

\* Every target is written again, whatever its hash annotation says.
UpToDateNever(target) == FALSE

\* A managed ConfigMap whose hash annotation is that of the desired content.
UpToDate(target) ==
    ManagedFor(target, hand.spec.source) /\ target.hash = HashData(data)

\* syncTargets, first half of an iteration: GetTargetConfigMap decides
\* between leaving a conflict alone, nothing to do, and a write.
Lookup(ns) ==
    LET target == cmCache[ns]
    IN  /\ pc = "lookup" /\ IsFirst(ns)
        /\ \/ /\ Conflict(target)
              /\ Advance("lookup")
              /\ skipped' = skipped \cup {ns} /\ todo' = todo \ {ns}
              /\ UNCHANGED <<done, at>>
           \/ /\ UpToDate(target)
              /\ Advance("lookup")
              /\ done' = done \cup {ns} /\ todo' = todo \ {ns}
              /\ UNCHANGED <<skipped, at>>
           \/ /\ ~Conflict(target) /\ ~UpToDate(target)
              /\ Advance("upsert")
              /\ at' = ns
              /\ UNCHANGED <<skipped, done, todo>>
        /\ UNCHANGED <<data, targets, result, meta>>
        /\ UNCHANGED <<clusterVars, cacheVars, memoryVars, boundVars>>

\* What UpsertConfigMap leaves behind: every label and annotation is replaced.
Target ==
    [data |-> data, managed |-> TRUE, source |-> hand.spec.source,
     hash |-> HashData(data), user |-> FALSE]

\* Where the API server refuses a Create or an Update: the namespace is
\* denied or gone, or the version that was read is not the current one.
Refused == Denied \cup cmStale \cup {ns \in Namespaces : labels[ns] = Nil}

\* UpsertConfigMap: Get from the cache, then Create or Update.
UpsertCall ==
    /\ pc = "upsert" /\ at \notin Refused
    /\ WriteConfigMap(at, Target)
    /\ UNCHANGED <<labels, cr, crCache, crStale, memoryVars>>

Upsert ==
    /\ UpsertCall
    /\ Advance("lookup")
    /\ done' = done \cup {at} /\ todo' = todo \ {at} /\ at' = Nil
    /\ UNCHANGED <<data, targets, skipped, result, meta, boundVars>>

WriteRefused ==
    /\ pc \in {"upsert", "detach"} /\ at \in Refused
    /\ CallFails
    /\ UNCHANGED <<clusterVars, cacheVars, memoryVars, boundVars>>

\* Counts the skipped namespaces among the pending ones too.
PendingWithSkipped(completed) == targets \ completed

\* Targets that are neither completed nor left alone on purpose.
Pending(completed) == (targets \ completed) \ skipped

\* reconcileImpl after the loop: what is completed, what is out of sync and why.
Report ==
    LET hash      == HashData(data)
        rolling   == hand.spec.strategy = "rolling"
        state     == MarkCompleted(planner[key], hash, done)
        completed == IF rolling THEN CompletedNamespaces(state, hash) ELSE done
    IN  /\ pc = "lookup" /\ todo = {}
        /\ Advance("listManaged")
        /\ planner' = [planner EXCEPT ![key] = IF rolling THEN state ELSE Forget(@)]
        /\ result' = [planned   |-> Cardinality(done \cup skipped),
                      total     |-> Cardinality(targets),
                      completed |-> Cardinality(completed),
                      outOfSync |-> (skipped \X {"ConflictPolicySkip"}) \cup
                          (Pending(completed) \X {IF rolling THEN "PendingRollout" ELSE "PendingSync"})]
        /\ UNCHANGED <<data, targets, todo, at, done, skipped, meta>>
        /\ UNCHANGED <<clusterVars, cacheVars, recent, gauges, boundVars>>

-----------------------------------------------------------------------------
(* controller.go, cleanupDeselected; Finalize is the same with no targets  *)

ListManaged ==
    /\ pc = "listManaged"
    /\ Advance("cleanup")
    /\ todo' = {ns \in Namespaces \ targets : ListedFor(cmCache[ns], hand.spec.source)}
    /\ UNCHANGED <<data, targets, at, done, skipped, result, meta>>
    /\ UNCHANGED <<clusterVars, cacheVars, memoryVars, boundVars>>

\* DeleteConfigMap carries no precondition; a missing ConfigMap is no error.
PruneCall(ns) ==
    /\ pc = "cleanup" /\ ns \in todo /\ hand.spec.prune
    /\ RemoveConfigMap(ns)
    /\ UNCHANGED <<labels, cr, crCache, crStale, memoryVars>>

Prune(ns) ==
    /\ PruneCall(ns)
    /\ Advance("cleanup")
    /\ todo' = todo \ {ns}
    /\ UNCHANGED <<data, targets, at, done, skipped, result, meta, boundVars>>

\* The detach branch reads the target's metadata, or finds it gone.
DetachLookup(ns) ==
    /\ pc = "cleanup" /\ ns \in todo /\ ~hand.spec.prune
    /\ IF cmCache[ns] = Nil
       THEN /\ Advance("cleanup")
            /\ todo' = todo \ {ns}
            /\ UNCHANGED <<at, meta>>
       ELSE /\ Advance("detach")
            /\ at' = ns /\ meta' = cmCache[ns].user
            /\ UNCHANGED todo
    /\ UNCHANGED <<data, targets, done, skipped, result>>
    /\ UNCHANGED <<clusterVars, cacheVars, memoryVars, boundVars>>

\* Writes back the ConfigMap it read without its resource version.
DetachCallUnversioned ==
    /\ pc = "detach" /\ at \notin Denied /\ cmCache[at] # Nil
    /\ WriteConfigMap(at, [cmCache[at] EXCEPT !.managed = FALSE, !.source = Nil,
                                              !.hash = Nil, !.user = meta])
    /\ UNCHANGED <<labels, cr, crCache, crStale, memoryVars>>

\* UpdateConfigMapMetadata: a second Get, then an Update that replaces the
\* labels and annotations by those read before, without the markers.
DetachCall ==
    /\ pc = "detach" /\ at \notin Refused /\ cmCache[at] # Nil
    /\ WriteConfigMap(at, [cmCache[at] EXCEPT !.managed = FALSE, !.source = Nil,
                                              !.hash = Nil, !.user = meta])
    /\ UNCHANGED <<labels, cr, crCache, crStale, memoryVars>>

Detach ==
    /\ DetachCall
    /\ Advance("cleanup")
    /\ todo' = todo \ {at} /\ at' = Nil /\ meta' = FALSE
    /\ UNCHANGED <<data, targets, done, skipped, result, boundVars>>

\* Between the two Gets of the detach branch the ConfigMap disappeared.
DetachTargetGone ==
    /\ pc = "detach" /\ cmCache[at] = Nil
    /\ CallFails
    /\ UNCHANGED <<clusterVars, cacheVars, memoryVars, boundVars>>

\* Sets only what is not zero.
ObserveTargetsNonZero(total, outOfSync) ==
    gauges' = [targets |-> total, outOfSync |-> IF outOfSync = 0 THEN gauges.outOfSync ELSE outOfSync]

\* metrics.go, ObserveTargets: the two gauges have no label for the propagation.
ObserveTargets(total, outOfSync) == gauges' = [targets |-> total, outOfSync |-> outOfSync]

\* Ends the loop before every listed namespace is cleaned up.
EndCleanupEarly ==
    /\ pc = "cleanup"
    /\ Advance(IF hand.deleting THEN "release" ELSE "patch")
    /\ UNCHANGED <<localVars, clusterVars, cacheVars, memoryVars, boundVars>>

\* The loop is over: Finalize returns; Reconcile sets the gauges and returns.
EndCleanup ==
    /\ pc = "cleanup" /\ todo = {}
    /\ Advance(IF hand.deleting THEN "release" ELSE "patch")
    /\ IF hand.deleting THEN UNCHANGED gauges
       ELSE ObserveTargets(result.total, Cardinality(result.outOfSync))
    /\ UNCHANGED <<localVars, clusterVars, cacheVars, planner, recent, boundVars>>

\* The Update that removes the finalizer lets the API server drop the resource.
ReleaseCall ==
    /\ pc = "release" /\ fresh
    /\ WriteResource(key, Nil)
    /\ UNCHANGED <<cm, labels, cmCache, cmStale, memoryVars>>

Release ==
    /\ ReleaseCall
    /\ Return
    /\ UNCHANGED <<queueVars, boundVars>>

-----------------------------------------------------------------------------
(* webhook.go, ApplyRolloutStatus and ApplyErrorStatus, and the status     *)
(* patch of runtime_controller.go                                          *)

ApplyRolloutStatus(r) ==
    LET pending == Cardinality(r.outOfSync)
    IN  [targetCount    |-> r.total,
         syncedCount    |-> r.completed,
         outOfSyncCount |-> pending,
         outOfSync      |-> r.outOfSync,
         conditions     |->
            [reason    |-> IF pending > 0 THEN "RollingUpdate" ELSE "Reconciled",
             completed |-> r.completed,
             total     |-> r.total,
             batch     |-> IF pending > 0 THEN r.planned ELSE 0]]

\* Counts are left as they were.
ApplyErrorStatus(status) ==
    [status EXCEPT !.conditions = [NoCondition EXCEPT !.reason = "Error"]]

Sent(old, new, current) == IF new = old THEN current ELSE new

\* client.MergeFrom sends the fields that differ from the copy in hand. The
\* conditions carry a timestamp: unless it is the copy's own second, they
\* and LastSyncTime differ (stamped).
MergePatch(old, new, current, stamped) ==
    [targetCount    |-> Sent(old.targetCount, new.targetCount, current.targetCount),
     syncedCount    |-> Sent(old.syncedCount, new.syncedCount, current.syncedCount),
     outOfSyncCount |-> Sent(old.outOfSyncCount, new.outOfSyncCount, current.outOfSyncCount),
     outOfSync      |-> Sent(old.outOfSync, new.outOfSync, current.outOfSync),
     conditions     |-> IF stamped THEN new.conditions
                        ELSE Sent(old.conditions, new.conditions, current.conditions)]

\* Status().Patch names no resource version, so it never conflicts. A patch
\* that changes nothing leaves the resource version alone: no watch event.
StatusCall(new, stamped) ==
    LET merged == MergePatch(hand.status, new, cr[key].status, stamped)
    IN  /\ StatusServed /\ cr[key] # Nil
        /\ stamped \/ key \in recent
        /\ IF stamped \/ merged # cr[key].status
           THEN WriteResource(key, [cr[key] EXCEPT !.status = merged])
           ELSE UNCHANGED <<cr, crCache, crStale>>
        /\ recent' = recent \cup {key}
        /\ UNCHANGED <<cm, labels, cmCache, cmStale, planner, gauges>>

PatchCall == pc = "patch" /\ \E stamped \in BOOLEAN :
                                StatusCall(ApplyRolloutStatus(result), stamped)

\* Never asks to be called again.
PatchStatusNoResync ==
    /\ PatchCall
    /\ Return
    /\ UNCHANGED <<queueVars, boundVars>>

\* The resync period is read from the patch's answer, the API server's copy.
PatchStatus ==
    /\ PatchCall
    /\ Return
    /\ delayed' = IF cr[key].spec.resync # Nil /\ cr[key].spec.resync > 0
                  THEN delayed \cup {key} ELSE delayed
    /\ UNCHANGED <<queued, boundVars>>

PatchErrorCall == pc = "errpatch" /\ \E stamped \in BOOLEAN :
                                StatusCall(ApplyErrorStatus(hand.status), stamped)

PatchErrorStatus ==
    /\ PatchErrorCall
    /\ ReturnError
    /\ UNCHANGED boundVars

\* The API server does not know the status endpoint. Reconcile returns this
\* error, or logs it and returns the one it was to report.
StatusRefused ==
    /\ pc \in {"patch", "errpatch"} /\ ~StatusServed
    /\ ReturnError
    /\ UNCHANGED <<clusterVars, cacheVars, memoryVars, boundVars>>

-----------------------------------------------------------------------------
(* Failures, and what controller-runtime does around the worker            *)

\* An API call fails without effect.
ApiFailure ==
    /\ faults < MaxFaults
    /\ pc \in Calls \/ (pc \in {"lookup", "cleanup"} /\ todo # {})
    /\ CallFails
    /\ faults' = faults + 1
    /\ UNCHANGED <<clusterVars, cacheVars, memoryVars, edits, crashes>>

\* A write takes effect but its answer is lost.
ReplyLost ==
    /\ faults < MaxFaults
    /\ \/ FinalizerCall
       \/ UpsertCall
       \/ \E ns \in Namespaces : PruneCall(ns)
       \/ DetachCall
       \/ ReleaseCall
       \/ PatchCall
       \/ PatchErrorCall
    /\ CallFails
    /\ faults' = faults + 1
    /\ UNCHANGED <<edits, crashes>>

\* The operator's process dies and starts again: the planner and the queue
\* are lost, the caches are filled from the API server and every existing
\* ConfigPropagation is reported as added.
Crash ==
    /\ crashes < MaxCrashes
    /\ crashes' = crashes + 1
    /\ Return
    /\ planner' = [c \in CRs |-> Nil]
    /\ recent' = {} /\ gauges' = NoGauges
    /\ cmCache' = cm /\ cmStale' = {}
    /\ crCache' = cr /\ crStale' = {}
    /\ queued' = {c \in CRs : cr[c] # Nil}
    /\ delayed' = {}
    /\ UNCHANGED <<clusterVars, edits, faults>>

\* The ConfigPropagation informer delivers a change and its handler enqueues
\* the key. It is the only watch SetupWithManager registers.
DeliverResource(c) ==
    /\ c \in crStale
    /\ crCache' = [crCache EXCEPT ![c] = cr[c]]
    /\ crStale' = crStale \ {c}
    /\ queued' = queued \cup {c}
    /\ UNCHANGED <<clusterVars, cmCache, cmStale, delayed, memoryVars, workerVars, boundVars>>

\* The ConfigMap informer catches up: no handler is attached to it.
DeliverConfigMap(ns) ==
    /\ ns \in cmStale
    /\ cmCache' = [cmCache EXCEPT ![ns] = cm[ns]]
    /\ cmStale' = cmStale \ {ns}
    /\ UNCHANGED <<clusterVars, crCache, crStale, queueVars, memoryVars, workerVars, boundVars>>

\* A backoff or the resync period has passed.
DelayElapsed(c) ==
    /\ c \in delayed
    /\ delayed' = delayed \ {c}
    /\ queued' = queued \cup {c}
    /\ UNCHANGED <<clusterVars, cacheVars, memoryVars, workerVars, boundVars>>

-----------------------------------------------------------------------------
(* The users of the cluster                                                *)

\* One change of the users, of a kind the model enables.
UserEdit(kind) ==
    /\ kind \in Edits /\ edits < MaxEdits
    /\ edits' = edits + 1
    /\ UNCHANGED <<queueVars, memoryVars, pc, key, hand, localVars, faults, crashes>>

\* main.go, defaultEnableWebhooks; the flag --enable-webhooks sets the same thing.
WebhooksEnabled == IF EnableWebhooksEnv = Nil THEN TRUE ELSE EnableWebhooksEnv

\* What the API server stores of an applied spec: the webhook, when enabled,
\* defaults it first.
Admitted(spec) == IF WebhooksEnabled THEN DefaultSpec(spec) ELSE spec

\* ValidateCreate and ValidateUpdate.
Admissible(spec) == WebhooksEnabled => ValidateSpec(Admitted(spec))

\* A user's write to c: a copy of it in the worker's hand is no longer current.
UserWritesResource(c, value) ==
    /\ WriteResource(c, value)
    /\ fresh' = (fresh /\ key # c)
    /\ UNCHANGED <<cm, labels, cmCache, cmStale>>

CreateResource(c, spec) ==
    /\ UserEdit("createResource")
    /\ cr[c] = Nil /\ Admissible(spec)
    /\ UserWritesResource(c, [spec |-> Admitted(spec), deleting |-> FALSE,
                              finalizer |-> FALSE, status |-> NewStatus])

UpdateResource(c, spec) ==
    /\ UserEdit("updateResource")
    /\ cr[c] # Nil /\ Admissible(spec) /\ cr[c].spec # Admitted(spec)
    /\ UserWritesResource(c, [cr[c] EXCEPT !.spec = Admitted(spec)])

\* A resource with a finalizer is only marked; ValidateDelete allows it always.
DeleteResource(c) ==
    /\ UserEdit("deleteResource")
    /\ cr[c] # Nil /\ ~cr[c].deleting
    /\ UserWritesResource(c, IF cr[c].finalizer THEN [cr[c] EXCEPT !.deleting = TRUE] ELSE Nil)

UserWritesConfigMap(kind, ns, value) ==
    /\ UserEdit(kind)
    /\ WriteConfigMap(ns, value)
    /\ UNCHANGED <<labels, cr, crCache, crStale, fresh>>

EditSource(ns, d) ==
    /\ ns \in SourceNamespaces
    /\ cm[ns] # Nil => cm[ns].data # d
    /\ UserWritesConfigMap("source", ns,
            IF cm[ns] = Nil THEN UserConfigMap(d) ELSE [cm[ns] EXCEPT !.data = d])

DeleteSource(ns) ==
    /\ ns \in SourceNamespaces /\ cm[ns] # Nil
    /\ UserWritesConfigMap("deleteSource", ns, Nil)

CreateTarget(ns, d) ==
    /\ ns \notin SourceNamespaces /\ cm[ns] = Nil /\ labels[ns] # Nil
    /\ UserWritesConfigMap("createTarget", ns, UserConfigMap(d))

EditTarget(ns, d) ==
    /\ ns \notin SourceNamespaces /\ cm[ns] # Nil /\ cm[ns].data # d
    /\ UserWritesConfigMap("editTarget", ns, [cm[ns] EXCEPT !.data = d])

DeleteTarget(ns) ==
    /\ ns \notin SourceNamespaces /\ cm[ns] # Nil
    /\ UserWritesConfigMap("deleteTarget", ns, Nil)

\* A user puts a label or an annotation of their own on a target.
AnnotateTarget(ns) ==
    /\ ns \notin SourceNamespaces /\ cm[ns] # Nil /\ ~cm[ns].user
    /\ UserWritesConfigMap("annotateTarget", ns, [cm[ns] EXCEPT !.user = TRUE])

SetLabels(kind, ns, labelMap) ==
    /\ UserEdit(kind)
    /\ labels' = [labels EXCEPT ![ns] = labelMap]
    /\ UNCHANGED <<cr, crCache, crStale, fresh>>

Relabel(ns, labelMap) ==
    /\ ns \notin SourceNamespaces /\ labels[ns] # Nil /\ labels[ns] # labelMap
    /\ SetLabels("relabel", ns, labelMap)
    /\ UNCHANGED <<cm, cmCache, cmStale>>

CreateNamespace(ns, labelMap) ==
    /\ labels[ns] = Nil
    /\ SetLabels("createNamespace", ns, labelMap)
    /\ UNCHANGED <<cm, cmCache, cmStale>>

\* A namespace goes away with what is in it.
DeleteNamespace(ns) ==
    /\ ns \notin SourceNamespaces /\ labels[ns] # Nil
    /\ SetLabels("deleteNamespace", ns, Nil)
    /\ RemoveConfigMap(ns)

-----------------------------------------------------------------------------
Init ==
    /\ cm = [ns \in Namespaces |->
                IF ns \in SourceNamespaces THEN UserConfigMap(InitialData[ns]) ELSE Nil]
    /\ labels = InitialLabels
    /\ cr = [c \in CRs |-> Nil]
    /\ cmCache = cm /\ cmStale = {}
    /\ crCache = cr /\ crStale = {}
    /\ queued = {} /\ delayed = {}
    /\ planner = [c \in CRs |-> Nil] /\ recent = {} /\ gauges = NoGauges
    /\ pc = "idle" /\ key = Nil /\ hand = Nil /\ fresh = FALSE
    /\ data = EmptyData /\ targets = {} /\ todo = {} /\ at = Nil
    /\ done = {} /\ skipped = {} /\ result = NoResult /\ meta = FALSE
    /\ edits = 0 /\ faults = 0 /\ crashes = 0

\* The worker's own steps.
Work ==
    \/ \E c \in CRs : Get(c)
    \/ AddFinalizer \/ UpdateConflict
    \/ ReadSource \/ ListAndPlan \/ SelectorRejected
    \/ \E ns \in Namespaces : Lookup(ns)
    \/ Upsert \/ WriteRefused \/ Report
    \/ ListManaged
    \/ \E ns \in Namespaces : Prune(ns) \/ DetachLookup(ns)
    \/ Detach \/ DetachTargetGone \/ EndCleanup
    \/ Release \/ PatchStatus \/ PatchErrorStatus \/ StatusRefused

Users ==
    \/ \E c \in CRs : DeleteResource(c)
    \/ \E c \in CRs : \E spec \in Specs[c] : CreateResource(c, spec) \/ UpdateResource(c, spec)
    \/ \E ns \in Namespaces, d \in Data :
            EditSource(ns, d) \/ CreateTarget(ns, d) \/ EditTarget(ns, d)
    \/ \E ns \in Namespaces : DeleteSource(ns) \/ DeleteTarget(ns) \/ AnnotateTarget(ns)
    \/ \E ns \in Namespaces, labelMap \in LabelMaps :
            Relabel(ns, labelMap) \/ CreateNamespace(ns, labelMap)
    \/ \E ns \in Namespaces : DeleteNamespace(ns)

\* What controller-runtime does around Reconcile.
Deliveries ==
    \/ \E c \in CRs : DeliverResource(c) \/ DelayElapsed(c) \/ GetFailed(c)
    \/ \E ns \in Namespaces : DeliverConfigMap(ns)

Next == Work \/ Deliveries \/ ApiFailure \/ ReplyLost \/ Crash \/ Users

Spec == Init /\ [][Next]_vars

\* The worker keeps running and takes the keys in turn (the queue of
\* controller-runtime is first-in first-out), informers catch up and timers
\* fire; nothing is assumed of users, failures or crashes.
Fairness ==
    /\ WF_vars(Work)
    /\ \A c \in CRs : SF_vars(Get(c)) /\ WF_vars(DeliverResource(c)) /\ WF_vars(DelayElapsed(c))
    /\ \A ns \in Namespaces : WF_vars(DeliverConfigMap(ns))

FairSpec == Spec /\ Fairness

-----------------------------------------------------------------------------
(* Properties                                                              *)

Steps == Calls \cup {"idle", "lookup", "cleanup"}

ClusterType ==
    /\ cm \in [Namespaces -> ConfigMaps \cup {Nil}]
    /\ labels \in [Namespaces -> LabelMaps \cup {Nil}]
    /\ cr \in [CRs -> Resources \cup {Nil}]

CacheType ==
    /\ cmCache \in [Namespaces -> ConfigMaps \cup {Nil}]
    /\ cmStale \in SUBSET Namespaces
    /\ crCache \in [CRs -> Resources \cup {Nil}]
    /\ crStale \in SUBSET CRs

QueueType == queued \in SUBSET CRs /\ delayed \in SUBSET CRs

MemoryType ==
    planner \in [CRs -> RolloutStates] /\ recent \in SUBSET CRs /\ gauges \in Gauges

\* What DefaultSpec and ValidateSpec leave: only the resync period may be unset.
CompleteSpec(spec) ==
    /\ spec.source \in Namespaces
    /\ spec.selector \in LabelSelectors
    /\ spec.strategy \in {"rolling", "immediate"}
    /\ spec.batchSize \in Nat \ {0}
    /\ spec.conflictPolicy \in {"overwrite", "skip"}
    /\ spec.prune \in BOOLEAN

ReconcileType ==
    /\ pc \in Steps
    /\ IF pc = "idle" THEN key = Nil /\ hand = Nil ELSE key \in CRs /\ hand \in Resources
    /\ pc \notin {"idle", "finalizer", "errpatch"} => CompleteSpec(hand.spec)
    /\ fresh \in BOOLEAN
    /\ pc \in {"upsert", "detach"} => at \in Namespaces

LocalType ==
    /\ data \in Data
    /\ targets \in SUBSET Namespaces /\ todo \in SUBSET Namespaces
    /\ at \in Namespaces \cup {Nil}
    /\ done \in SUBSET Namespaces /\ skipped \in SUBSET Namespaces
    /\ result \in Results /\ meta \in BOOLEAN

BoundType == edits \in Nat /\ faults \in Nat /\ crashes \in Nat

\* Every variable holds what the code's types allow, and from the first call of
\* reconcileImpl or cleanupDeselected on, source, selector, strategy, batch size
\* (at least one), conflict policy and prune of the spec in hand are set, whether
\* the webhook has defaulted it or not (controller.go:78-81, 367-370; lines 115,
\* 121, 137 and 230 follow the pointers without asking).
TypeOK ==
    /\ ClusterType /\ CacheType /\ QueueType /\ MemoryType
    /\ ReconcileType /\ LocalType /\ BoundType

Live(c) == cr[c] # Nil /\ ~cr[c].deleting

\* The worker acts for a resource that is not being deleted only while the
\* API server holds that resource with the finalizer: a propagation that has
\* written targets cannot vanish without Finalize having run, and the status
\* patch always finds its object (runtime_controller.go:57-96).
FinalizerGuard ==
    pc \notin {"idle", "finalizer"} /\ ~hand.deleting =>
        cr[key] # Nil /\ cr[key].finalizer

\* When the finalizer is removed, no ConfigMap is left that carries the
\* markers of the propagation's source (runtime_controller.go:65-79), whatever
\* failed, was lost or was edited since the deletion was requested
\* (configmap_spec.md:49, "prevent orphaned resources").
FinalizeComplete ==
    [][\A c \in CRs :
        cr[c] # Nil /\ cr[c].finalizer /\ cr'[c] = Nil =>
            \A ns \in Namespaces : ~ListedFor(cm[ns], cr[c].spec.source)]_vars

\* No managed ConfigMap outlives its propagation: whatever carries the markers
\* belongs to the source of a propagation that exists and holds the finalizer,
\* so that someone will clean it up (pruning_and_finalization.md:7, "Prevents
\* configuration sprawl and orphaned resources"; runtime_controller.go:57-79). It
\* needs propagations that keep their source.
NoOrphans ==
    \A ns \in Namespaces : cm[ns] # Nil /\ cm[ns].managed =>
        \E c \in CRs : cr[c] # Nil /\ cr[c].finalizer /\ cr[c].spec.source = cm[ns].source

\* Only users change a source ConfigMap: a propagation that selects the
\* source's own namespace, which listTargets does not exclude, leaves it alone
\* under conflictPolicy skip (controller.go:107, 270).
SourceKept ==
    [][\A ns \in SourceNamespaces : cm'[ns] # cm[ns] => edits' # edits]_vars

\* README.md:64, prune: false, "managed markers are removed but data is
\* preserved": a detached target keeps what the users last wrote to it, although
\* it is written back from a cached copy (controller_runtime_client.go:190-204),
\* and the metadata that the detach branch read.
DetachPreserves ==
    [][pc = "detach" /\ pc' = "cleanup" /\ cm[at] # Nil =>
            /\ cm'[at] # Nil
            /\ cm'[at].data = cm[at].data
            /\ meta => cm'[at].user]_vars

\* Nothing is left to do: no event, key, timer or reconcile is under way.
Settled == pc = "idle" /\ queued = {} /\ delayed = {} /\ crStale = {}

\* When the controller comes to rest, no deletion is pending, the published
\* status is that of a reconcile which succeeded, and its counters, its
\* out-of-sync list and its conditions agree, although each patch sent only
\* the fields that differed from a possibly outdated copy (MergeFrom).
SettledStatus ==
    Settled => \A c \in CRs : cr[c] # Nil =>
        LET status == cr[c].status
        IN  /\ ~cr[c].deleting
            /\ status.conditions.reason \in {"Reconciled", "RollingUpdate"}
            /\ status.conditions.reason = "Reconciled" <=> status.outOfSync = {}
            /\ status.outOfSyncCount = Cardinality(status.outOfSync)
            /\ status.syncedCount + status.outOfSyncCount = status.targetCount
            /\ status.conditions.completed = status.syncedCount
            /\ status.conditions.total = status.targetCount

\* At rest, the gauges of a single propagation show what its status shows,
\* although they are set before the status patch is sent, live in memory and
\* are lost in a restart (controller.go:92, metrics.go:94-97).
GaugesAgree ==
    \A c \in CRs : Settled /\ CRs = {c} /\ Live(c) =>
        gauges = [targets |-> cr[c].status.targetCount, outOfSync |-> cr[c].status.outOfSyncCount]

\* A ConfigMap that carries what the propagation asks for right now.
Synced(spec, ns) ==
    LET effective == ComputeEffective(cm[spec.source].data, spec.dataKeys)
    IN  /\ ListedFor(cm[ns], spec.source)
        /\ cm[ns].data = effective
        /\ cm[ns].hash = HashData(effective)

\* A propagation is applied to exactly the namespaces it selects.
Applied(spec) ==
    /\ \A ns \in Selected(spec) : Synced(spec, ns)
    /\ \A ns \in Namespaces \ Selected(spec) : ~ListedFor(cm[ns], spec.source)

Propagated == \A c \in CRs : Live(c) => Applied(cr[c].spec)

\* Its status says so.
Reported(c) ==
    /\ cr[c].status.conditions.reason = "Reconciled"
    /\ cr[c].status.targetCount = Cardinality(Selected(cr[c].spec))

\* When the controller comes to rest and reports Reconciled for every selected
\* namespace, every one of them really holds the effective data, and no other
\* namespace is left with a managed copy.
SettledReady ==
    Settled /\ (\A c \in CRs : Live(c) => cr[c].status.conditions.reason = "Reconciled")
        => Propagated

\* A namespace the planner counts as completed holds the content of the hash
\* being rolled out: skipping it in later batches is safe (rollout.go:54-79).
CompletedIsSynced ==
    \A c \in CRs : planner[c] # Nil =>
        \A ns \in planner[c].completed :
            /\ cm[ns] # Nil
            /\ cm[ns].hash = planner[c].hash
            /\ HashData(cm[ns].data) = planner[c].hash

\* README.md:62, strategy.batchSize, "Number of namespaces updated per reconcile": a
\* reconcile of a rolling propagation takes on as many namespaces as the batch size
\* allows, never more, never fewer while some are pending, and none that is
\* completed, whatever happens to labels and specs meanwhile (rollout.go:40-80).
BatchRespected ==
    pc \in {"lookup", "upsert"} /\ hand.spec.strategy = "rolling" =>
        LET taken   == todo \cup done \cup skipped
            pending == targets \ planner[key].completed
        IN  /\ taken \subseteq pending
            /\ Cardinality(taken) <= hand.spec.batchSize
            /\ taken = pending \/ Cardinality(taken) = hand.spec.batchSize

\* Every propagation ends up applied, and reported so, once users, failures
\* and crashes cease: the resync period (runtime_controller.go:110-117) stands in
\* for the watches the controller does not have.
Converges ==
    <>[](Propagated /\ \A c \in CRs : Live(c) => Reported(c))

\* A propagation all of whose namespaces accept writes ends up applied and
\* reported although its neighbour, which shares the worker, the queue and the
\* ConfigMap name with it, fails and is retried for ever, and although
\* namespaces move from one to the other (controller.go:260-296); and no
\* deletion is left waiting.
NeighboursConverge ==
    <>[](\A c \in CRs : cr[c] # Nil =>
            /\ ~cr[c].deleting
            /\ Selected(cr[c].spec) \cap Denied = {} => Applied(cr[c].spec) /\ Reported(c))

\* docs/performance.md:28, "Hash-based drift detection prevents unnecessary
\* writes": resyncs go on for ever, but from some point on none of them sends a
\* write to a target any more, not even one of equal content: syncTargets finds
\* every target up to date and cleanupDeselected finds nothing to remove or to
\* detach (controller.go:254-296, 327-357).
WritesCease ==
    <>[](pc \notin {"upsert", "detach"} /\ (pc = "cleanup" => todo = {}))

\* A deleted propagation goes away: the finalizer is eventually removed
\* (configmap_spec.md:110, "removes finalizers"; runtime_controller.go:65-79).
DeletionCompletes ==
    \A c \in CRs : cr[c] # Nil /\ cr[c].deleting ~> cr[c] = Nil
=============================================================================
