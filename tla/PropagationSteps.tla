-------------------------- MODULE PropagationSteps --------------------------
(***************************************************************************)
(* What the other proofs about the controller rest on, in three parts.     *)
(*                                                                         *)
(* What the operators of Propagation return: the facts about ConfigMap     *)
(* data, specs, planner entries, statuses and writes.                      *)
(*                                                                         *)
(* TypeOK is an invariant, for every choice of the constants. It is not    *)
(* inductive alone: an Update rewrites the API server's resource, so that  *)
(* resource has to exist, which is known of a copy that is current         *)
(* (FreshExists); and a copy read from the cache is current when no change *)
(* is under way to the cache (Coherent).                                   *)
(*                                                                         *)
(* What a step may change: the kinds of steps, what each of the worker's   *)
(* writes does to the API server, what users do, what happens to the copy  *)
(* in hand and to the cache. The proofs split on these facts instead of on *)
(* the actions.                                                            *)
(***************************************************************************)
EXTENDS Propagation, FiniteSetTheorems, TLAPS

\* A copy that is still current is a copy of something.
FreshExists == fresh => pc # "idle" /\ cr[key] # Nil

\* The cache holds the API server's version unless a change is under way.
Coherent == \A c \in CRs : c \notin crStale => crCache[c] = cr[c]

TypeInv == TypeOK /\ FreshExists /\ Coherent

-----------------------------------------------------------------------------
(* What the operators return                                               *)

\* The empty map is ConfigMap data.
LEMMA EmptyDataType == EmptyData \in Data
BY DEF EmptyData, Data

\* Filtering ConfigMap data by keys gives ConfigMap data (computeEffective).
LEMMA ComputeEffectiveType ==
    ASSUME NEW d \in Data, NEW keys \in SUBSET Keys
    PROVE  ComputeEffective(d, keys) \in Data
<1>1. PICK S \in SUBSET Keys : d \in [S -> Values]
    BY DEF Data
<1>2. [k \in keys \cap DOMAIN d |-> d[k]] \in [keys \cap S -> Values]
    BY <1>1
<1>3. keys \cap S \in SUBSET Keys
    OBVIOUS
<1> QED BY <1>2, <1>3 DEF ComputeEffective, Data

\* The hash of ConfigMap data is a hash (HashData).
LEMMA HashDataType == ASSUME NEW d \in Data PROVE HashData(d) \in Hashes
BY DEF HashData, Hashes

\* Every set of namespaces is finite, so that it can be counted.
LEMMA NamespaceCount ==
    ASSUME NEW S \in SUBSET Namespaces
    PROVE  IsFiniteSet(S) /\ Cardinality(S) \in Nat
BY NamespacesAssumption, FS_Subset, FS_CardinalityType

\* Every out-of-sync list can be counted.
LEMMA OutOfSyncCount ==
    ASSUME NEW S \in OutOfSyncItems
    PROVE  IsFiniteSet(S) /\ Cardinality(S) \in Nat
<1>1. IsFiniteSet(Reasons)
    <2>1. IsFiniteSet({"ConflictPolicySkip", "PendingRollout"})
        <3>1. IsFiniteSet({"ConflictPolicySkip"})
            BY FS_Singleton
        <3>2. {"ConflictPolicySkip", "PendingRollout"} = {"ConflictPolicySkip"} \cup {"PendingRollout"}
            OBVIOUS
        <3> QED BY <3>1, <3>2, FS_AddElement
    <2>2. Reasons = {"ConflictPolicySkip", "PendingRollout"} \cup {"PendingSync"}
        BY DEF Reasons
    <2> QED BY <2>1, <2>2, FS_AddElement
<1>2. IsFiniteSet(Namespaces \X Reasons)
    BY <1>1, NamespacesAssumption, FS_Product
<1> QED BY <1>2, FS_Subset, FS_CardinalityType DEF OutOfSyncItems

\* The conversion to int32 yields an integer.
LEMMA Int32Type == ASSUME NEW n \in Int PROVE Int32(n) \in Int
<1> DEFINE m == 2 ^ IntWidth
<1>1. m \in Nat \ {0}
    BY IntWidthAssumption
<1> HIDE DEF m
<1>2. n % m \in Int
    BY <1>1
<1>3. (IF 2 * (n % m) >= m THEN (n % m) - m ELSE n % m) \in Int
    BY <1>1, <1>2
<1> QED BY <1>3 DEF Int32, m

\* DefaultSpec keeps a spec a spec, keeps its source, and leaves neither the
\* strategy, nor the batch size, nor the conflict and prune policies unset.
LEMMA DefaultSpecType ==
    ASSUME NEW spec \in SpecType
    PROVE  /\ DefaultSpec(spec) \in SpecType
           /\ DefaultSpec(spec).source = spec.source
           /\ DefaultSpec(spec).strategy \in {"rolling", "immediate"}
           /\ DefaultSpec(spec).batchSize \in Int
           /\ DefaultSpec(spec).conflictPolicy \in {"overwrite", "skip"}
           /\ DefaultSpec(spec).prune \in BOOLEAN
<1>1. DefaultBatchSize \in Int
    BY BatchSizeEnvAssumption, Int32Type DEF DefaultBatchSize
<1>2. Default(spec.batchSize, DefaultBatchSize) \in Int
    BY <1>1 DEF Default, SpecType
<1>3. Default(spec.strategy, "rolling") \in {"rolling", "immediate"}
    BY DEF Default, SpecType
<1>4. Default(spec.conflictPolicy, "overwrite") \in {"overwrite", "skip"}
    BY DEF Default, SpecType
<1>5. Default(spec.prune, TRUE) \in BOOLEAN
    BY DEF Default, SpecType
<1> QED BY <1>2, <1>3, <1>4, <1>5 DEF DefaultSpec, SpecType

\* Admission stores a spec.
LEMMA AdmittedType ==
    ASSUME NEW c \in CRs, NEW spec \in Specs[c]
    PROVE  Admitted(spec) \in SpecType
BY SpecsAssumption, DefaultSpecType DEF Admitted

\* A spec that was defaulted and then validated is complete, and a batch size
\* that BATCH_SIZE wraps below one has been refused.
LEMMA CheckedComplete ==
    ASSUME NEW spec \in SpecType, ValidateSpec(DefaultSpec(spec))
    PROVE  CompleteSpec(DefaultSpec(spec))
<1> DEFINE checked == DefaultSpec(spec)
<1>1. /\ checked \in SpecType /\ checked.batchSize \in Int
      /\ checked.strategy \in {"rolling", "immediate"}
      /\ checked.conflictPolicy \in {"overwrite", "skip"} /\ checked.prune \in BOOLEAN
    BY DefaultSpecType
<1> HIDE DEF checked
<1>2. checked.source \in Namespaces /\ checked.selector \in LabelSelectors
    BY <1>1 DEF checked, ValidateSpec, SpecType
<1>3. checked.batchSize >= 1
    BY <1>1, UnsetAssumption DEF checked, ValidateSpec
<1>4. CompleteSpec(checked)
    BY <1>1, <1>2, <1>3 DEF CompleteSpec
<1> QED BY <1>4 DEF checked

-----------------------------------------------------------------------------
\* The planner's operations keep an entry an entry (rollout.go).
LEMMA PlannerTypes ==
    ASSUME NEW state \in RolloutStates, NEW hash \in Hashes,
           NEW names \in SUBSET Namespaces
    PROVE  /\ PlannedState(state, hash, names) \in RolloutStates
           /\ PlannedState(state, hash, names).completed \in SUBSET Namespaces
           /\ MarkCompleted(state, hash, names) \in RolloutStates
           /\ CompletedNamespaces(state, hash) \in SUBSET Namespaces
<1> DEFINE entry == [hash : Hashes, completed : SUBSET Namespaces]
<1>1. EnsureState(state, hash) \in entry
    BY DEF EnsureState, RolloutStates
<1>2. [EnsureState(state, hash) EXCEPT !.completed = @ \cap names] \in entry
    BY <1>1
<1>3. [EnsureState(state, hash) EXCEPT !.completed = @ \cup names] \in entry
    BY <1>1
<1>4. CompletedNamespaces(state, hash) \in SUBSET Namespaces
    BY DEF CompletedNamespaces, RolloutStates
<1> QED BY <1>1, <1>2, <1>3, <1>4 DEF PlannedState, MarkCompleted, RolloutStates

\* What counts as completed was recorded before or now.
LEMMA CompletedFrom ==
    ASSUME NEW state \in RolloutStates, NEW hash \in Hashes, NEW names \in SUBSET Namespaces
    PROVE  /\ MarkCompleted(state, hash, names).completed \subseteq state.completed \cup names
           /\ CompletedNamespaces(MarkCompleted(state, hash, names), hash) \subseteq state.completed \cup names
<1> DEFINE entry == [hash : Hashes, completed : SUBSET Namespaces]
<1>1. EnsureState(state, hash) \in entry /\ EnsureState(state, hash).completed \subseteq state.completed
    BY DEF EnsureState, RolloutStates
<1>2. [EnsureState(state, hash) EXCEPT !.completed = @ \cup names].completed \subseteq state.completed \cup names
    BY <1>1
<1> QED BY <1>2 DEF CompletedNamespaces, MarkCompleted

\* A batch consists of targets.
LEMMA NextBatchType ==
    ASSUME NEW completed, NEW size, NEW names \in SUBSET Namespaces
    PROVE  NextBatch(completed, size, names) \in SUBSET Namespaces
BY DEF NextBatch

-----------------------------------------------------------------------------
\* A status computed from a rollout's result is a status (ApplyRolloutStatus).
LEMMA RolloutStatusType ==
    ASSUME NEW r \in Results
    PROVE  ApplyRolloutStatus(r) \in Statuses
<1>1. Cardinality(r.outOfSync) \in Nat
    BY OutOfSyncCount DEF Results
<1> QED BY <1>1 DEF ApplyRolloutStatus, Statuses, Conditions, Results

\* A status marked with an error is a status (ApplyErrorStatus).
LEMMA ErrorStatusType ==
    ASSUME NEW status \in Statuses
    PROVE  ApplyErrorStatus(status) \in Statuses
<1>1. [NoCondition EXCEPT !.reason = "Error"] \in Conditions
    BY DEF NoCondition, Conditions
<1> QED BY <1>1 DEF ApplyErrorStatus, Statuses

\* Merging two statuses field by field gives a status.
LEMMA MergePatchType ==
    ASSUME NEW old \in Statuses, NEW new \in Statuses, NEW current \in Statuses,
           NEW stamped \in BOOLEAN
    PROVE  MergePatch(old, new, current, stamped) \in Statuses
BY DEF MergePatch, Statuses, Sent

\* The status of a new resource is a status.
LEMMA NewStatusType == NewStatus \in Statuses
BY DEF NewStatus, NoCondition, Statuses, Conditions, OutOfSyncItems

\* The empty result is a result.
LEMMA NoResultType == NoResult \in Results
BY DEF NoResult, Results, OutOfSyncItems

\* A user's ConfigMap is a ConfigMap.
LEMMA UserConfigMapType ==
    ASSUME NEW d \in Data
    PROVE  UserConfigMap(d) \in ConfigMaps
BY DEF UserConfigMap, ConfigMaps, Hashes

-----------------------------------------------------------------------------
\* A write of a ConfigMap keeps the ConfigMaps and their cache well typed.
LEMMA WriteConfigMapType ==
    ASSUME ClusterType, CacheType, NEW ns \in Namespaces,
           NEW value \in ConfigMaps \cup {Nil}, WriteConfigMap(ns, value)
    PROVE  /\ cm' \in [Namespaces -> ConfigMaps \cup {Nil}]
           /\ cmCache' \in [Namespaces -> ConfigMaps \cup {Nil}]
           /\ cmStale' \in SUBSET Namespaces
BY DEF ClusterType, CacheType, WriteConfigMap

\* A deletion keeps the ConfigMaps and their cache well typed.
LEMMA RemoveConfigMapType ==
    ASSUME ClusterType, CacheType, NEW ns \in Namespaces, RemoveConfigMap(ns)
    PROVE  /\ cm' \in [Namespaces -> ConfigMaps \cup {Nil}]
           /\ cmCache' \in [Namespaces -> ConfigMaps \cup {Nil}]
           /\ cmStale' \in SUBSET Namespaces
<1>1. CASE cm[ns] = Nil
    BY <1>1 DEF RemoveConfigMap, ClusterType, CacheType
<1>2. CASE WriteConfigMap(ns, Nil)
    BY <1>2, WriteConfigMapType
<1> QED BY <1>1, <1>2 DEF RemoveConfigMap

\* A write of a resource keeps the resources and their cache well typed.
LEMMA WriteResourceType ==
    ASSUME ClusterType, CacheType, NEW c \in CRs,
           NEW value \in Resources \cup {Nil}, WriteResource(c, value)
    PROVE  /\ cr' \in [CRs -> Resources \cup {Nil}]
           /\ crCache' \in [CRs -> Resources \cup {Nil}]
           /\ crStale' \in SUBSET CRs
BY DEF ClusterType, CacheType, WriteResource

-----------------------------------------------------------------------------
(* How a reconcile ends or begins                                          *)

\* The locals a reconcile starts with are well typed.
LEMMA ResetLocalsType == ASSUME ResetLocals PROVE LocalType'
BY EmptyDataType, NoResultType DEF ResetLocals, LocalType

\* The worker is well typed when Reconcile returns.
LEMMA ReturnType == ASSUME Return PROVE ReconcileType' /\ LocalType' /\ ~fresh' /\ pc' = "idle"
BY ResetLocalsType DEF Return, ReconcileType, Steps, Calls, ClientCalls, ControllerCalls

\* The worker and the queue are well typed after a failed call.
LEMMA CallFailsType ==
    ASSUME TypeOK, pc # "idle", CallFails
    PROVE  /\ ReconcileType' /\ LocalType' /\ QueueType'
           /\ fresh' => pc' # "idle" /\ fresh /\ key' = key
<1>1. CASE ReturnError
    BY <1>1, ReturnType DEF ReturnError, TypeOK, QueueType, ReconcileType
<1>2. CASE /\ pc' = "errpatch" /\ ResetLocals
           /\ UNCHANGED <<key, hand, fresh, queueVars>>
    <2>1. LocalType'
        BY <1>2, ResetLocalsType
    <2>2. QueueType'
        BY <1>2 DEF TypeOK, QueueType, queueVars
    <2>3. ReconcileType'
        BY <1>2 DEF TypeOK, ReconcileType, Steps, Calls, ClientCalls, ControllerCalls
    <2> QED BY <1>2, <2>1, <2>2, <2>3
<1> QED BY <1>1, <1>2 DEF CallFails, ControllerCalls

\* The worker is well typed once Reconcile or Finalize has checked the spec.
LEMMA BeginType ==
    ASSUME NEW c \in CRs, NEW resource \in Resources, NEW current \in BOOLEAN,
           TypeOK, Begin(c, resource, current)
    PROVE  /\ ReconcileType' /\ LocalType' /\ delayed' \in SUBSET CRs
           /\ fresh' => pc' # "idle" /\ current /\ key' = c
<1> DEFINE spec == DefaultSpec(resource.spec)
           copy == [resource EXCEPT !.spec = spec]
<1>1. spec \in SpecType
    BY DefaultSpecType DEF Resources
<1>2. copy \in Resources /\ copy.spec = spec
    BY <1>1 DEF Resources
<1>3. delayed \in SUBSET CRs
    BY DEF TypeOK, QueueType
<1>4. CASE /\ ValidateSpec(spec)
           /\ pc' = IF resource.deleting THEN "listManaged" ELSE "source"
           /\ key' = c /\ hand' = copy /\ fresh' = current
           /\ ResetLocals /\ UNCHANGED delayed
    <2>1. CompleteSpec(spec)
        BY <1>4, CheckedComplete DEF Resources
    <2> HIDE DEF spec, copy
    <2>2. ReconcileType'
        BY <1>1, <1>2, <1>4, <2>1 DEF ReconcileType, Steps, Calls, ClientCalls, ControllerCalls
    <2> QED BY <1>3, <1>4, <2>2, ResetLocalsType
<1>5. CASE Return /\ delayed' = delayed \cup {c}
    BY <1>3, <1>5, ReturnType
<1>6. CASE /\ pc' = "errpatch"
           /\ key' = c /\ hand' = copy /\ fresh' = current
           /\ ResetLocals /\ UNCHANGED delayed
    <2> HIDE DEF spec, copy
    <2>2. ReconcileType'
        BY <1>1, <1>2, <1>6 DEF ReconcileType, Steps, Calls, ClientCalls, ControllerCalls
    <2> QED BY <1>3, <1>6, <2>2, ResetLocalsType
<1> QED BY <1>4, <1>5, <1>6 DEF Begin

-----------------------------------------------------------------------------
\* A write of a resource is announced to the cache.
LEMMA WriteResourceCoherent ==
    ASSUME TypeInv, NEW c \in CRs, NEW value, WriteResource(c, value)
    PROVE  Coherent'
BY DEF TypeInv, TypeOK, ClusterType, CacheType, Coherent, WriteResource

(* The worker's calls that write                                           *)

\* Adding the finalizer keeps the cluster well typed.
LEMMA FinalizerCallType ==
    ASSUME TypeInv, FinalizerCall
    PROVE  /\ ClusterType' /\ CacheType' /\ MemoryType' /\ Coherent'
           /\ key \in CRs /\ cr'[key] \in Resources
<1>1. key \in CRs /\ cr[key] \in Resources
    BY DEF FinalizerCall, TypeInv, TypeOK, FreshExists, ClusterType, ReconcileType
<1>2. [cr[key] EXCEPT !.finalizer = TRUE] \in Resources
    BY <1>1 DEF Resources
<1>3. WriteResource(key, [cr[key] EXCEPT !.finalizer = TRUE])
    BY DEF FinalizerCall
<1>4. cr'[key] = [cr[key] EXCEPT !.finalizer = TRUE]
    BY <1>1, <1>3 DEF WriteResource, TypeInv, TypeOK, ClusterType
<1>5. ClusterType' /\ CacheType' /\ Coherent'
    BY <1>1, <1>2, <1>3, WriteResourceType, WriteResourceCoherent
       DEF FinalizerCall, TypeInv, TypeOK, ClusterType, CacheType
<1> QED BY <1>1, <1>2, <1>4, <1>5 DEF FinalizerCall, TypeInv, TypeOK, MemoryType, memoryVars

\* Writing a target keeps the cluster well typed.
LEMMA UpsertCallType ==
    ASSUME TypeInv, UpsertCall
    PROVE  ClusterType' /\ CacheType' /\ MemoryType' /\ Coherent' /\ UNCHANGED cr
<1>1. at \in Namespaces /\ data \in Data /\ hand.spec.source \in Namespaces
    BY DEF UpsertCall, TypeInv, TypeOK, ReconcileType, CompleteSpec, LocalType
<1>2. Target \in ConfigMaps
    BY <1>1, HashDataType DEF Target, ConfigMaps
<1> QED BY <1>1, <1>2, WriteConfigMapType
        DEF UpsertCall, TypeInv, TypeOK, ClusterType, CacheType, MemoryType, Coherent, memoryVars

\* Deleting a target keeps the cluster well typed.
LEMMA PruneCallType ==
    ASSUME TypeInv, NEW ns \in Namespaces, PruneCall(ns)
    PROVE  ClusterType' /\ CacheType' /\ MemoryType' /\ Coherent' /\ UNCHANGED cr
BY RemoveConfigMapType
   DEF PruneCall, TypeInv, TypeOK, ClusterType, CacheType, MemoryType, Coherent, memoryVars

\* Detaching a target keeps the cluster well typed.
LEMMA DetachCallType ==
    ASSUME TypeInv, DetachCall
    PROVE  ClusterType' /\ CacheType' /\ MemoryType' /\ Coherent' /\ UNCHANGED cr
<1>1. at \in Namespaces /\ meta \in BOOLEAN /\ cmCache[at] \in ConfigMaps
    BY DEF DetachCall, TypeInv, TypeOK, ReconcileType, LocalType, CacheType
<1>2. [cmCache[at] EXCEPT !.managed = FALSE, !.source = Nil,
                          !.hash = Nil, !.user = meta] \in ConfigMaps
    BY <1>1 DEF ConfigMaps, Hashes
<1> QED BY <1>1, <1>2, WriteConfigMapType
        DEF DetachCall, TypeInv, TypeOK, ClusterType, CacheType, MemoryType, Coherent, memoryVars

\* Removing the finalizer keeps the cluster well typed.
LEMMA ReleaseCallType ==
    ASSUME TypeInv, ReleaseCall
    PROVE  ClusterType' /\ CacheType' /\ MemoryType' /\ Coherent'
<1>1. key \in CRs
    BY DEF ReleaseCall, TypeInv, TypeOK, ReconcileType
<1> QED BY <1>1, WriteResourceType, WriteResourceCoherent
        DEF ReleaseCall, TypeInv, TypeOK, ClusterType, CacheType, MemoryType, memoryVars

\* Patching the status keeps the cluster well typed.
LEMMA StatusCallType ==
    ASSUME TypeInv, pc # "idle", NEW new \in Statuses, NEW stamped \in BOOLEAN,
           StatusCall(new, stamped)
    PROVE  ClusterType' /\ CacheType' /\ MemoryType' /\ Coherent'
<1> DEFINE merged == MergePatch(hand.status, new, cr[key].status, stamped)
<1>1. key \in CRs /\ hand \in Resources /\ cr[key] \in Resources
    BY DEF StatusCall, TypeInv, TypeOK, ReconcileType, ClusterType
<1>2. merged \in Statuses
    BY <1>1, MergePatchType DEF Resources
<1>3. [cr[key] EXCEPT !.status = merged] \in Resources
    BY <1>1, <1>2 DEF Resources
<1>4. \/ WriteResource(key, [cr[key] EXCEPT !.status = merged])
      \/ UNCHANGED <<cr, crCache, crStale>>
    BY DEF StatusCall
<1> HIDE DEF merged
<1>5. /\ cr' \in [CRs -> Resources \cup {Nil}]
      /\ crCache' \in [CRs -> Resources \cup {Nil}]
      /\ crStale' \in SUBSET CRs
      /\ Coherent'
    BY <1>1, <1>3, <1>4, WriteResourceType, WriteResourceCoherent DEF Coherent, TypeInv, TypeOK, ClusterType, CacheType
<1>6. UNCHANGED <<cm, labels, cmCache, cmStale, planner, gauges>> /\ recent' = recent \cup {key}
    BY DEF StatusCall
<1> QED BY <1>1, <1>5, <1>6 DEF TypeInv, TypeOK, ClusterType, CacheType, MemoryType

\* Publishing a result keeps the cluster well typed.
LEMMA PatchCallType ==
    ASSUME TypeInv, PatchCall
    PROVE  ClusterType' /\ CacheType' /\ MemoryType' /\ Coherent'
<1>1. ApplyRolloutStatus(result) \in Statuses
    BY RolloutStatusType DEF TypeInv, TypeOK, LocalType
<1> QED BY <1>1, StatusCallType DEF PatchCall

\* Publishing an error keeps the cluster well typed.
LEMMA PatchErrorCallType ==
    ASSUME TypeInv, PatchErrorCall
    PROVE  ClusterType' /\ CacheType' /\ MemoryType' /\ Coherent'
<1>1. ApplyErrorStatus(hand.status) \in Statuses
    BY ErrorStatusType DEF PatchErrorCall, TypeInv, TypeOK, ReconcileType, Resources
<1> QED BY <1>1, StatusCallType DEF PatchErrorCall

-----------------------------------------------------------------------------
(* Steps of the worker that only read                                      *)

\* What a step leaves alone stays well typed.
LEMMA FrameTyping ==
    ASSUME TypeInv, UNCHANGED <<clusterVars, cacheVars>>
    PROVE  ClusterType' /\ CacheType' /\ Coherent' /\ UNCHANGED cr
BY DEF TypeInv, TypeOK, ClusterType, CacheType, Coherent, clusterVars, cacheVars

\* The worker moves on within a reconcile.
LEMMA AdvanceTyping ==
    ASSUME TypeInv, UNCHANGED cr,
           NEW next \in Steps \ {"idle", "finalizer", "errpatch"},
           pc \notin {"idle", "finalizer", "errpatch"},
           Advance(next), next \in {"upsert", "detach"} => at' \in Namespaces
    PROVE  ReconcileType' /\ QueueType' /\ FreshExists'
BY DEF TypeInv, TypeOK, FreshExists, ReconcileType, QueueType, Advance, queueVars

\* A failed call, whatever it wrote, keeps the worker and the queue well typed.
LEMMA FailTyping ==
    ASSUME TypeInv, pc # "idle", CallFails,
           UNCHANGED cr \/ pc \in {"finalizer", "patch", "errpatch", "release"}
    PROVE  ReconcileType' /\ LocalType' /\ QueueType' /\ FreshExists'
<1>1. CASE UNCHANGED cr
    BY <1>1, CallFailsType DEF TypeInv, FreshExists
<1>2. CASE pc \in {"finalizer", "patch", "errpatch", "release"}
    <2>1. ReturnError
        BY <1>2 DEF CallFails, ControllerCalls
    <2>2. ~fresh'
        BY <2>1 DEF ReturnError, Return
    <2> QED BY <2>2, CallFailsType DEF TypeInv, FreshExists
<1> QED BY <1>1, <1>2

\* A failed call without effect keeps the types.
LEMMA FailQuietTyping ==
    ASSUME TypeInv, pc # "idle", CallFails, BoundType',
           UNCHANGED <<clusterVars, cacheVars, memoryVars>>
    PROVE  TypeInv'
<1>1. ClusterType' /\ CacheType' /\ Coherent' /\ UNCHANGED cr
    BY FrameTyping
<1>2. MemoryType'
    BY DEF TypeInv, TypeOK, MemoryType, memoryVars
<1> QED BY <1>1, <1>2, FailTyping DEF TypeInv, TypeOK

\* Taking a key keeps the types.
LEMMA GetTyping == ASSUME TypeInv, NEW c \in CRs, Get(c) PROVE TypeInv'
<1>1. ClusterType' /\ CacheType' /\ Coherent' /\ UNCHANGED cr
    BY FrameTyping DEF Get
<1>2. MemoryType' /\ BoundType'
    BY DEF Get, TypeInv, TypeOK, MemoryType, BoundType, memoryVars, boundVars
<1>3. queued' \in SUBSET CRs /\ delayed \in SUBSET CRs
    BY DEF Get, TypeInv, TypeOK, QueueType
<1>4. c \notin crStale => cr[c] = crCache[c]
    BY DEF TypeInv, Coherent
<1>5. CASE UNCHANGED <<workerVars, delayed>>
    BY <1>1, <1>2, <1>3, <1>5 DEF TypeInv, TypeOK, FreshExists, QueueType, ReconcileType,
           LocalType, workerVars, localVars
<1>6. CASE /\ crCache[c] # Nil
           /\ pc' = "finalizer" /\ key' = c /\ hand' = crCache[c] /\ fresh' = (c \notin crStale)
           /\ UNCHANGED <<localVars, delayed>>
    <2>1. ReconcileType' /\ FreshExists'
        BY <1>1, <1>4, <1>6 DEF TypeInv, TypeOK, FreshExists, ReconcileType, CacheType, Steps, Calls, ClientCalls, ControllerCalls
    <2>2. LocalType' /\ QueueType'
        BY <1>3, <1>6 DEF TypeInv, TypeOK, LocalType, localVars, QueueType
    <2> QED BY <1>1, <1>2, <2>1, <2>2 DEF TypeInv, TypeOK
<1>7. CASE crCache[c] # Nil /\ Begin(c, crCache[c], c \notin crStale)
    <2>1. crCache[c] \in Resources
        BY <1>7 DEF TypeInv, TypeOK, CacheType
    <2>2. (c \notin crStale) \in BOOLEAN
        OBVIOUS
    <2>3. /\ ReconcileType' /\ LocalType' /\ delayed' \in SUBSET CRs
          /\ fresh' => pc' # "idle" /\ c \notin crStale /\ key' = c
        BY <1>7, <2>1, <2>2, BeginType DEF TypeInv
    <2>4. FreshExists'
        BY <1>1, <1>4, <1>7, <2>3 DEF FreshExists
    <2> QED BY <1>1, <1>2, <1>3, <2>3, <2>4 DEF TypeInv, TypeOK, QueueType
<1> QED BY <1>5, <1>6, <1>7 DEF Get

\* A refused Update or status patch keeps the types.
LEMMA UpdateConflictTyping == ASSUME TypeInv, UpdateConflict \/ StatusRefused PROVE TypeInv'
<1>1. pc # "idle" /\ CallFails /\ UNCHANGED <<clusterVars, cacheVars, memoryVars, boundVars>>
    BY DEF UpdateConflict, StatusRefused, CallFails, ControllerCalls
<1>2. BoundType'
    BY <1>1 DEF TypeInv, TypeOK, BoundType, boundVars
<1> QED BY <1>1, <1>2, FailQuietTyping

\* Reading the source keeps the types.
LEMMA ReadSourceTyping == ASSUME TypeInv, ReadSource PROVE TypeInv'
<1> DEFINE source == cmCache[hand.spec.source]
<1>1. hand.spec \in SpecType /\ hand.spec.source \in Namespaces
    BY DEF ReadSource, TypeInv, TypeOK, ReconcileType, CompleteSpec, Resources
<1>2. BoundType' /\ MemoryType'
    BY DEF ReadSource, TypeInv, TypeOK, BoundType, MemoryType, boundVars, memoryVars
<1>3. CASE CallFails
    BY <1>2, <1>3, FailQuietTyping DEF ReadSource
<1>4. CASE /\ source # Nil /\ Advance("list")
           /\ data' = ComputeEffective(source.data, hand.spec.dataKeys)
           /\ UNCHANGED <<targets, todo, at, done, skipped, result, meta>>
    <2>1. source.data \in Data /\ hand.spec.dataKeys \in SUBSET Keys
        BY <1>1, <1>4 DEF TypeInv, TypeOK, CacheType, ConfigMaps, SpecType
    <2>2. LocalType'
        BY <1>4, <2>1, ComputeEffectiveType DEF TypeInv, TypeOK, LocalType
    <2>3. ClusterType' /\ CacheType' /\ Coherent' /\ UNCHANGED cr
        BY FrameTyping DEF ReadSource
    <2>4. "list" \in Steps
        BY DEF Steps, Calls, ClientCalls, ControllerCalls
    <2>5. ReconcileType' /\ QueueType' /\ FreshExists'
        BY <1>4, <2>3, <2>4, AdvanceTyping DEF ReadSource
    <2> QED BY <1>2, <2>2, <2>3, <2>5 DEF TypeInv, TypeOK
<1> QED BY <1>3, <1>4 DEF ReadSource

\* Planning keeps the types.
LEMMA ListAndPlanTyping == ASSUME TypeInv, ListAndPlan PROVE TypeInv'
<1> DEFINE selected == Selected(hand.spec)
           state    == PlannedState(planner[key], HashData(data), selected)
<1>1. selected \in SUBSET Namespaces
    BY DEF Selected
<1>2. key \in CRs /\ planner[key] \in RolloutStates /\ HashData(data) \in Hashes
    BY HashDataType DEF ListAndPlan, TypeInv, TypeOK, ReconcileType, MemoryType, LocalType
<1>3. state \in RolloutStates
    BY <1>1, <1>2, PlannerTypes
<1>4. NextBatch(state.completed, hand.spec.batchSize, selected) \in SUBSET Namespaces
    BY <1>1, NextBatchType
<1>5. \/ todo' = selected /\ UNCHANGED planner
      \/ /\ planner' = [planner EXCEPT ![key] = state]
         /\ todo' = NextBatch(state.completed, hand.spec.batchSize, selected)
    BY DEF ListAndPlan
<1>6. targets' = selected /\ UNCHANGED <<data, at, done, skipped, result, meta, recent, gauges>>
    BY DEF ListAndPlan
<1> HIDE DEF selected, state
<1>7. LocalType' /\ MemoryType'
    BY <1>1, <1>2, <1>3, <1>4, <1>5, <1>6 DEF TypeInv, TypeOK, LocalType, MemoryType
<1>8. ClusterType' /\ CacheType' /\ Coherent' /\ UNCHANGED cr
    BY FrameTyping DEF ListAndPlan
<1>9. "lookup" \in Steps
    BY DEF Steps
<1>10. ReconcileType' /\ QueueType' /\ FreshExists'
    BY <1>8, <1>9, AdvanceTyping DEF ListAndPlan
<1>11. BoundType'
    BY DEF ListAndPlan, TypeInv, TypeOK, BoundType, boundVars
<1> QED BY <1>7, <1>8, <1>10, <1>11 DEF TypeInv, TypeOK

\* Looking at a target keeps the types.
LEMMA LookupTyping == ASSUME TypeInv, NEW ns \in Namespaces, Lookup(ns) PROVE TypeInv'
<1>1. ClusterType' /\ CacheType' /\ Coherent' /\ UNCHANGED cr
    BY FrameTyping DEF Lookup, UpToDate
<1>2. BoundType' /\ MemoryType'
    BY DEF Lookup, TypeInv, TypeOK, BoundType, MemoryType, boundVars, memoryVars, UpToDate
<1>3. "lookup" \in Steps /\ "upsert" \in Steps
    BY DEF Steps, Calls, ClientCalls, ControllerCalls
<1>4. UNCHANGED <<data, targets, result, meta>> /\ pc = "lookup"
    BY DEF Lookup, UpToDate
<1>5. \/ Advance("lookup") /\ skipped' = skipped \cup {ns} /\ todo' = todo \ {ns} /\ UNCHANGED <<done, at>>
      \/ Advance("lookup") /\ done' = done \cup {ns} /\ todo' = todo \ {ns} /\ UNCHANGED <<skipped, at>>
      \/ Advance("upsert") /\ at' = ns /\ UNCHANGED <<skipped, done, todo>>
    BY DEF Lookup, UpToDate
<1>6. LocalType'
    BY <1>4, <1>5 DEF TypeInv, TypeOK, LocalType
<1>7. ReconcileType' /\ QueueType' /\ FreshExists'
    BY <1>1, <1>3, <1>4, <1>5, AdvanceTyping
<1> QED BY <1>1, <1>2, <1>6, <1>7 DEF TypeInv, TypeOK

\* Reporting keeps the types.
LEMMA ReportTyping == ASSUME TypeInv, Report PROVE TypeInv'
<1> DEFINE hash      == HashData(data)
           rolling   == hand.spec.strategy = "rolling"
           state     == MarkCompleted(planner[key], hash, done)
           completed == IF rolling THEN CompletedNamespaces(state, hash) ELSE done
           reason    == IF rolling THEN "PendingRollout" ELSE "PendingSync"
           items     == (skipped \X {"ConflictPolicySkip"}) \cup (Pending(completed) \X {reason})
<1>1. /\ key \in CRs /\ planner[key] \in RolloutStates /\ hash \in Hashes
      /\ done \in SUBSET Namespaces /\ skipped \in SUBSET Namespaces
      /\ targets \in SUBSET Namespaces
    BY HashDataType DEF Report, TypeInv, TypeOK, ReconcileType, MemoryType, LocalType
<1>2. state \in RolloutStates
    BY <1>1, PlannerTypes
<1>3. completed \in SUBSET Namespaces
    BY <1>1, <1>2, PlannerTypes
<1>4. items \in OutOfSyncItems
    BY <1>1 DEF OutOfSyncItems, Reasons, Pending
<1>5. /\ planner' = [planner EXCEPT ![key] = IF rolling THEN state ELSE Forget(@)]
      /\ result' = [planned   |-> Cardinality(done \cup skipped),
                    total     |-> Cardinality(targets),
                    completed |-> Cardinality(completed),
                    outOfSync |-> items]
    BY DEF Report
<1>6. /\ Cardinality(done \cup skipped) \in Nat /\ Cardinality(targets) \in Nat
      /\ Cardinality(completed) \in Nat
    <2>1. done \cup skipped \in SUBSET Namespaces
        BY <1>1
    <2> HIDE DEF completed
    <2> QED BY <1>1, <1>3, <2>1, NamespaceCount
<1> HIDE DEF hash, state, completed, reason, items
<1>7. result' \in Results
    BY <1>4, <1>5, <1>6 DEF Results
<1>8. MemoryType'
    BY <1>1, <1>2, <1>5 DEF Report, TypeInv, TypeOK, MemoryType, RolloutStates, Forget
<1>9. LocalType'
    BY <1>7 DEF Report, TypeInv, TypeOK, LocalType
<1>10. ClusterType' /\ CacheType' /\ Coherent' /\ UNCHANGED cr
    BY FrameTyping DEF Report
<1>11. "listManaged" \in Steps
    BY DEF Steps, Calls, ClientCalls, ControllerCalls
<1>12. ReconcileType' /\ QueueType' /\ FreshExists'
    BY <1>10, <1>11, AdvanceTyping DEF Report
<1>13. BoundType'
    BY DEF Report, TypeInv, TypeOK, BoundType, boundVars
<1> QED BY <1>8, <1>9, <1>10, <1>12, <1>13 DEF TypeInv, TypeOK

\* Listing the managed targets keeps the types.
LEMMA ListManagedTyping == ASSUME TypeInv, ListManaged PROVE TypeInv'
<1>1. ClusterType' /\ CacheType' /\ Coherent' /\ UNCHANGED cr
    BY FrameTyping DEF ListManaged
<1>2. BoundType' /\ MemoryType' /\ LocalType'
    BY DEF ListManaged, TypeInv, TypeOK, BoundType, MemoryType, LocalType, boundVars, memoryVars
<1>3. "cleanup" \in Steps
    BY DEF Steps
<1>4. ReconcileType' /\ QueueType' /\ FreshExists'
    BY <1>1, <1>3, AdvanceTyping DEF ListManaged
<1> QED BY <1>1, <1>2, <1>4 DEF TypeInv, TypeOK

\* Reading the metadata of a target to detach keeps the types.
LEMMA DetachLookupTyping == ASSUME TypeInv, NEW ns \in Namespaces, DetachLookup(ns) PROVE TypeInv'
<1>1. ClusterType' /\ CacheType' /\ Coherent' /\ UNCHANGED cr
    BY FrameTyping DEF DetachLookup
<1>2. BoundType' /\ MemoryType'
    BY DEF DetachLookup, TypeInv, TypeOK, BoundType, MemoryType, boundVars, memoryVars
<1>3. "cleanup" \in Steps /\ "detach" \in Steps
    BY DEF Steps, Calls, ClientCalls, ControllerCalls
<1>4. \/ Advance("cleanup") /\ todo' = todo \ {ns} /\ UNCHANGED <<at, meta>>
      \/ /\ cmCache[ns] # Nil /\ Advance("detach") /\ UNCHANGED todo
         /\ at' = ns /\ meta' = cmCache[ns].user
    BY DEF DetachLookup
<1>5. pc = "cleanup" /\ UNCHANGED <<data, targets, done, skipped, result>>
    BY DEF DetachLookup
<1>6. cmCache[ns] # Nil => cmCache[ns].user \in BOOLEAN
    BY DEF TypeInv, TypeOK, CacheType, ConfigMaps
<1>7. LocalType'
    BY <1>4, <1>5, <1>6 DEF TypeInv, TypeOK, LocalType
<1>8. ReconcileType' /\ QueueType' /\ FreshExists'
    BY <1>1, <1>3, <1>4, <1>5, AdvanceTyping
<1> QED BY <1>1, <1>2, <1>7, <1>8 DEF TypeInv, TypeOK

\* The end of the cleanup loop keeps the types.
LEMMA EndCleanupTyping == ASSUME TypeInv, EndCleanup PROVE TypeInv'
<1>1. ClusterType' /\ CacheType' /\ Coherent' /\ UNCHANGED cr
    BY FrameTyping DEF EndCleanup
<1>2. BoundType' /\ LocalType' /\ UNCHANGED <<planner, recent>>
    BY DEF EndCleanup, TypeInv, TypeOK, BoundType, LocalType, boundVars, localVars
<1>5. gauges' \in Gauges
    <2>1. result.total \in Nat /\ Cardinality(result.outOfSync) \in Nat
        BY OutOfSyncCount DEF TypeInv, TypeOK, LocalType, Results
    <2>2. \/ gauges' = gauges
          \/ gauges' = [targets |-> result.total, outOfSync |-> Cardinality(result.outOfSync)]
        BY DEF EndCleanup, ObserveTargets
    <2> QED BY <2>1, <2>2 DEF Gauges, TypeInv, TypeOK, MemoryType
<1>3. "release" \in Steps /\ "patch" \in Steps
    BY DEF Steps, Calls, ClientCalls, ControllerCalls
<1>4. ReconcileType' /\ QueueType' /\ FreshExists'
    BY <1>1, <1>3, AdvanceTyping DEF EndCleanup
<1> QED BY <1>1, <1>2, <1>4, <1>5 DEF TypeInv, TypeOK, MemoryType

\* A refused write, a target that is gone or a selector that is rejected keeps the types.
LEMMA RefusedTyping ==
    ASSUME TypeInv, WriteRefused \/ DetachTargetGone \/ SelectorRejected
    PROVE  TypeInv'
<1>1. pc # "idle" /\ CallFails /\ UNCHANGED <<clusterVars, cacheVars, memoryVars, boundVars>>
    BY DEF WriteRefused, DetachTargetGone, SelectorRejected
<1>2. BoundType'
    BY <1>1 DEF TypeInv, TypeOK, BoundType, boundVars
<1> QED BY <1>1, <1>2, FailQuietTyping

-----------------------------------------------------------------------------
(* Steps of the worker that write                                          *)

\* Adding the finalizer keeps the types.
LEMMA AddFinalizerTyping == ASSUME TypeInv, AddFinalizer PROVE TypeInv'
<1>1. /\ ClusterType' /\ CacheType' /\ MemoryType' /\ Coherent'
      /\ key \in CRs /\ cr'[key] \in Resources
    BY FinalizerCallType DEF AddFinalizer
<1>2. /\ ReconcileType' /\ LocalType' /\ delayed' \in SUBSET CRs
      /\ fresh' => pc' # "idle" /\ TRUE /\ key' = key
    BY <1>1, BeginType DEF AddFinalizer, TypeInv
<1>3. cr'[key] # Nil
    BY <1>1, NilAssumption
<1>4. QueueType' /\ BoundType'
    BY <1>2 DEF AddFinalizer, TypeInv, TypeOK, QueueType, BoundType, boundVars
<1> QED BY <1>1, <1>2, <1>3, <1>4 DEF TypeInv, TypeOK, FreshExists

\* Writing a target keeps the types.
LEMMA UpsertTyping == ASSUME TypeInv, Upsert PROVE TypeInv'
<1>1. ClusterType' /\ CacheType' /\ MemoryType' /\ Coherent' /\ UNCHANGED cr
    BY UpsertCallType DEF Upsert
<1>2. "lookup" \in Steps
    BY DEF Steps
<1>3. ReconcileType' /\ QueueType' /\ FreshExists'
    BY <1>1, <1>2, AdvanceTyping DEF Upsert, UpsertCall
<1>4. LocalType' /\ BoundType'
    BY DEF Upsert, UpsertCall, TypeInv, TypeOK, ReconcileType, LocalType, BoundType, boundVars
<1> QED BY <1>1, <1>3, <1>4 DEF TypeInv, TypeOK

\* Deleting a target keeps the types.
LEMMA PruneTyping == ASSUME TypeInv, NEW ns \in Namespaces, Prune(ns) PROVE TypeInv'
<1>1. ClusterType' /\ CacheType' /\ MemoryType' /\ Coherent' /\ UNCHANGED cr
    BY PruneCallType DEF Prune
<1>2. "cleanup" \in Steps
    BY DEF Steps
<1>3. ReconcileType' /\ QueueType' /\ FreshExists'
    BY <1>1, <1>2, AdvanceTyping DEF Prune, PruneCall
<1>4. LocalType' /\ BoundType'
    BY DEF Prune, TypeInv, TypeOK, LocalType, BoundType, boundVars
<1> QED BY <1>1, <1>3, <1>4 DEF TypeInv, TypeOK

\* Detaching a target keeps the types.
LEMMA DetachTyping == ASSUME TypeInv, Detach PROVE TypeInv'
<1>1. ClusterType' /\ CacheType' /\ MemoryType' /\ Coherent' /\ UNCHANGED cr
    BY DetachCallType DEF Detach
<1>2. "cleanup" \in Steps
    BY DEF Steps
<1>3. ReconcileType' /\ QueueType' /\ FreshExists'
    BY <1>1, <1>2, AdvanceTyping DEF Detach, DetachCall
<1>4. LocalType' /\ BoundType'
    BY DEF Detach, TypeInv, TypeOK, LocalType, BoundType, boundVars
<1> QED BY <1>1, <1>3, <1>4 DEF TypeInv, TypeOK

\* Removing the finalizer keeps the types.
LEMMA ReleaseTyping == ASSUME TypeInv, Release PROVE TypeInv'
<1>1. ClusterType' /\ CacheType' /\ MemoryType' /\ Coherent'
    BY ReleaseCallType DEF Release
<1>2. ReconcileType' /\ LocalType' /\ ~fresh' /\ pc' = "idle"
    BY ReturnType DEF Release
<1>3. QueueType' /\ BoundType'
    BY DEF Release, TypeInv, TypeOK, QueueType, BoundType, queueVars, boundVars
<1> QED BY <1>1, <1>2, <1>3 DEF TypeInv, TypeOK, FreshExists

\* Publishing a status keeps the types.
LEMMA PatchTyping == ASSUME TypeInv, PatchStatus \/ PatchErrorStatus PROVE TypeInv'
<1>1. ClusterType' /\ CacheType' /\ MemoryType' /\ Coherent'
    BY PatchCallType, PatchErrorCallType DEF PatchStatus, PatchErrorStatus
<1>2. ReconcileType' /\ LocalType' /\ ~fresh' /\ pc' = "idle"
    BY ReturnType DEF PatchStatus, PatchErrorStatus, ReturnError
<1>3. key \in CRs
    BY DEF PatchStatus, PatchErrorStatus, PatchCall, PatchErrorCall, TypeInv, TypeOK, ReconcileType
<1>4. QueueType' /\ BoundType'
    BY <1>3 DEF PatchStatus, PatchErrorStatus, ReturnError, TypeInv, TypeOK, QueueType,
           BoundType, boundVars
<1> QED BY <1>1, <1>2, <1>4 DEF TypeInv, TypeOK, FreshExists

\* Every step of the worker keeps the types.
LEMMA WorkTyping == ASSUME TypeInv, Work PROVE TypeInv'
BY GetTyping, AddFinalizerTyping, UpdateConflictTyping, ReadSourceTyping, ListAndPlanTyping,
   LookupTyping, UpsertTyping, RefusedTyping, ReportTyping, ListManagedTyping, PruneTyping,
   DetachLookupTyping, DetachTyping, EndCleanupTyping, ReleaseTyping, PatchTyping
   DEF Work

-----------------------------------------------------------------------------
(* Failures, deliveries and users                                          *)

\* A failed call keeps the types.
LEMMA ApiFailureTyping == ASSUME TypeInv, ApiFailure PROVE TypeInv'
<1>1. pc # "idle" /\ CallFails /\ UNCHANGED <<clusterVars, cacheVars, memoryVars>>
    BY DEF ApiFailure, Calls, ClientCalls, ControllerCalls
<1>2. BoundType'
    BY DEF ApiFailure, TypeInv, TypeOK, BoundType
<1> QED BY <1>1, <1>2, FailQuietTyping

\* A write whose answer is lost keeps the types.
LEMMA ReplyLostTyping == ASSUME TypeInv, ReplyLost PROVE TypeInv'
<1>1. BoundType' /\ CallFails
    BY DEF ReplyLost, TypeInv, TypeOK, BoundType
<1>2. CASE FinalizerCall
    BY <1>1, <1>2, FinalizerCallType, FailTyping DEF FinalizerCall, TypeInv, TypeOK
<1>3. CASE UpsertCall
    BY <1>1, <1>3, UpsertCallType, FailTyping DEF UpsertCall, TypeInv, TypeOK
<1>4. CASE \E ns \in Namespaces : PruneCall(ns)
    BY <1>1, <1>4, PruneCallType, FailTyping DEF PruneCall, TypeInv, TypeOK
<1>5. CASE DetachCall
    BY <1>1, <1>5, DetachCallType, FailTyping DEF DetachCall, TypeInv, TypeOK
<1>6. CASE ReleaseCall
    BY <1>1, <1>6, ReleaseCallType, FailTyping DEF ReleaseCall, TypeInv, TypeOK
<1>7. CASE PatchCall
    BY <1>1, <1>7, PatchCallType, FailTyping DEF PatchCall, TypeInv, TypeOK
<1>8. CASE PatchErrorCall
    BY <1>1, <1>8, PatchErrorCallType, FailTyping DEF PatchErrorCall, TypeInv, TypeOK
<1> QED BY <1>2, <1>3, <1>4, <1>5, <1>6, <1>7, <1>8 DEF ReplyLost

\* A restart keeps the types.
LEMMA CrashTyping == ASSUME TypeInv, Crash PROVE TypeInv'
<1>1. ReconcileType' /\ LocalType' /\ ~fresh' /\ pc' = "idle"
    BY ReturnType DEF Crash
<1>2. ClusterType' /\ CacheType' /\ Coherent'
    BY DEF Crash, TypeInv, TypeOK, ClusterType, CacheType, Coherent, clusterVars
<1>3. QueueType' /\ MemoryType' /\ BoundType'
    BY DEF Crash, TypeInv, TypeOK, QueueType, MemoryType, BoundType, RolloutStates, Gauges, NoGauges
<1> QED BY <1>1, <1>2, <1>3 DEF TypeInv, TypeOK, FreshExists

\* Informers and timers keep the types.
LEMMA DeliveriesTyping == ASSUME TypeInv, Deliveries PROVE TypeInv'
<1>1. ClusterType' /\ MemoryType' /\ ReconcileType' /\ LocalType' /\ BoundType' /\ FreshExists'
    BY DEF Deliveries, DeliverResource, DeliverConfigMap, DelayElapsed, TypeInv, TypeOK,
           ClusterType, MemoryType, ReconcileType, LocalType, BoundType, FreshExists,
           clusterVars, memoryVars, workerVars, localVars, boundVars, GetFailed
<1>2. CacheType' /\ Coherent'
    BY DEF Deliveries, DeliverResource, DeliverConfigMap, DelayElapsed, TypeInv, TypeOK,
           ClusterType, CacheType, Coherent, clusterVars, cacheVars, GetFailed
<1>3. QueueType'
    BY DEF Deliveries, DeliverResource, DeliverConfigMap, DelayElapsed, TypeInv, TypeOK,
           QueueType, CacheType, queueVars, GetFailed
<1> QED BY <1>1, <1>2, <1>3 DEF TypeInv, TypeOK

\* Users' changes keep the types of what they do not write.
LEMMA UserEditTyping ==
    ASSUME TypeInv, NEW kind, UserEdit(kind)
    PROVE  QueueType' /\ MemoryType' /\ LocalType' /\ BoundType' /\ UNCHANGED <<pc, key, hand, at>>
BY DEF UserEdit, TypeInv, TypeOK, QueueType, MemoryType, LocalType, BoundType,
       queueVars, memoryVars, localVars

\* A user's change of a resource keeps the types.
LEMMA UserResourceTyping ==
    ASSUME TypeInv, NEW kind, UserEdit(kind), NEW c \in CRs,
           NEW value \in Resources \cup {Nil}, UserWritesResource(c, value)
    PROVE  TypeInv'
<1>1. QueueType' /\ MemoryType' /\ LocalType' /\ BoundType' /\ UNCHANGED <<pc, key, hand, at>>
    BY UserEditTyping
<1>2. ClusterType' /\ CacheType' /\ Coherent'
    BY WriteResourceType, WriteResourceCoherent
       DEF UserWritesResource, TypeInv, TypeOK, ClusterType, CacheType
<1>3. fresh' = (fresh /\ key # c)
    BY DEF UserWritesResource
<1>4. ReconcileType'
    BY <1>1, <1>3 DEF TypeInv, TypeOK, ReconcileType
<1>5. FreshExists'
    <2>1. SUFFICES ASSUME fresh' PROVE pc' # "idle" /\ cr'[key'] # Nil
        BY DEF FreshExists
    <2>2. fresh /\ key # c /\ pc # "idle" /\ key \in CRs /\ cr[key] # Nil
        BY <1>3, <2>1 DEF TypeInv, TypeOK, FreshExists, ReconcileType
    <2>3. cr'[key] = cr[key]
        BY <2>2 DEF UserWritesResource, WriteResource, TypeInv, TypeOK, ClusterType
    <2> QED BY <1>1, <2>2, <2>3
<1> QED BY <1>1, <1>2, <1>4, <1>5 DEF TypeInv, TypeOK

\* A user's change of a ConfigMap keeps the types.
LEMMA UserConfigMapTyping ==
    ASSUME TypeInv, NEW kind, NEW ns \in Namespaces, NEW value \in ConfigMaps \cup {Nil},
           UserWritesConfigMap(kind, ns, value)
    PROVE  TypeInv'
<1>1. QueueType' /\ MemoryType' /\ LocalType' /\ BoundType' /\ UNCHANGED <<pc, key, hand, at>>
    BY UserEditTyping DEF UserWritesConfigMap
<1>2. ClusterType' /\ CacheType' /\ Coherent'
    BY WriteConfigMapType
       DEF UserWritesConfigMap, TypeInv, TypeOK, ClusterType, CacheType, Coherent
<1>3. ReconcileType' /\ FreshExists'
    BY <1>1 DEF UserWritesConfigMap, TypeInv, TypeOK, ReconcileType, FreshExists
<1> QED BY <1>1, <1>2, <1>3 DEF TypeInv, TypeOK

\* A user's change of a namespace, with what it does to the ConfigMap in it,
\* keeps the types.
LEMMA UserLabelsTyping ==
    ASSUME TypeInv, NEW kind, NEW ns \in Namespaces, NEW labelMap \in LabelMaps \cup {Nil},
           SetLabels(kind, ns, labelMap),
           cm' \in [Namespaces -> ConfigMaps \cup {Nil}],
           cmCache' \in [Namespaces -> ConfigMaps \cup {Nil}],
           cmStale' \in SUBSET Namespaces
    PROVE  TypeInv'
<1>1. QueueType' /\ MemoryType' /\ LocalType' /\ BoundType' /\ UNCHANGED <<pc, key, hand, at>>
    BY UserEditTyping DEF SetLabels
<1>2. ClusterType' /\ CacheType' /\ Coherent'
    BY DEF SetLabels, TypeInv, TypeOK, ClusterType, CacheType, Coherent
<1>3. ReconcileType' /\ FreshExists'
    BY <1>1 DEF SetLabels, TypeInv, TypeOK, ReconcileType, FreshExists
<1> QED BY <1>1, <1>2, <1>3 DEF TypeInv, TypeOK

\* Every change of the users keeps the types.
LEMMA UsersTyping == ASSUME TypeInv, Users PROVE TypeInv'
<1>1. ASSUME NEW c \in CRs, DeleteResource(c) PROVE TypeInv'
    <2>1. (IF cr[c].finalizer THEN [cr[c] EXCEPT !.deleting = TRUE] ELSE Nil) \in Resources \cup {Nil}
        BY <1>1 DEF DeleteResource, TypeInv, TypeOK, ClusterType, Resources
    <2> QED BY <1>1, <2>1, UserResourceTyping DEF DeleteResource
<1>2. ASSUME NEW c \in CRs, NEW spec \in Specs[c], CreateResource(c, spec) PROVE TypeInv'
    <2>1. [spec |-> Admitted(spec), deleting |-> FALSE,
           finalizer |-> FALSE, status |-> NewStatus] \in Resources
        BY AdmittedType, NewStatusType DEF Resources
    <2> QED BY <1>2, <2>1, UserResourceTyping DEF CreateResource
<1>3. ASSUME NEW c \in CRs, NEW spec \in Specs[c], UpdateResource(c, spec) PROVE TypeInv'
    <2>1. [cr[c] EXCEPT !.spec = Admitted(spec)] \in Resources
        BY <1>3, AdmittedType DEF UpdateResource, TypeInv, TypeOK, ClusterType, Resources
    <2> QED BY <1>3, <2>1, UserResourceTyping DEF UpdateResource
<1>4. ASSUME NEW ns \in Namespaces, NEW d \in Data,
             EditSource(ns, d) \/ CreateTarget(ns, d) \/ EditTarget(ns, d)
      PROVE  TypeInv'
    <2>1. UserConfigMap(d) \in ConfigMaps
        BY UserConfigMapType
    <2>2. cm[ns] # Nil => [cm[ns] EXCEPT !.data = d] \in ConfigMaps
        BY DEF TypeInv, TypeOK, ClusterType, ConfigMaps
    <2> QED BY <1>4, <2>1, <2>2, UserConfigMapTyping DEF EditSource, CreateTarget, EditTarget
<1>5. ASSUME NEW ns \in Namespaces, DeleteSource(ns) \/ DeleteTarget(ns) \/ AnnotateTarget(ns)
      PROVE  TypeInv'
    <2>1. cm[ns] # Nil => [cm[ns] EXCEPT !.user = TRUE] \in ConfigMaps
        BY DEF TypeInv, TypeOK, ClusterType, ConfigMaps
    <2> QED BY <1>5, <2>1, UserConfigMapTyping DEF DeleteSource, DeleteTarget, AnnotateTarget
<1>6. ASSUME NEW ns \in Namespaces, NEW labelMap \in LabelMaps,
             Relabel(ns, labelMap) \/ CreateNamespace(ns, labelMap)
      PROVE  TypeInv'
    <2>1. /\ SetLabels("relabel", ns, labelMap) \/ SetLabels("createNamespace", ns, labelMap)
          /\ UNCHANGED <<cm, cmCache, cmStale>>
        BY <1>6 DEF Relabel, CreateNamespace
    <2> QED BY <2>1, UserLabelsTyping DEF TypeInv, TypeOK, ClusterType, CacheType
<1>7. ASSUME NEW ns \in Namespaces, DeleteNamespace(ns) PROVE TypeInv'
    BY <1>7, UserLabelsTyping, RemoveConfigMapType DEF DeleteNamespace, TypeInv, TypeOK
<1> QED BY <1>1, <1>2, <1>3, <1>4, <1>5, <1>6, <1>7 DEF Users

-----------------------------------------------------------------------------
\* The initial state is well typed.
LEMMA InitTyping == Init => TypeInv
<1> SUFFICES ASSUME Init PROVE TypeInv
    OBVIOUS
<1>1. ClusterType
    BY InitialDataAssumption, LabelsAssumption, UserConfigMapType DEF Init, ClusterType
<1>2. CacheType /\ Coherent
    BY <1>1 DEF Init, ClusterType, CacheType, Coherent
<1>3. LocalType
    BY EmptyDataType, NoResultType DEF Init, LocalType
<1>4. QueueType /\ MemoryType /\ ReconcileType /\ BoundType /\ FreshExists
    BY DEF Init, QueueType, MemoryType, ReconcileType, BoundType, FreshExists,
           RolloutStates, Steps, Gauges, NoGauges
<1> QED BY <1>1, <1>2, <1>3, <1>4 DEF TypeInv, TypeOK

\* Every step keeps the inductive invariant.
LEMMA StepTyping == TypeInv /\ [Next]_vars => TypeInv'
<1> SUFFICES ASSUME TypeInv, [Next]_vars PROVE TypeInv'
    OBVIOUS
<1>1. CASE Next
    BY <1>1, WorkTyping, DeliveriesTyping, ApiFailureTyping, ReplyLostTyping, CrashTyping,
       UsersTyping DEF Next
<1>2. CASE UNCHANGED vars
    BY <1>2 DEF TypeInv, TypeOK, ClusterType, CacheType, QueueType, MemoryType, ReconcileType,
           LocalType, BoundType, FreshExists, Coherent, vars, clusterVars, cacheVars, queueVars,
           memoryVars, workerVars, localVars, boundVars
<1> QED BY <1>1, <1>2

\* In every behaviour of the controller, whatever users, failures and crashes
\* do, the state is well typed, a copy that counts as current is the copy of an
\* existing resource, and the cache is outdated only where a change is under way.
THEOREM TypeInvariance == Spec => []TypeInv
BY InitTyping, StepTyping, PTL DEF Spec

\* In every behaviour every variable holds what the code's types allow, and the
\* worker never acts on a spec that the defaulting left incomplete.
THEOREM TypeCorrect == Spec => []TypeOK
<1>1. TypeInv => TypeOK
    BY DEF TypeInv
<1> QED BY <1>1, TypeInvariance, PTL

-----------------------------------------------------------------------------
(* The kinds of steps                                                      *)

\* A step leaves the API server alone, makes one of the worker's writes, or is
\* a step of the users.
LEMMA StepKinds ==
    ASSUME [Next]_vars
    PROVE  \/ UNCHANGED <<cm, cr>>
           \/ FinalizerCall \/ ReleaseCall \/ PatchCall \/ PatchErrorCall
           \/ UpsertCall \/ DetachCall \/ (\E ns \in Namespaces : PruneCall(ns))
           \/ Users
<1>1. CASE Work
    <2>1. ASSUME \/ UpdateConflict \/ StatusRefused \/ SelectorRejected \/ ReadSource
                 \/ ListAndPlan \/ WriteRefused \/ Report \/ ListManaged
                 \/ DetachTargetGone \/ EndCleanup
          PROVE  UNCHANGED <<cm, cr>>
        BY <2>1 DEF UpdateConflict, StatusRefused, SelectorRejected, ReadSource, ListAndPlan,
               WriteRefused, Report, ListManaged, DetachTargetGone, EndCleanup, clusterVars
    <2>2. ASSUME \E c \in CRs : Get(c) PROVE UNCHANGED <<cm, cr>>
        BY <2>2 DEF Get, clusterVars
    <2>3. ASSUME \E ns \in Namespaces : Lookup(ns) \/ DetachLookup(ns) PROVE UNCHANGED <<cm, cr>>
        BY <2>3 DEF Lookup, DetachLookup, clusterVars, UpToDate
    <2> QED BY <1>1, <2>1, <2>2, <2>3
            DEF Work, AddFinalizer, Upsert, Prune, Detach, Release, PatchStatus, PatchErrorStatus
<1>2. CASE ReplyLost
    BY <1>2 DEF ReplyLost
<1>3. CASE ApiFailure \/ Crash \/ Deliveries
    BY <1>3 DEF ApiFailure, Crash, Deliveries, DeliverResource, DeliverConfigMap,
           DelayElapsed, clusterVars, GetFailed
<1>4. CASE UNCHANGED vars
    BY <1>4 DEF vars, clusterVars
<1> QED BY <1>1, <1>2, <1>3, <1>4 DEF Next

\* The worker keeps the copy in hand, gives it up, or takes another one.
LEMMA HandKinds ==
    ASSUME [Next]_vars
    PROVE  \/ pc' = "idle"
           \/ pc # "idle" /\ UNCHANGED <<key, hand>>
           \/ AddFinalizer \/ \E c \in CRs : Get(c)
<1>1. ASSUME CallFails, pc # "idle"
      PROVE  pc' = "idle" \/ (pc # "idle" /\ UNCHANGED <<key, hand>>)
    BY <1>1 DEF CallFails, ReturnError, Return, ControllerCalls
<1>2. CASE Work
    <2>1. ASSUME UpdateConflict \/ StatusRefused \/ Release \/ PatchStatus \/ PatchErrorStatus
          PROVE  pc' = "idle"
        BY <2>1 DEF UpdateConflict, StatusRefused, Release, PatchStatus, PatchErrorStatus,
                    ReturnError, Return
    <2>2. ASSUME SelectorRejected \/ WriteRefused \/ DetachTargetGone PROVE CallFails /\ pc # "idle"
        BY <2>2 DEF SelectorRejected, WriteRefused, DetachTargetGone
    <2>3. ASSUME \/ ListAndPlan \/ Upsert \/ Report \/ ListManaged \/ Detach \/ EndCleanup
                 \/ \E ns \in Namespaces : Lookup(ns) \/ Prune(ns) \/ DetachLookup(ns)
          PROVE  pc # "idle" /\ UNCHANGED <<key, hand>>
        BY <2>3 DEF ListAndPlan, Upsert, UpsertCall, Report, ListManaged, Detach, DetachCall,
                    EndCleanup, Lookup, Prune, PruneCall, DetachLookup, Advance, UpToDate
    <2>4. ASSUME ReadSource PROVE pc # "idle" /\ (CallFails \/ UNCHANGED <<key, hand>>)
        BY <2>4 DEF ReadSource, Advance
    <2> QED BY <1>1, <1>2, <2>1, <2>2, <2>3, <2>4 DEF Work
<1>3. CASE ApiFailure \/ ReplyLost
    <2>1. CallFails /\ pc # "idle"
        BY <1>3 DEF ApiFailure, ReplyLost, Calls, FinalizerCall, UpsertCall, PruneCall, DetachCall,
                    ReleaseCall, PatchCall, PatchErrorCall, ClientCalls, ControllerCalls
    <2> QED BY <1>1, <2>1
<1>4. CASE Crash
    BY <1>4 DEF Crash, Return
<1>5. CASE Deliveries \/ Users \/ UNCHANGED vars
    <2>1. UNCHANGED <<pc, key, hand>>
        BY <1>5 DEF Deliveries, DeliverResource, DeliverConfigMap, DelayElapsed, Users,
               DeleteResource, CreateResource, UpdateResource, EditSource, CreateTarget,
               EditTarget, DeleteSource, DeleteTarget, AnnotateTarget, Relabel, CreateNamespace,
               DeleteNamespace, SetLabels, UserWritesConfigMap, UserEdit, vars, workerVars, GetFailed
    <2> QED BY <2>1
<1> QED BY <1>2, <1>3, <1>4, <1>5 DEF Next

-----------------------------------------------------------------------------
(* What the worker writes                                                  *)

\* What a write of a resource changes: the resource, and an event is under way.
LEMMA WriteResourceFacts ==
    ASSUME TypeInv, NEW c \in CRs, NEW value, WriteResource(c, value)
    PROVE  /\ cr'[c] = value /\ (\A d \in CRs \ {c} : cr'[d] = cr[d])
           /\ UNCHANGED crCache /\ crStale' = crStale \cup {c}
BY DEF WriteResource, TypeInv, TypeOK, ClusterType

\* What a write of a ConfigMap changes.
LEMMA WriteConfigMapFacts ==
    ASSUME TypeInv, NEW ns \in Namespaces, NEW value, WriteConfigMap(ns, value)
    PROVE  cm'[ns] = value /\ \A m \in Namespaces \ {ns} : cm'[m] = cm[m]
BY DEF WriteConfigMap, TypeInv, TypeOK, ClusterType

\* The finalizer's call changes nothing but the finalizer.
LEMMA FinalizerFacts ==
    ASSUME TypeInv, FinalizerCall
    PROVE  /\ key \in CRs /\ cr[key] # Nil /\ cr'[key] \in Resources /\ cr'[key] # Nil
           /\ cr'[key].finalizer /\ cr'[key].deleting = cr[key].deleting
           /\ cr'[key].spec = cr[key].spec /\ cr'[key].status = cr[key].status
           /\ (\A d \in CRs \ {key} : cr'[d] = cr[d]) /\ key \in crStale'
           /\ UNCHANGED <<crCache, cm>>
<1> DEFINE value == [cr[key] EXCEPT !.finalizer = TRUE]
<1>1. key \in CRs /\ cr[key] # Nil /\ cr[key] \in Resources
    BY DEF FinalizerCall, TypeInv, TypeOK, FreshExists, ReconcileType, ClusterType
<1>2. /\ value \in Resources /\ value.finalizer /\ value.deleting = cr[key].deleting
      /\ value.spec = cr[key].spec /\ value.status = cr[key].status
    BY <1>1 DEF Resources
<1>3. value # Nil
    BY <1>2, NilAssumption
<1>4. WriteResource(key, value) /\ UNCHANGED cm
    BY DEF FinalizerCall
<1> HIDE DEF value
<1> QED BY <1>1, <1>2, <1>3, <1>4, WriteResourceFacts

\* The release drops the resource.
LEMMA ReleaseFacts ==
    ASSUME TypeInv, ReleaseCall
    PROVE  /\ key \in CRs /\ cr[key] # Nil /\ cr'[key] = Nil
           /\ (\A d \in CRs \ {key} : cr'[d] = cr[d]) /\ key \in crStale'
           /\ UNCHANGED <<crCache, cm>>
<1>1. key \in CRs /\ cr[key] # Nil
    BY DEF ReleaseCall, TypeInv, TypeOK, FreshExists, ReconcileType
<1> QED BY <1>1, WriteResourceFacts DEF ReleaseCall

\* The status patch changes nothing but the status.
LEMMA PatchFacts ==
    ASSUME TypeInv, PatchCall \/ PatchErrorCall
    PROVE  /\ key \in CRs /\ cr[key] # Nil /\ cr'[key] # Nil
           /\ cr'[key].finalizer = cr[key].finalizer
           /\ cr'[key].deleting = cr[key].deleting
           /\ cr'[key].spec = cr[key].spec
           /\ \A d \in CRs \ {key} : cr'[d] = cr[d]
           /\ UNCHANGED <<crCache, cm>>
           /\ (UNCHANGED <<cr, crStale>>) \/ key \in crStale'
<1>1. pc # "idle" /\ key \in CRs /\ hand \in Resources
    BY DEF PatchCall, PatchErrorCall, TypeInv, TypeOK, ReconcileType
<1>2. PICK new \in Statuses, stamped \in BOOLEAN : StatusCall(new, stamped)
    <2>1. ApplyRolloutStatus(result) \in Statuses
        BY RolloutStatusType DEF TypeInv, TypeOK, LocalType
    <2>2. ApplyErrorStatus(hand.status) \in Statuses
        BY <1>1, ErrorStatusType DEF Resources
    <2> QED BY <2>1, <2>2 DEF PatchCall, PatchErrorCall
<1> DEFINE merged == MergePatch(hand.status, new, cr[key].status, stamped)
           value  == [cr[key] EXCEPT !.status = merged]
<1>3. cr[key] \in Resources /\ cr[key] # Nil
    BY <1>1, <1>2 DEF StatusCall, TypeInv, TypeOK, ClusterType
<1>4. merged \in Statuses
    BY <1>1, <1>2, <1>3, MergePatchType DEF Resources
<1>5. /\ WriteResource(key, value) \/ UNCHANGED <<cr, crCache, crStale>>
      /\ UNCHANGED cm
    BY <1>2 DEF StatusCall
<1> HIDE DEF merged
<1>6. /\ value \in Resources /\ value.finalizer = cr[key].finalizer
      /\ value.deleting = cr[key].deleting /\ value.spec = cr[key].spec
    BY <1>3, <1>4 DEF Resources
<1>7. value # Nil
    BY <1>6, NilAssumption
<1> HIDE DEF value
<1>8. CASE UNCHANGED <<cr, crCache, crStale>>
    BY <1>1, <1>3, <1>5, <1>8
<1>9. CASE WriteResource(key, value)
    BY <1>1, <1>3, <1>5, <1>6, <1>7, <1>9, WriteResourceFacts
<1> QED BY <1>5, <1>8, <1>9

\* An upsert puts the target's content into the namespace it is at.
LEMMA UpsertFacts ==
    ASSUME TypeInv, UpsertCall
    PROVE  /\ at \in Namespaces /\ key \in CRs /\ hand \in Resources
           /\ data \in Data /\ hand.spec.source \in Namespaces
           /\ Target \in ConfigMaps /\ Target # Nil
           /\ cm'[at] = Target /\ (\A m \in Namespaces \ {at} : cm'[m] = cm[m])
           /\ UNCHANGED <<labels, cr, planner, gauges>>
<1>1. /\ at \in Namespaces /\ key \in CRs /\ hand \in Resources
      /\ data \in Data /\ hand.spec.source \in Namespaces
    BY DEF UpsertCall, TypeInv, TypeOK, ReconcileType, CompleteSpec, LocalType
<1>2. Target \in ConfigMaps
    BY <1>1, HashDataType DEF Target, ConfigMaps
<1>3. Target # Nil
    BY <1>2, NilAssumption
<1>4. WriteConfigMap(at, Target) /\ UNCHANGED <<labels, cr, planner, gauges>>
    BY DEF UpsertCall, memoryVars
<1> QED BY <1>1, <1>2, <1>3, <1>4, WriteConfigMapFacts

\* A detach takes the markers off the ConfigMap it is at; being accepted, it has
\* been read in its current version.
LEMMA DetachFacts ==
    ASSUME TypeInv, DetachCall
    PROVE  /\ at \in Namespaces /\ at \notin cmStale /\ cmCache[at] # Nil
           /\ cm'[at] \in ConfigMaps /\ cm'[at] # Nil
           /\ ~cm'[at].managed /\ cm'[at].source = Nil
           /\ cm'[at].data = cmCache[at].data /\ cm'[at].user = meta
           /\ \A m \in Namespaces \ {at} : cm'[m] = cm[m]
           /\ UNCHANGED <<labels, cr, planner, gauges>>
<1> DEFINE value == [cmCache[at] EXCEPT !.managed = FALSE, !.source = Nil,
                                        !.hash = Nil, !.user = meta]
<1>1. /\ at \in Namespaces /\ at \notin cmStale /\ cmCache[at] # Nil
      /\ cmCache[at] \in ConfigMaps /\ meta \in BOOLEAN
    BY DEF DetachCall, Refused, TypeInv, TypeOK, ReconcileType, CacheType, LocalType
<1>2. /\ value \in ConfigMaps /\ ~value.managed /\ value.source = Nil
      /\ value.data = cmCache[at].data /\ value.user = meta
    BY <1>1 DEF ConfigMaps, Hashes
<1>3. value # Nil
    BY <1>2, NilAssumption
<1>4. WriteConfigMap(at, value) /\ UNCHANGED <<labels, cr, planner, gauges>>
    BY DEF DetachCall, memoryVars
<1> HIDE DEF value
<1> QED BY <1>1, <1>2, <1>3, <1>4, WriteConfigMapFacts

\* A prune leaves nothing in the namespace.
LEMMA PruneFacts ==
    ASSUME TypeInv, NEW ns \in Namespaces, PruneCall(ns)
    PROVE  /\ cm'[ns] = Nil /\ \A m \in Namespaces \ {ns} : cm'[m] = cm[m]
           /\ UNCHANGED <<labels, cr, planner, gauges>>
BY WriteConfigMapFacts DEF PruneCall, RemoveConfigMap, memoryVars

-----------------------------------------------------------------------------
(* What users change                                                       *)

\* A resource: users create one without the finalizer, change the spec of one,
\* mark one with the finalizer as deleted, or remove one without it.
UserResourceStep(c) ==
    /\ \A d \in CRs \ {c} : cr'[d] = cr[d]
    /\ crStale' = crStale \cup {c} /\ fresh' = (fresh /\ key # c)
    /\ \/ /\ cr[c] = Nil /\ cr'[c] # Nil
          /\ ~cr'[c].finalizer /\ ~cr'[c].deleting
          /\ \E spec \in Specs[c] : cr'[c].spec = Admitted(spec)
       \/ /\ cr[c] # Nil /\ cr'[c] # Nil
          /\ cr'[c].finalizer = cr[c].finalizer /\ cr'[c].deleting = cr[c].deleting
          /\ \E spec \in Specs[c] : cr'[c].spec = Admitted(spec)
       \/ /\ cr[c] # Nil /\ ~cr[c].deleting /\ cr[c].finalizer
          /\ cr'[c] # Nil /\ cr'[c].deleting /\ cr'[c].finalizer
          /\ cr'[c].spec = cr[c].spec /\ "deleteResource" \in Edits
       \/ cr[c] # Nil /\ ~cr[c].finalizer /\ cr'[c] = Nil /\ "deleteResource" \in Edits

\* A ConfigMap: it goes, appears without markers, or keeps its markers.
UserConfigMapStep(ns) ==
    /\ \A m \in Namespaces \ {ns} : cm'[m] = cm[m]
    /\ \/ /\ cm'[ns] = Nil
          /\ IF ns \in SourceNamespaces THEN "deleteSource" \in Edits
             ELSE Edits \cap {"deleteTarget", "deleteNamespace"} # {}
       \/ /\ cm[ns] = Nil /\ cm'[ns] # Nil
          /\ ~cm'[ns].managed /\ cm'[ns].source = Nil
       \/ /\ cm[ns] # Nil /\ cm'[ns] # Nil
          /\ cm'[ns].managed = cm[ns].managed /\ cm'[ns].source = cm[ns].source
          /\ cm'[ns].hash = cm[ns].hash
          /\ \/ cm'[ns].data = cm[ns].data
             \/ IF ns \in SourceNamespaces THEN "source" \in Edits ELSE "editTarget" \in Edits

\* A step of the users leaves the worker and its memory alone and changes one
\* resource or one ConfigMap at most.
LEMMA UserFacts ==
    ASSUME TypeInv, Users
    PROVE  /\ UNCHANGED <<queueVars, memoryVars, crCache, pc, key, hand, localVars>>
           /\ edits' = edits + 1
           /\ \/ UNCHANGED <<cm, labels, cmCache, cmStale>> /\ \E c \in CRs : UserResourceStep(c)
              \/ /\ UNCHANGED <<cr, crStale, fresh>>
                 /\ (UNCHANGED <<cm, cmCache, cmStale>>) \/ \E ns \in Namespaces : UserConfigMapStep(ns)
<1> DEFINE Frame == /\ UNCHANGED <<queueVars, memoryVars, crCache, pc, key, hand, localVars>>
                    /\ edits' = edits + 1
           Change == \/ UNCHANGED <<cm, labels, cmCache, cmStale>> /\ \E c \in CRs : UserResourceStep(c)
                     \/ /\ UNCHANGED <<cr, crStale, fresh>>
                        /\ (UNCHANGED <<cm, cmCache, cmStale>>) \/ \E ns \in Namespaces : UserConfigMapStep(ns)
<1>1. ASSUME NEW c \in CRs, DeleteResource(c) PROVE Frame /\ Change
    <2> DEFINE marked == [cr[c] EXCEPT !.deleting = TRUE]
    <2>1. cr[c] \in Resources /\ cr[c] # Nil /\ ~cr[c].deleting /\ "deleteResource" \in Edits
        BY <1>1 DEF DeleteResource, UserEdit, TypeInv, TypeOK, ClusterType
    <2>2. /\ marked \in Resources /\ marked.finalizer = cr[c].finalizer
          /\ marked.deleting /\ marked.spec = cr[c].spec
        BY <2>1 DEF Resources
    <2>3. marked # Nil
        BY <2>2, NilAssumption
    <2>4. /\ WriteResource(c, IF cr[c].finalizer THEN marked ELSE Nil)
          /\ fresh' = (fresh /\ key # c) /\ UNCHANGED <<cm, labels, cmCache, cmStale>> /\ Frame
        BY <1>1 DEF DeleteResource, UserWritesResource, UserEdit, WriteResource
    <2> HIDE DEF marked
    <2>5. /\ cr'[c] = IF cr[c].finalizer THEN marked ELSE Nil
          /\ (\A d \in CRs \ {c} : cr'[d] = cr[d]) /\ crStale' = crStale \cup {c}
        BY <2>4, WriteResourceFacts
    <2>6. UserResourceStep(c)
        BY <2>1, <2>2, <2>3, <2>4, <2>5 DEF UserResourceStep
    <2> QED BY <2>4, <2>6
<1>2. ASSUME NEW c \in CRs, NEW spec \in Specs[c], CreateResource(c, spec) PROVE Frame /\ Change
    <2> DEFINE value == [spec |-> Admitted(spec), deleting |-> FALSE,
                         finalizer |-> FALSE, status |-> NewStatus]
    <2>1. value \in Resources
        BY AdmittedType, NewStatusType DEF Resources
    <2>2. value # Nil
        BY <2>1, NilAssumption
    <2>3. /\ cr[c] = Nil /\ WriteResource(c, value)
          /\ fresh' = (fresh /\ key # c) /\ UNCHANGED <<cm, labels, cmCache, cmStale>> /\ Frame
        BY <1>2 DEF CreateResource, UserWritesResource, UserEdit, WriteResource
    <2>4. /\ cr'[c] = value
          /\ (\A d \in CRs \ {c} : cr'[d] = cr[d]) /\ crStale' = crStale \cup {c}
        BY <2>3, WriteResourceFacts
    <2>5. ~value.finalizer /\ ~value.deleting /\ value.spec = Admitted(spec)
        OBVIOUS
    <2> HIDE DEF value
    <2>6. UserResourceStep(c)
        BY <2>2, <2>3, <2>4, <2>5 DEF UserResourceStep
    <2> QED BY <2>3, <2>6
<1>3. ASSUME NEW c \in CRs, NEW spec \in Specs[c], UpdateResource(c, spec) PROVE Frame /\ Change
    <2> DEFINE value == [cr[c] EXCEPT !.spec = Admitted(spec)]
    <2>1. cr[c] \in Resources /\ cr[c] # Nil
        BY <1>3 DEF UpdateResource, TypeInv, TypeOK, ClusterType
    <2>2. /\ value \in Resources /\ value.finalizer = cr[c].finalizer
          /\ value.deleting = cr[c].deleting /\ value.spec = Admitted(spec)
        BY <2>1, AdmittedType DEF Resources
    <2>3. value # Nil
        BY <2>2, NilAssumption
    <2>4. /\ WriteResource(c, value)
          /\ fresh' = (fresh /\ key # c) /\ UNCHANGED <<cm, labels, cmCache, cmStale>> /\ Frame
        BY <1>3 DEF UpdateResource, UserWritesResource, UserEdit, WriteResource
    <2> HIDE DEF value
    <2>5. /\ cr'[c] = value
          /\ (\A d \in CRs \ {c} : cr'[d] = cr[d]) /\ crStale' = crStale \cup {c}
        BY <2>4, WriteResourceFacts
    <2>6. UserResourceStep(c)
        BY <2>1, <2>2, <2>3, <2>4, <2>5 DEF UserResourceStep
    <2> QED BY <2>4, <2>6
<1>4. ASSUME NEW kind \in Edits, NEW ns \in Namespaces, NEW value, UserWritesConfigMap(kind, ns, value)
      PROVE  /\ Frame /\ UNCHANGED <<cr, crStale, fresh>>
             /\ cm'[ns] = value /\ \A m \in Namespaces \ {ns} : cm'[m] = cm[m]
    BY <1>4, WriteConfigMapFacts DEF UserWritesConfigMap, UserEdit
<1>5. \A kind, ns, value : UserWritesConfigMap(kind, ns, value) => kind \in Edits
    BY DEF UserWritesConfigMap, UserEdit
<1>6. \A ns \in Namespaces : cm[ns] # Nil => cm[ns] \in ConfigMaps
    BY DEF TypeInv, TypeOK, ClusterType
<1>7. ASSUME NEW d PROVE UserConfigMap(d) # Nil => ~UserConfigMap(d).managed /\ UserConfigMap(d).source = Nil
    BY DEF UserConfigMap
<1>8. ASSUME NEW ns \in Namespaces, NEW d \in Data,
             EditSource(ns, d) \/ CreateTarget(ns, d) \/ EditTarget(ns, d)
      PROVE  Frame /\ Change
    <2> DEFINE value == [cm[ns] EXCEPT !.data = d]
    <2>1. UserConfigMap(d) # Nil
        BY UserConfigMapType, NilAssumption
    <2>2. ASSUME cm[ns] # Nil
          PROVE  /\ value # Nil /\ value.managed = cm[ns].managed
                 /\ value.source = cm[ns].source /\ value.hash = cm[ns].hash
        <3>1. value \in ConfigMaps
            BY <1>6, <2>2 DEF ConfigMaps
        <3>2. value # Nil
            BY <3>1, NilAssumption
        <3> QED BY <1>6, <2>2, <3>2 DEF ConfigMaps
    <2>3. PICK kind \in Edits, new \in {value, UserConfigMap(d)} :
            /\ UserWritesConfigMap(kind, ns, new)
            /\ cm[ns] = Nil => new = UserConfigMap(d)
            /\ cm[ns] # Nil => new = value /\ kind = IF ns \in SourceNamespaces THEN "source" ELSE "editTarget"
        BY <1>5, <1>8 DEF EditSource, CreateTarget, EditTarget
    <2> HIDE DEF value
    <2>4. UserConfigMapStep(ns) /\ Frame /\ UNCHANGED <<cr, crStale, fresh>>
        BY <1>4, <1>7, <2>1, <2>2, <2>3 DEF UserConfigMapStep
    <2> QED BY <2>4
<1>9. ASSUME NEW ns \in Namespaces, AnnotateTarget(ns) PROVE Frame /\ Change
    <2> DEFINE value == [cm[ns] EXCEPT !.user = TRUE]
    <2>1. cm[ns] # Nil /\ value \in ConfigMaps
        BY <1>6, <1>9 DEF AnnotateTarget, ConfigMaps
    <2>2. value # Nil
        BY <2>1, NilAssumption
    <2>3. /\ value.managed = cm[ns].managed /\ value.source = cm[ns].source
          /\ value.hash = cm[ns].hash /\ value.data = cm[ns].data
        BY <1>6, <2>1 DEF ConfigMaps
    <2>4. UserWritesConfigMap("annotateTarget", ns, value)
        BY <1>9 DEF AnnotateTarget
    <2> HIDE DEF value
    <2>5. UserConfigMapStep(ns) /\ Frame /\ UNCHANGED <<cr, crStale, fresh>>
        BY <1>4, <1>5, <2>1, <2>2, <2>3, <2>4 DEF UserConfigMapStep
    <2> QED BY <2>5
<1>10. ASSUME NEW ns \in Namespaces, DeleteSource(ns) \/ DeleteTarget(ns) PROVE Frame /\ Change
    <2>1. PICK kind \in Edits :
            /\ UserWritesConfigMap(kind, ns, Nil)
            /\ kind = IF ns \in SourceNamespaces THEN "deleteSource" ELSE "deleteTarget"
        BY <1>5, <1>10 DEF DeleteSource, DeleteTarget
    <2>2. UserConfigMapStep(ns) /\ Frame /\ UNCHANGED <<cr, crStale, fresh>>
        BY <1>4, <2>1 DEF UserConfigMapStep
    <2> QED BY <2>2
<1>11. ASSUME NEW ns \in Namespaces, NEW labelMap,
              Relabel(ns, labelMap) \/ CreateNamespace(ns, labelMap) \/ DeleteNamespace(ns)
       PROVE  Frame /\ Change
    <2>1. Frame /\ UNCHANGED <<cr, crStale, fresh>>
        BY <1>11 DEF Relabel, CreateNamespace, DeleteNamespace, SetLabels, UserEdit
    <2>2. \/ UNCHANGED <<cm, cmCache, cmStale>>
          \/ WriteConfigMap(ns, Nil) /\ ns \notin SourceNamespaces /\ "deleteNamespace" \in Edits
        BY <1>11 DEF Relabel, CreateNamespace, DeleteNamespace, SetLabels, UserEdit, RemoveConfigMap
    <2>3. (UNCHANGED <<cm, cmCache, cmStale>>) \/ UserConfigMapStep(ns)
        BY <2>2, WriteConfigMapFacts DEF UserConfigMapStep
    <2> QED BY <2>1, <2>3
<1> HIDE DEF Frame, Change
<1>12. Frame /\ Change
    BY <1>1, <1>2, <1>3, <1>8, <1>9, <1>10, <1>11 DEF Users
<1> QED BY <1>12 DEF Frame, Change

\* The cache changes only by taking the API server's versions.
LEMMA CacheKinds ==
    ASSUME TypeInv, [Next]_vars
    PROVE  \A c \in CRs : crCache'[c] \in {crCache[c], cr[c]}
<1>1. CASE Work \/ ReplyLost
    <2>1. UNCHANGED crCache
        BY <1>1 DEF Work, ReplyLost, Get, AddFinalizer, UpdateConflict, StatusRefused,
               SelectorRejected, ReadSource, ListAndPlan, Lookup, Upsert, UpsertCall, WriteRefused,
               Report, ListManaged, Prune, PruneCall, DetachLookup, Detach, DetachCall,
               DetachTargetGone, EndCleanup, Release, PatchStatus, PatchErrorStatus, FinalizerCall,
               ReleaseCall, PatchCall, PatchErrorCall, StatusCall, WriteResource, cacheVars, UpToDate
    <2> QED BY <2>1
<1>2. CASE Users
    BY <1>2, UserFacts
<1>3. CASE ApiFailure \/ UNCHANGED vars
    BY <1>3 DEF ApiFailure, vars, cacheVars
<1>4. CASE Crash
    BY <1>4 DEF Crash
<1>5. CASE Deliveries
    BY <1>5 DEF Deliveries, DeliverResource, DeliverConfigMap, DelayElapsed, cacheVars,
           TypeInv, TypeOK, CacheType, GetFailed
<1> QED BY <1>1, <1>2, <1>3, <1>4, <1>5 DEF Next

-----------------------------------------------------------------------------
(* ConfigMaps, labels, the loops and the planner                           *)

\* A ConfigMap is written, or none and no cached one changes.
Written ==
    \/ UNCHANGED <<cm, cmCache, cmStale>>
    \/ \E ns \in Namespaces : \E value : WriteConfigMap(ns, value)

\* ConfigMaps change by a write, their cache also by catching up.
LEMMA ConfigMapKinds ==
    ASSUME TypeInv, [Next]_vars
    PROVE  Written \/ Crash \/ \E ns \in Namespaces : DeliverConfigMap(ns)
<1>1. ASSUME NEW ns \in Namespaces, RemoveConfigMap(ns) PROVE Written
    BY <1>1 DEF RemoveConfigMap, Written
<1>2. ASSUME UpsertCall \/ DetachCall PROVE Written
    BY <1>2 DEF UpsertCall, DetachCall, Written, TypeInv, TypeOK, ReconcileType
<1>3. ASSUME NEW ns \in Namespaces, PruneCall(ns) PROVE Written
    BY <1>1, <1>3 DEF PruneCall
<1>4. ASSUME FinalizerCall \/ ReleaseCall \/ PatchCall \/ PatchErrorCall PROVE Written
    BY <1>4 DEF FinalizerCall, ReleaseCall, PatchCall, PatchErrorCall, StatusCall, Written
<1>5. CASE Work
    <2>1. ASSUME \/ UpdateConflict \/ StatusRefused \/ SelectorRejected \/ ReadSource
                 \/ ListAndPlan \/ WriteRefused \/ Report \/ ListManaged
                 \/ DetachTargetGone \/ EndCleanup
                 \/ \E ns \in Namespaces : Lookup(ns) \/ DetachLookup(ns)
                 \/ \E c \in CRs : Get(c)
          PROVE  UNCHANGED <<cm, cmCache, cmStale>>
        BY <2>1 DEF UpdateConflict, StatusRefused, SelectorRejected, ReadSource, ListAndPlan,
               WriteRefused, Report, ListManaged, DetachTargetGone, EndCleanup, Lookup,
               DetachLookup, Get, clusterVars, cacheVars, UpToDate
    <2> QED BY <1>2, <1>3, <1>4, <1>5, <2>1
            DEF Work, Written, AddFinalizer, Upsert, Prune, Detach, Release, PatchStatus, PatchErrorStatus
<1>6. CASE ReplyLost
    BY <1>2, <1>3, <1>4, <1>6 DEF ReplyLost
<1>7. CASE ApiFailure \/ UNCHANGED vars
    BY <1>7 DEF ApiFailure, vars, clusterVars, cacheVars, Written
<1>8. CASE Users
    <2>1. ASSUME NEW kind, NEW ns \in Namespaces, NEW value, UserWritesConfigMap(kind, ns, value)
          PROVE  Written
        BY <2>1 DEF UserWritesConfigMap, Written
    <2>2. ASSUME NEW c \in CRs, NEW value, UserWritesResource(c, value) PROVE Written
        BY <2>2 DEF UserWritesResource, Written
    <2> QED BY <1>1, <1>8, <2>1, <2>2
            DEF Users, DeleteResource, CreateResource, UpdateResource, EditSource, CreateTarget,
                EditTarget, DeleteSource, DeleteTarget, AnnotateTarget, Relabel, CreateNamespace,
                DeleteNamespace, Written
<1>9. CASE Deliveries
    BY <1>9 DEF Deliveries, DeliverResource, DelayElapsed, clusterVars, cacheVars, Written, GetFailed
<1> QED BY <1>5, <1>6, <1>7, <1>8, <1>9 DEF Next

\* The cache of ConfigMaps holds what the API server holds or held.
LEMMA CopyKinds ==
    ASSUME TypeInv, [Next]_vars
    PROVE  \A ns \in Namespaces : cmCache'[ns] \in {cmCache[ns], cm[ns], cm'[ns]}
<1>1. CASE Written
    BY <1>1 DEF Written, WriteConfigMap
<1>2. CASE Crash
    BY <1>2 DEF Crash
<1>3. CASE \E ns \in Namespaces : DeliverConfigMap(ns)
    BY <1>3 DEF DeliverConfigMap, TypeInv, TypeOK, CacheType
<1> QED BY <1>1, <1>2, <1>3, ConfigMapKinds

\* Only users change labels: they create namespaces and, except for those of the
\* sources, relabel and remove them.
LEMMA LabelKinds ==
    ASSUME TypeInv, [Next]_vars
    PROVE  \A ns \in Namespaces :
             \/ labels'[ns] = labels[ns]
             \/ labels[ns] = Nil /\ "createNamespace" \in Edits
             \/ ns \notin SourceNamespaces /\ Edits \cap {"relabel", "deleteNamespace"} # {}
<1> DEFINE Goal == \A ns \in Namespaces :
             \/ labels'[ns] = labels[ns]
             \/ labels[ns] = Nil /\ "createNamespace" \in Edits
             \/ ns \notin SourceNamespaces /\ Edits \cap {"relabel", "deleteNamespace"} # {}
<1>1. CASE Users
    <2>1. ASSUME NEW kind, NEW ns \in Namespaces, NEW labelMap, SetLabels(kind, ns, labelMap)
          PROVE  kind \in Edits /\ \A m \in Namespaces \ {ns} : labels'[m] = labels[m]
        BY <2>1 DEF SetLabels, UserEdit, TypeInv, TypeOK, ClusterType
    <2>2. ASSUME NEW ns \in Namespaces, NEW labelMap,
                 Relabel(ns, labelMap) \/ CreateNamespace(ns, labelMap) \/ DeleteNamespace(ns)
          PROVE  Goal
        BY <2>1, <2>2 DEF Relabel, CreateNamespace, DeleteNamespace
    <2>3. ASSUME UNCHANGED labels PROVE Goal
        BY <2>3
    <2> HIDE DEF Goal
    <2>4. Goal
        BY <1>1, <2>2, <2>3
           DEF Users, DeleteResource, CreateResource, UpdateResource, UserWritesResource,
               EditSource, CreateTarget, EditTarget, DeleteSource, DeleteTarget, AnnotateTarget,
               UserWritesConfigMap
    <2> QED BY <2>4 DEF Goal
<1>2. CASE Work \/ ReplyLost
    <2>1. UNCHANGED labels
        BY <1>2 DEF Work, ReplyLost, Get, AddFinalizer, UpdateConflict, StatusRefused,
               SelectorRejected, ReadSource, ListAndPlan, Lookup, Upsert, UpsertCall, WriteRefused,
               Report, ListManaged, Prune, PruneCall, DetachLookup, Detach, DetachCall,
               DetachTargetGone, EndCleanup, Release, PatchStatus, PatchErrorStatus, FinalizerCall,
               ReleaseCall, PatchCall, PatchErrorCall, StatusCall, clusterVars, UpToDate
    <2> QED BY <2>1
<1>3. CASE ApiFailure \/ Crash \/ Deliveries \/ UNCHANGED vars
    <2>1. UNCHANGED labels
        BY <1>3 DEF ApiFailure, Crash, Deliveries, DeliverResource, DeliverConfigMap, DelayElapsed,
               vars, clusterVars, GetFailed
    <2> QED BY <2>1
<1> QED BY <1>1, <1>2, <1>3 DEF Next

\* How the worker gets into a loop or on in one: everything else ends it.
LEMMA LoopKinds ==
    ASSUME TypeInv, [Next]_vars,
           pc' \in {"list", "lookup", "upsert", "listManaged", "cleanup", "detach", "patch"}
    PROVE  \/ UNCHANGED <<pc, key, hand, planner, localVars>>
           \/ ListAndPlan \/ Upsert \/ Report \/ ListManaged \/ Detach
           \/ (\E ns \in Namespaces : Lookup(ns) \/ Prune(ns) \/ DetachLookup(ns))
           \/ pc' = "list" /\ ReadSource
           \/ pc' = "patch" /\ EndCleanup
           \/ pc' = "listManaged" /\ hand'.deleting
<1>1. ~CallFails /\ ~Return
    BY DEF CallFails, ReturnError, Return, ControllerCalls
<1>2. ASSUME NEW c \in CRs, NEW resource \in Resources, NEW current, Begin(c, resource, current)
      PROVE  pc' = "listManaged" /\ hand'.deleting
    BY <1>1, <1>2 DEF Begin, Resources
<1>3. CASE Work
    <2>1. ~(\/ UpdateConflict \/ StatusRefused \/ SelectorRejected \/ WriteRefused
            \/ DetachTargetGone \/ Release \/ PatchStatus \/ PatchErrorStatus)
        BY <1>1 DEF UpdateConflict, StatusRefused, SelectorRejected, WriteRefused, DetachTargetGone,
               Release, PatchStatus, PatchErrorStatus, ReturnError
    <2>2. ASSUME AddFinalizer PROVE pc' = "listManaged" /\ hand'.deleting
        BY <1>2, <2>2, FinalizerFacts DEF AddFinalizer
    <2>3. ASSUME NEW c \in CRs, Get(c) PROVE pc' = "listManaged" /\ hand'.deleting
        <3>1. Begin(c, crCache[c], c \notin crStale) /\ crCache[c] # Nil
            BY <2>3 DEF Get, workerVars
        <3>2. crCache[c] \in Resources
            BY <3>1 DEF TypeInv, TypeOK, CacheType
        <3> QED BY <1>2, <3>1, <3>2
    <2>4. (ReadSource => pc' = "list") /\ (EndCleanup => pc' = "patch")
        BY <1>1 DEF ReadSource, EndCleanup, Advance
    <2> QED BY <1>3, <2>1, <2>2, <2>3, <2>4 DEF Work
<1>4. CASE ApiFailure \/ ReplyLost \/ Crash
    BY <1>1, <1>4 DEF ApiFailure, ReplyLost, Crash
<1>5. CASE Deliveries \/ Users \/ UNCHANGED vars
    BY <1>5, UserFacts DEF Deliveries, DeliverResource, DeliverConfigMap, DelayElapsed, vars, workerVars, memoryVars, GetFailed
<1> QED BY <1>3, <1>4, <1>5 DEF Next

\* The planner changes in two phases of the worker and in a restart.
LEMMA PlannerKinds ==
    ASSUME TypeInv, [Next]_vars
    PROVE  UNCHANGED planner \/ ListAndPlan \/ Report \/ Crash
<1>1. CASE Work
    BY <1>1 DEF Work, Get, AddFinalizer, UpdateConflict, StatusRefused, SelectorRejected, ReadSource,
           Lookup, Upsert, UpsertCall, WriteRefused, ListManaged, Prune, PruneCall, DetachLookup,
           Detach, DetachCall, DetachTargetGone, EndCleanup, Release, PatchStatus, PatchErrorStatus,
           FinalizerCall, ReleaseCall, PatchCall, PatchErrorCall, StatusCall, memoryVars, UpToDate
<1>2. CASE ReplyLost
    BY <1>2 DEF ReplyLost, FinalizerCall, ReleaseCall, UpsertCall, DetachCall, PruneCall,
               PatchCall, PatchErrorCall, StatusCall, memoryVars
<1>3. CASE ApiFailure \/ Deliveries \/ Users \/ UNCHANGED vars
    BY <1>3, UserFacts DEF ApiFailure, Deliveries, DeliverResource, DeliverConfigMap, DelayElapsed, vars, memoryVars, GetFailed
<1> QED BY <1>1, <1>2, <1>3 DEF Next

\* The phase of the finalizer is left by adding it or by giving up.
LEMMA FinalizerKinds ==
    ASSUME TypeInv, [Next]_vars, pc = "finalizer"
    PROVE  pc' \in {"idle", "finalizer"} \/ AddFinalizer
<1>1. CallFails => pc' = "idle"
    BY DEF CallFails, ReturnError, Return, ControllerCalls
<1>2. CASE Work
    BY <1>2 DEF Work, Get, UpdateConflict, StatusRefused, SelectorRejected, ReadSource, ListAndPlan,
           Lookup, Upsert, UpsertCall, WriteRefused, Report, ListManaged, Prune, PruneCall,
           DetachLookup, Detach, DetachCall, DetachTargetGone, EndCleanup, Release, ReleaseCall,
           PatchStatus, PatchCall, PatchErrorStatus, PatchErrorCall, ReturnError, Return, UpToDate
<1>3. CASE ApiFailure \/ ReplyLost \/ Crash
    BY <1>1, <1>3 DEF ApiFailure, ReplyLost, Crash, Return
<1>4. CASE Deliveries \/ Users \/ UNCHANGED vars
    BY <1>4, UserFacts DEF Deliveries, DeliverResource, DeliverConfigMap, DelayElapsed, vars, workerVars, GetFailed
<1> QED BY <1>2, <1>3, <1>4 DEF Next
=============================================================================
