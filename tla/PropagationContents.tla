------------------------ MODULE PropagationContents -------------------------
(***************************************************************************)
(* What the worker's writes do to the contents of ConfigMaps: a detach     *)
(* preserves the users' data, the sources are left alone, and what the     *)
(* planner counts as completed holds the content being rolled out; so a    *)
(* propagation at rest that is reported as ready is applied.               *)
(***************************************************************************)
EXTENDS PropagationStatus

\* Users relabel and remove namespaces, if they do, but not those of the sources.
LabelsStay(ns) ==
    /\ InitialLabels[ns] # Nil
    /\ ns \in SourceNamespaces \/ Edits \cap {"relabel", "deleteNamespace"} = {}

\* The labels a namespace may have.
MayCarry(ns) == IF LabelsStay(ns) THEN {InitialLabels[ns]} ELSE LabelMaps

\* The namespaces a spec may ever select.
MaySelect(spec, ns) == \E labelMap \in MayCarry(ns) : Selects(spec.selector, labelMap)

\* The labels that stay have stayed.
LabelsKept == \A ns \in Namespaces : LabelsStay(ns) => labels[ns] = InitialLabels[ns]

\* A ConfigMap in the cache is the API server's unless a change is under way.
CopiesCoherent == \A ns \in Namespaces : ns \notin cmStale => cmCache[ns] = cm[ns]

\* The stored specs are those of the users, but for defaults; past Begin the
\* copy in hand is defaulted.
StoredSpecs(resources) ==
    \A c \in CRs : resources[c] # Nil =>
        \E spec \in Specs[c] : DefaultSpec(resources[c].spec) = DefaultSpec(spec)
HandSpec ==
    pc \notin {"idle", "finalizer"} => \E spec \in Specs[key] : hand.spec = DefaultSpec(spec)

\* The loops stay where they belong: syncTargets in what may be selected,
\* cleanupDeselected outside the targets, to which the planner was cut down.
LoopPlaces ==
    /\ pc \in {"lookup", "upsert"} => \A ns \in targets : MaySelect(hand.spec, ns)
    /\ pc \in {"lookup", "upsert"} /\ Edits \cap {"relabel", "deleteNamespace"} = {} =>
        \A ns \in targets : labels[ns] # Nil
    /\ pc \in {"cleanup", "detach"} => todo \cap targets = {}
    /\ pc = "detach" => at \in todo
    /\ pc \in {"listManaged", "cleanup", "detach"} /\ ~hand.deleting =>
        IF hand.spec.strategy = "rolling" THEN planner[key].completed \subseteq targets ELSE planner[key] = Nil

PlaceInv ==
    /\ LabelsKept /\ CopiesCoherent
    /\ StoredSpecs(cr) /\ StoredSpecs(crCache) /\ HandSpec
    /\ LoopPlaces

-----------------------------------------------------------------------------
(* The sources                                                             *)

\* A propagation that may select the namespace of a source skips conflicts, and
\* the source is not taken away.
SourcesSafe ==
    \A c \in CRs : \A spec \in Specs[c] : \A ns \in SourceNamespaces :
        MaySelect(spec, ns) =>
            DefaultSpec(spec).conflictPolicy = "skip" /\ "deleteSource" \notin Edits

\* Sources carry no markers.
SourcesPlain(configMaps) ==
    \A ns \in SourceNamespaces :
        /\ configMaps[ns] # Nil => ~configMaps[ns].managed /\ configMaps[ns].source = Nil
        /\ "deleteSource" \notin Edits => configMaps[ns] # Nil

\* The worker is not about to write to a source.
LoopSpares ==
    /\ pc = "upsert" => at \notin SourceNamespaces
    /\ pc \in {"cleanup", "detach"} => todo \cap SourceNamespaces = {}

SparedInv == SourcesPlain(cm) /\ SourcesPlain(cmCache) /\ LoopSpares

-----------------------------------------------------------------------------
(* The rollout                                                             *)

\* The namespaces of a propagation.
Territory(c) == {ns \in Namespaces : \E spec \in Specs[c] : MaySelect(spec, ns)}

\* Propagations have their own sources and namespaces.
Apart ==
    \A c, d \in CRs : c # d =>
        /\ Territory(c) \cap Territory(d) = {}
        /\ \A spec \in Specs[c], other \in Specs[d] : spec.source # other.source

\* Nobody changes the strategy of a propagation.
StrategyFixed ==
    \A c \in CRs : \A spec, other \in Specs[c] :
        DefaultSpec(spec).strategy = DefaultSpec(other).strategy

\* No reconcile fails between its first write and its report.
NothingFails == MaxFaults = 0 /\ Denied = {} /\ Edits \cap {"relabel", "deleteNamespace"} = {}

\* Nobody but the worker removes or changes the copies.
CopiesLeftAlone == Edits \cap {"editTarget", "deleteTarget", "deleteNamespace"} = {}

\* Users delete propagations only if these leave nothing behind in the planner.
NothingRevived ==
    \/ "deleteResource" \notin Edits
    \/ \A c \in CRs : \A spec \in Specs[c] : DefaultSpec(spec).strategy = "immediate"

\* A managed ConfigMap is a faithful copy in the territory of a propagation of its source.
MarkersOwned ==
    \A ns \in Namespaces : cm[ns] # Nil =>
        IF cm[ns].managed
        THEN /\ cm[ns].hash = HashData(cm[ns].data)
             /\ \E c \in CRs : ns \in Territory(c) /\ \E spec \in Specs[c] : spec.source = cm[ns].source
        ELSE cm[ns].source = Nil

\* A managed copy of the content with this hash.
Holds(configMap, hash) == configMap # Nil /\ configMap.managed /\ configMap.hash = hash

\* The worker replaces what a rollout of c has completed by other content; when
\* it is through, the planner forgets that rollout.
Overtaken(c) == pc \in {"lookup", "upsert"} /\ key = c /\ hand.spec.strategy = "immediate"

\* What is completed is a copy in the propagation's territory.
CompletedHeld ==
    \A c \in CRs : planner[c] # Nil =>
        /\ StrategyFixed => \A spec \in Specs[c] : DefaultSpec(spec).strategy = "rolling"
        /\ \/ Overtaken(c)
           \/ \A ns \in planner[c].completed : ns \in Territory(c) /\ Holds(cm[ns], planner[c].hash)

\* No resource is being deleted if users delete none.
NoDeletion ==
    "deleteResource" \notin Edits =>
        /\ \A c \in CRs : (cr[c] # Nil => ~cr[c].deleting) /\ (crCache[c] # Nil => ~crCache[c].deleting)
        /\ pc # "idle" => ~hand.deleting

\* What the loop has done holds the content, and what it is at is its own.
LoopHolds ==
    /\ pc \in {"lookup", "upsert"} => \A ns \in done : Holds(cm[ns], HashData(data))
    /\ pc \in {"lookup", "upsert", "cleanup", "detach"} => todo \subseteq Territory(key)

\* Current reads, and nobody in the way of a rollout; a strategy changes only
\* where no reconcile can be cut off half way.
RolloutSetting ==
    /\ ~InformerLag /\ SourcesSafe /\ Apart /\ CopiesLeftAlone /\ NothingRevived
    /\ StrategyFixed \/ NothingFails
BaseInv == TypeInv /\ GuardInv /\ CleanInv /\ LoopInv /\ PlaceInv /\ SparedInv
RolloutInv == MarkersOwned /\ CompletedHeld /\ NoDeletion /\ LoopHolds

-----------------------------------------------------------------------------
(* Specs, labels and places                                                *)

\* Defaulting once is enough.
LEMMA DefaultTwice ==
    ASSUME NEW spec \in SpecType
    PROVE  DefaultSpec(DefaultSpec(spec)) = DefaultSpec(spec)
<1>1. \A field, value : Default(Default(field, value), value) = Default(field, value)
    BY DEF Default
<1> DEFINE once == DefaultSpec(spec)
<1>2. /\ once \in SpecType
      /\ once.strategy = Default(spec.strategy, "rolling")
      /\ once.batchSize = Default(spec.batchSize, DefaultBatchSize)
      /\ once.conflictPolicy = Default(spec.conflictPolicy, "overwrite")
      /\ once.prune = Default(spec.prune, TRUE)
    BY DefaultSpecType DEF DefaultSpec, SpecType
<1> HIDE DEF once
<1>3. /\ Default(once.strategy, "rolling") = once.strategy
      /\ Default(once.batchSize, DefaultBatchSize) = once.batchSize
      /\ Default(once.conflictPolicy, "overwrite") = once.conflictPolicy
      /\ Default(once.prune, TRUE) = once.prune
    BY <1>1, <1>2
<1>4. DefaultSpec(once) = once
    BY <1>2, <1>3 DEF DefaultSpec, SpecType
<1> QED BY <1>4 DEF once

\* What admission stores is the user's spec, but for defaults.
LEMMA AdmittedFrom ==
    ASSUME NEW c \in CRs, NEW spec \in Specs[c]
    PROVE  DefaultSpec(Admitted(spec)) = DefaultSpec(spec)
BY SpecsAssumption, DefaultTwice DEF Admitted

\* Whoever stores a spec stores one of the users'.
LEMMA StoredSpecsStep ==
    ASSUME TypeInv, StoredSpecs(cr), StoredSpecs(crCache), [Next]_vars
    PROVE  StoredSpecs(cr)' /\ StoredSpecs(crCache)'
<1>1. StoredSpecs(cr)'
    <2>1. CASE UNCHANGED cr
        BY <2>1 DEF StoredSpecs
    <2>2. CASE FinalizerCall
        BY <2>2, FinalizerFacts DEF StoredSpecs
    <2>3. CASE ReleaseCall
        BY <2>3, ReleaseFacts DEF StoredSpecs
    <2>4. CASE PatchCall \/ PatchErrorCall
        BY <2>4, PatchFacts DEF StoredSpecs
    <2>5. UpsertCall \/ DetachCall \/ (\E ns \in Namespaces : PruneCall(ns)) => UNCHANGED cr
        BY DEF UpsertCall, DetachCall, PruneCall
    <2>6. ASSUME NEW c \in CRs, UserResourceStep(c) PROVE StoredSpecs(cr)'
        BY <2>6, AdmittedFrom DEF UserResourceStep, StoredSpecs
    <2>7. CASE Users
        BY <2>1, <2>6, <2>7, UserFacts
    <2> QED BY <2>1, <2>2, <2>3, <2>4, <2>5, <2>7, StepKinds
<1>2. StoredSpecs(crCache)'
    BY CacheKinds DEF StoredSpecs
<1> QED BY <1>1, <1>2

\* The copy in hand has a defaulted spec of the users.
LEMMA HandSpecStep ==
    ASSUME TypeInv, StoredSpecs(cr), StoredSpecs(crCache), HandSpec, [Next]_vars
    PROVE  HandSpec'
<1>1. ASSUME NEW c \in CRs, NEW resource \in Resources, NEW current, Begin(c, resource, current),
             \E spec \in Specs[c] : DefaultSpec(resource.spec) = DefaultSpec(spec)
      PROVE  HandSpec'
    <2>1. CASE pc' = "idle"
        BY <2>1 DEF HandSpec
    <2>2. CASE key' = c /\ hand' = [resource EXCEPT !.spec = DefaultSpec(resource.spec)]
        BY <1>1, <2>2 DEF HandSpec, Resources
    <2> QED BY <1>1, <2>1, <2>2 DEF Begin, Return
<1>2. CASE pc' \in {"idle", "finalizer"}
    BY <1>2 DEF HandSpec
<1>3. ASSUME pc \notin {"idle", "finalizer"}, UNCHANGED <<key, hand>> PROVE HandSpec'
    BY <1>3 DEF HandSpec
<1>4. CASE AddFinalizer
    BY <1>1, <1>4, FinalizerFacts DEF AddFinalizer, StoredSpecs
<1>5. ASSUME NEW c \in CRs, Get(c) PROVE HandSpec'
    <2>1. pc' \in {"idle", "finalizer"} \/ (crCache[c] # Nil /\ Begin(c, crCache[c], c \notin crStale))
        BY <1>5 DEF Get, workerVars
    <2>2. crCache[c] # Nil => crCache[c] \in Resources
        BY DEF TypeInv, TypeOK, CacheType
    <2> QED BY <1>1, <1>2, <2>1, <2>2 DEF StoredSpecs
<1> QED BY <1>2, <1>3, <1>4, <1>5, HandKinds, FinalizerKinds

\* The labels that stay stay.
LEMMA LabelsKeptStep == ASSUME TypeInv, LabelsKept, [Next]_vars PROVE LabelsKept'
BY LabelKinds DEF LabelsKept, LabelsStay

\* What is selected now may be selected.
LEMMA SelectedMay ==
    ASSUME TypeInv, LabelsKept, NEW spec, NEW ns \in Selected(spec)
    PROVE  MaySelect(spec, ns)
BY DEF Selected, MaySelect, MayCarry, LabelsKept, TypeInv, TypeOK, ClusterType

\* The loops stay in their places.
LEMMA LoopPlacesStep ==
    ASSUME TypeInv, LoopInv, LabelsKept, LoopPlaces, [Next]_vars
    PROVE  LoopPlaces'
<1>1. ASSUME Edits \cap {"relabel", "deleteNamespace"} = {}, NEW ns \in targets, labels[ns] # Nil
      PROVE  labels'[ns] # Nil
    BY <1>1, LabelKinds DEF TypeInv, TypeOK, LocalType
<1>2. CASE pc' \notin {"lookup", "upsert", "listManaged", "cleanup", "detach"}
    BY <1>2 DEF LoopPlaces
<1>3. CASE UNCHANGED <<pc, key, hand, planner, localVars>>
    BY <1>1, <1>3 DEF localVars, LoopPlaces
<1>4. CASE ListAndPlan
    <2>1. /\ pc' = "lookup" /\ targets' = Selected(hand.spec) /\ UNCHANGED <<hand, labels>>
        BY <1>4 DEF ListAndPlan, Advance, clusterVars
    <2>2. \A ns \in Selected(hand.spec) : labels[ns] # Nil
        BY DEF Selected
    <2> QED BY <2>1, <2>2, SelectedMay DEF LoopPlaces
<1>5. ASSUME Upsert \/ \E ns \in Namespaces : Lookup(ns) PROVE LoopPlaces'
    <2>1. pc \in {"lookup", "upsert"} /\ pc' \in {"lookup", "upsert"} /\ UNCHANGED <<hand, targets>>
        BY <1>5 DEF Upsert, UpsertCall, Lookup, Advance, UpToDate
    <2> QED BY <1>1, <2>1 DEF LoopPlaces
<1>6. CASE Report
    <2>1. /\ pc = "lookup" /\ pc' = "listManaged" /\ UNCHANGED <<key, hand, targets>>
          /\ hand.spec.strategy = "rolling" =>
                planner' = [planner EXCEPT ![key] = MarkCompleted(@, HashData(data), done)]
        BY <1>6 DEF Report, Advance
    <2>2. /\ key \in CRs /\ planner \in [CRs -> RolloutStates] /\ planner[key] \in RolloutStates
          /\ done \in SUBSET Namespaces /\ HashData(data) \in Hashes
        BY <2>1, HashDataType DEF TypeInv, TypeOK, ReconcileType, LocalType, MemoryType
    <2>3. hand.spec.strategy = "rolling" => planner[key].completed \cup done \subseteq targets
        BY <2>1 DEF LoopInv, LoopParts
    <2>4. hand.spec.strategy = "rolling" => planner'[key].completed \subseteq targets
        BY <2>1, <2>2, <2>3, CompletedFrom
    <2>5. hand.spec.strategy # "rolling" => planner'[key] = Nil
        BY <1>6, <2>2 DEF Report, Forget
    <2> QED BY <2>1, <2>4, <2>5 DEF LoopPlaces
<1>7. CASE ListManaged
    BY <1>7 DEF ListManaged, Advance, memoryVars, LoopPlaces
<1>8. ASSUME Detach \/ \E ns \in Namespaces : Prune(ns) \/ DetachLookup(ns) PROVE LoopPlaces'
    <2>1. /\ pc \in {"cleanup", "detach"} /\ UNCHANGED <<key, hand, targets, planner>>
          /\ todo' \subseteq todo /\ pc' \in {"cleanup", "detach"}
          /\ pc' = "detach" => at' \in todo'
        BY <1>8 DEF Detach, DetachCall, Prune, PruneCall, DetachLookup, Advance, memoryVars
    <2> QED BY <2>1 DEF LoopPlaces
<1>9. CASE pc' = "listManaged" /\ hand'.deleting
    BY <1>9 DEF LoopPlaces
<1> QED BY <1>2, <1>3, <1>4, <1>5, <1>6, <1>7, <1>8, <1>9, LoopKinds

\* A write that goes by the cache leaves an event behind.
LEMMA CopiesStep == ASSUME TypeInv, CopiesCoherent, [Next]_vars PROVE CopiesCoherent'
<1>1. CASE Written
    BY <1>1 DEF Written, WriteConfigMap, CopiesCoherent, TypeInv, TypeOK, ClusterType
<1>2. CASE Crash
    BY <1>2 DEF Crash, clusterVars, CopiesCoherent
<1>3. CASE \E ns \in Namespaces : DeliverConfigMap(ns)
    BY <1>3 DEF DeliverConfigMap, clusterVars, CopiesCoherent, TypeInv, TypeOK, CacheType
<1> QED BY <1>1, <1>2, <1>3, ConfigMapKinds

\* The initial state satisfies the invariant.
LEMMA InitPlace == Init => PlaceInv
BY DEF Init, PlaceInv, LabelsKept, CopiesCoherent, StoredSpecs, HandSpec, LoopPlaces

\* Every step keeps it.
LEMMA StepPlace == TypeInv /\ LoopInv /\ PlaceInv /\ [Next]_vars => PlaceInv'
BY LabelsKeptStep, CopiesStep, StoredSpecsStep, HandSpecStep, LoopPlacesStep DEF PlaceInv

\* The invariant holds of every behaviour.
THEOREM PlaceInvariance == Spec => [](TypeInv /\ LoopInv /\ PlaceInv)
<1>1. Init => TypeInv /\ LoopInv /\ PlaceInv
    BY InitTyping, InitStatus, InitPlace DEF StatusInv
<1>2. (TypeInv /\ LoopInv /\ PlaceInv) /\ [Next]_vars => (TypeInv /\ LoopInv /\ PlaceInv)'
    BY StepTyping, StepLoop, StepPlace
<1> QED BY <1>1, <1>2, PTL DEF Spec

-----------------------------------------------------------------------------
(* Detaching                                                               *)

\* A target is detached by the write and by nothing else.
LEMMA DetachKinds ==
    ASSUME TypeInv, [Next]_vars, pc = "detach", pc' = "cleanup"
    PROVE  DetachCall
BY LoopKinds DEF localVars, ListAndPlan, Upsert, UpsertCall, Report, ListManaged, Detach, Lookup, Prune,
       PruneCall, DetachLookup, UpToDate

\* Also with stale reads and concurrent edits, a detached target keeps the data
\* that the users last wrote to it and the metadata that was read: an update is
\* accepted only in the version that was read.
THEOREM DetachPreserved == Spec => DetachPreserves
<1>1. TypeInv /\ PlaceInv /\ [Next]_vars =>
        (pc = "detach" /\ pc' = "cleanup" /\ cm[at] # Nil =>
            /\ cm'[at] # Nil
            /\ cm'[at].data = cm[at].data
            /\ meta => cm'[at].user)
    BY DetachKinds, DetachFacts DEF PlaceInv, CopiesCoherent
<1> QED BY <1>1, PlaceInvariance, PTL DEF Spec, DetachPreserves

-----------------------------------------------------------------------------
(* Leaving the sources alone                                               *)

\* No write of the worker is to a source.
LEMMA WorkerSpares ==
    ASSUME TypeInv, PlaceInv, SparedInv, [Next]_vars, ~Users
    PROVE  \A ns \in SourceNamespaces : cm'[ns] = cm[ns]
<1> USE SourceAssumption
<1>1. FinalizerCall \/ ReleaseCall \/ PatchCall \/ PatchErrorCall => UNCHANGED cm
    BY FinalizerFacts, ReleaseFacts, PatchFacts
<1>2. CASE UpsertCall
    BY <1>2, UpsertFacts DEF UpsertCall, SparedInv, LoopSpares
<1>3. CASE DetachCall
    BY <1>3, DetachFacts DEF DetachCall, SparedInv, LoopSpares, PlaceInv, LoopPlaces
<1>4. ASSUME NEW ns \in Namespaces, PruneCall(ns)
      PROVE  \A m \in SourceNamespaces : cm'[m] = cm[m]
    BY <1>4, PruneFacts DEF PruneCall, SparedInv, LoopSpares
<1> QED BY <1>1, <1>2, <1>3, <1>4, StepKinds

\* Sources stay without markers.
LEMMA SourcesPlainStep ==
    ASSUME TypeInv, PlaceInv, SparedInv, [Next]_vars
    PROVE  SourcesPlain(cm)' /\ SourcesPlain(cmCache)'
<1>1. SourcesPlain(cm)'
    <2>1. CASE \A ns \in SourceNamespaces : cm'[ns] = cm[ns]
        BY <2>1 DEF SparedInv, SourcesPlain
    <2>2. ASSUME NEW ns \in Namespaces, UserConfigMapStep(ns) PROVE SourcesPlain(cm)'
        BY <2>2, SourceAssumption DEF UserConfigMapStep, SparedInv, SourcesPlain
    <2>3. CASE Users
        BY <2>1, <2>2, <2>3, UserFacts
    <2> QED BY <2>1, <2>3, WorkerSpares
<1>2. SourcesPlain(cmCache)'
    BY <1>1, CopyKinds, SourceAssumption DEF SparedInv, SourcesPlain
<1> QED BY <1>1, <1>2

\* A source that syncTargets comes across is a conflict, which it skips.
LEMMA LookupSpares ==
    ASSUME SourcesSafe, TypeInv, LoopInv, PlaceInv, SparedInv,
           NEW ns \in SourceNamespaces, Lookup(ns)
    PROVE  pc' # "upsert"
<1>1. /\ pc = "lookup" /\ ns \in targets /\ key \in CRs /\ hand.spec.source \in Namespaces
      /\ MaySelect(hand.spec, ns)
    BY DEF Lookup, IsFirst, LoopInv, LoopParts, TypeInv, TypeOK, ReconcileType, PlaceInv, LoopPlaces, CompleteSpec
<1>2. PICK spec \in Specs[key] : hand.spec = DefaultSpec(spec)
    BY <1>1 DEF PlaceInv, HandSpec
<1>3. MaySelect(spec, ns)
    <2>1. spec \in SpecType
        BY <1>1, <1>2, SpecsAssumption
    <2>2. hand.spec.selector = spec.selector
        BY <1>2, <2>1 DEF DefaultSpec, SpecType
    <2> QED BY <1>1, <2>2 DEF MaySelect
<1>4. hand.spec.conflictPolicy = "skip" /\ "deleteSource" \notin Edits
    BY <1>1, <1>2, <1>3 DEF SourcesSafe
<1>5. Conflict(cmCache[ns])
    BY <1>1, <1>4, NilAssumption DEF SparedInv, SourcesPlain, Conflict, ManagedFor
<1>6. pc' = "lookup" \/ ~Conflict(cmCache[ns])
    BY DEF Lookup, Advance, UpToDate
<1> QED BY <1>5, <1>6

\* The worker does not get near a source.
LEMMA LoopSparesStep ==
    ASSUME SourcesSafe, TypeInv, LoopInv, PlaceInv, SparedInv, [Next]_vars
    PROVE  LoopSpares'
<1>1. CASE pc' \notin {"upsert", "cleanup", "detach"}
    BY <1>1 DEF LoopSpares
<1>2. CASE UNCHANGED <<pc, key, hand, planner, localVars>>
    BY <1>2 DEF localVars, SparedInv, LoopSpares
<1>3. ListAndPlan \/ Upsert \/ Report => pc' \notin {"upsert", "cleanup", "detach"}
    BY DEF ListAndPlan, Upsert, Report, Advance
<1>4. ASSUME NEW ns \in Namespaces, Lookup(ns) PROVE LoopSpares'
    <2>1. pc' = "lookup" \/ (pc' = "upsert" /\ at' = ns)
        BY <1>4 DEF Lookup, Advance, UpToDate
    <2> QED BY <1>4, <2>1, LookupSpares DEF LoopSpares
<1>5. CASE ListManaged
    BY <1>5, SourceAssumption DEF ListManaged, Advance, ListedFor, SparedInv, SourcesPlain, LoopSpares
<1>6. ASSUME Detach \/ \E ns \in Namespaces : Prune(ns) \/ DetachLookup(ns) PROVE LoopSpares'
    <2>1. pc \in {"cleanup", "detach"} /\ todo' \subseteq todo /\ pc' \in {"cleanup", "detach"}
        BY <1>6 DEF Detach, DetachCall, Prune, PruneCall, DetachLookup, Advance
    <2> QED BY <2>1 DEF SparedInv, LoopSpares
<1> QED BY <1>1, <1>2, <1>3, <1>4, <1>5, <1>6, LoopKinds

\* The initial state satisfies the invariant.
LEMMA InitSpared == Init => SparedInv
<1> SUFFICES ASSUME Init PROVE SparedInv
    OBVIOUS
<1>1. \A ns \in SourceNamespaces : cm[ns] = UserConfigMap(InitialData[ns]) /\ cm[ns] # Nil
    <2>1. \A ns \in SourceNamespaces : cm[ns] = UserConfigMap(InitialData[ns])
        BY SourceAssumption DEF Init
    <2>2. \A ns \in SourceNamespaces : UserConfigMap(InitialData[ns]) \in ConfigMaps
        BY InitialDataAssumption, UserConfigMapType
    <2> QED BY <2>1, <2>2, NilAssumption
<1>2. SourcesPlain(cm)
    <2>1. \A d : ~UserConfigMap(d).managed /\ UserConfigMap(d).source = Nil
        BY DEF UserConfigMap
    <2> QED BY <1>1, <2>1 DEF SourcesPlain
<1> QED BY <1>2 DEF Init, SparedInv, LoopSpares

\* Every step keeps it.
LEMMA StepSpared ==
    ASSUME SourcesSafe
    PROVE  TypeInv /\ LoopInv /\ PlaceInv /\ SparedInv /\ [Next]_vars => SparedInv'
BY SourcesPlainStep, LoopSparesStep DEF SparedInv

\* Also with stale reads: where a propagation that may select the namespace of a
\* source skips conflicts, and users do not take that source away, only users
\* change the sources.
THEOREM SourcesKept ==
    ASSUME SourcesSafe
    PROVE  Spec => SourceKept
<1>1. Init => SparedInv
    BY InitSpared
<1>2. (TypeInv /\ LoopInv /\ PlaceInv) /\ SparedInv /\ [Next]_vars => SparedInv'
    BY StepSpared
<1>3. (TypeInv /\ LoopInv /\ PlaceInv) /\ SparedInv /\ [Next]_vars =>
        \A ns \in SourceNamespaces : cm'[ns] # cm[ns] => edits' # edits
    <2>1. TypeInv /\ Users => edits' # edits
        BY UserFacts DEF TypeInv, TypeOK, BoundType
    <2> QED BY <2>1, WorkerSpares
<1> QED BY <1>1, <1>2, <1>3, PlaceInvariance, PTL DEF Spec, SourceKept

-----------------------------------------------------------------------------
(* The rollout                                                             *)

\* Plan keeps of the completed namespaces those of the same content.
LEMMA PlannedFrom ==
    ASSUME NEW state \in RolloutStates, NEW hash \in Hashes, NEW names \in SUBSET Namespaces
    PROVE  /\ PlannedState(state, hash, names).hash = hash
           /\ \A ns \in PlannedState(state, hash, names).completed :
                state # Nil /\ state.hash = hash /\ ns \in state.completed
<1>1. /\ EnsureState(state, hash) \in [hash : Hashes, completed : SUBSET Namespaces]
      /\ EnsureState(state, hash).hash = hash
      /\ \A ns \in EnsureState(state, hash).completed :
            state # Nil /\ state.hash = hash /\ ns \in state.completed
    BY DEF EnsureState, RolloutStates
<1> QED BY <1>1 DEF PlannedState

\* MarkCompleted adds to those of the same content, or has nothing to record.
LEMMA MarkedFrom ==
    ASSUME NEW state \in RolloutStates, NEW hash \in Hashes, NEW names \in SUBSET Namespaces
    PROVE  \/ MarkCompleted(state, hash, names) = state
           \/ /\ MarkCompleted(state, hash, names).hash = hash
              /\ \A ns \in MarkCompleted(state, hash, names).completed :
                    ns \in names \/ (state # Nil /\ state.hash = hash /\ ns \in state.completed)
<1>1. /\ EnsureState(state, hash) \in [hash : Hashes, completed : SUBSET Namespaces]
      /\ EnsureState(state, hash).hash = hash
      /\ \A ns \in EnsureState(state, hash).completed :
            state # Nil /\ state.hash = hash /\ ns \in state.completed
    BY DEF EnsureState, RolloutStates
<1> QED BY <1>1 DEF MarkCompleted

\* The spec in hand is one of its propagation's: source, territory and strategy.
LEMMA HandOwn ==
    ASSUME TypeInv, PlaceInv, pc \notin {"idle", "finalizer"}
    PROVE  /\ key \in CRs
           /\ \E spec \in Specs[key] : spec.source = hand.spec.source
                                        /\ DefaultSpec(spec).strategy = hand.spec.strategy
           /\ \A ns \in Namespaces : MaySelect(hand.spec, ns) => ns \in Territory(key)
<1>1. key \in CRs
    BY DEF TypeInv, TypeOK, ReconcileType
<1>2. PICK spec \in Specs[key] : hand.spec = DefaultSpec(spec)
    BY DEF PlaceInv, HandSpec
<1>3. spec \in SpecType
    BY <1>1, SpecsAssumption
<1>4. hand.spec.source = spec.source /\ hand.spec.selector = spec.selector
    BY <1>2, <1>3 DEF DefaultSpec, SpecType
<1> QED BY <1>1, <1>2, <1>4 DEF Territory, MaySelect

\* The worker writes where its loop is.
LEMMA WriteTouches ==
    ASSUME TypeInv, LoopInv, PlaceInv, [Next]_vars, ~Users, NEW ns \in Namespaces
    PROVE  cm'[ns] = cm[ns] \/ (pc \in {"upsert", "cleanup", "detach"} /\ ns \in todo)
<1>1. FinalizerCall \/ ReleaseCall \/ PatchCall \/ PatchErrorCall => UNCHANGED cm
    BY FinalizerFacts, ReleaseFacts, PatchFacts
<1>2. CASE UpsertCall
    BY <1>2, UpsertFacts DEF UpsertCall, LoopInv, LoopParts
<1>3. CASE DetachCall
    BY <1>3, DetachFacts DEF DetachCall, PlaceInv, LoopPlaces
<1>4. ASSUME NEW m \in Namespaces, PruneCall(m)
      PROVE  cm'[ns] = cm[ns] \/ (pc = "cleanup" /\ ns \in todo)
    BY <1>4, PruneFacts DEF PruneCall
<1> QED BY <1>1, <1>2, <1>3, <1>4, StepKinds

\* The markers and the data are those of before.
Alike(configMap, before) ==
    /\ configMap # Nil /\ configMap.managed = before.managed /\ configMap.source = before.source
    /\ configMap.hash = before.hash /\ configMap.data = before.data

\* Users leave managed copies as they are.
LEMMA UsersHold ==
    ASSUME CopiesLeftAlone, BaseInv, MarkersOwned, Users
    PROVE  /\ MarkersOwned'
           /\ \A ns \in Namespaces : cm[ns] # Nil /\ cm[ns].managed => Alike(cm'[ns], cm[ns])
<1> USE DEF BaseInv
<1>1. CASE UNCHANGED cm
    BY <1>1 DEF MarkersOwned, Alike
<1>2. ASSUME NEW ns \in Namespaces, UserConfigMapStep(ns)
      PROVE  /\ MarkersOwned'
             /\ \A m \in Namespaces : cm[m] # Nil /\ cm[m].managed => Alike(cm'[m], cm[m])
    <2>1. \A m \in Namespaces \ {ns} : cm'[m] = cm[m]
        BY <1>2 DEF UserConfigMapStep
    <2>2. cm[ns] # Nil /\ cm[ns].managed => ns \notin SourceNamespaces
        BY DEF SparedInv, SourcesPlain
    <2>3. cm[ns] # Nil /\ cm[ns].managed => Alike(cm'[ns], cm[ns])
        BY <1>2, <2>2 DEF UserConfigMapStep, CopiesLeftAlone, Alike
    <2>4. ~(cm[ns] # Nil /\ cm[ns].managed) => cm'[ns] = Nil \/ (~cm'[ns].managed /\ cm'[ns].source = Nil)
        BY <1>2 DEF UserConfigMapStep, MarkersOwned
    <2>5. \A m \in Namespaces : cm[m] # Nil /\ cm[m].managed => Alike(cm'[m], cm[m])
        BY <2>1, <2>3 DEF Alike
    <2>6. MarkersOwned'
        BY <2>1, <2>3, <2>4 DEF MarkersOwned, Alike
    <2> QED BY <2>5, <2>6
<1> QED BY <1>1, <1>2, UserFacts

\* Every managed ConfigMap stays a faithful copy with an owner.
LEMMA MarkersOwnedStep ==
    ASSUME CopiesLeftAlone, BaseInv, MarkersOwned, LoopHolds, [Next]_vars
    PROVE  MarkersOwned'
<1> USE DEF BaseInv
<1>1. CASE UNCHANGED cm
    BY <1>1 DEF MarkersOwned
<1>2. FinalizerCall \/ ReleaseCall \/ PatchCall \/ PatchErrorCall => UNCHANGED cm
    BY FinalizerFacts, ReleaseFacts, PatchFacts
<1>3. CASE UpsertCall
    <2>1. /\ at \in Territory(key) /\ key \in CRs
          /\ \E spec \in Specs[key] : spec.source = hand.spec.source
        BY <1>3, HandOwn DEF UpsertCall, LoopInv, LoopParts, LoopHolds
    <2>2. /\ cm'[at] # Nil /\ cm'[at].managed /\ cm'[at].hash = HashData(cm'[at].data)
          /\ cm'[at].source = hand.spec.source
        BY <1>3, UpsertFacts DEF Target
    <2> QED BY <1>3, <2>1, <2>2, UpsertFacts DEF MarkersOwned
<1>4. CASE DetachCall
    BY <1>4, DetachFacts DEF MarkersOwned
<1>5. ASSUME NEW ns \in Namespaces, PruneCall(ns) PROVE MarkersOwned'
    BY <1>5, PruneFacts DEF MarkersOwned
<1> QED BY <1>1, <1>2, <1>3, <1>4, <1>5, StepKinds, UsersHold

\* Nobody asks for a deletion.
LEMMA NoDeletionStep == ASSUME TypeInv, NoDeletion, [Next]_vars PROVE NoDeletion'
<1> SUFFICES ASSUME "deleteResource" \notin Edits PROVE NoDeletion'
    BY DEF NoDeletion
<1>1. \A c \in CRs : cr'[c] # Nil => ~cr'[c].deleting
    <2>1. CASE UNCHANGED cr
        BY <2>1 DEF NoDeletion
    <2>2. CASE FinalizerCall
        BY <2>2, FinalizerFacts DEF NoDeletion
    <2>3. CASE ReleaseCall
        BY <2>3, ReleaseFacts DEF NoDeletion
    <2>4. CASE PatchCall \/ PatchErrorCall
        BY <2>4, PatchFacts DEF NoDeletion
    <2>5. UpsertCall \/ DetachCall \/ (\E ns \in Namespaces : PruneCall(ns)) => UNCHANGED cr
        BY DEF UpsertCall, DetachCall, PruneCall
    <2>6. CASE Users
        BY <2>1, <2>6, UserFacts DEF UserResourceStep, NoDeletion
    <2> QED BY <2>1, <2>2, <2>3, <2>4, <2>5, <2>6, StepKinds
<1>2. \A c \in CRs : crCache'[c] # Nil => ~crCache'[c].deleting
    BY CacheKinds DEF NoDeletion
<1>3. pc' # "idle" => ~hand'.deleting
    <2>1. ASSUME NEW c \in CRs, NEW resource \in Resources, NEW current, Begin(c, resource, current),
                 ~resource.deleting
          PROVE  ~hand'.deleting
        BY <2>1 DEF Begin, Resources
    <2>2. CASE AddFinalizer
        BY <1>1, <2>1, <2>2, FinalizerFacts DEF AddFinalizer
    <2>3. ASSUME NEW c \in CRs, Get(c), pc' # "idle" PROVE ~hand'.deleting
        <3>1. crCache[c] # Nil /\ (hand' = crCache[c] \/ Begin(c, crCache[c], c \notin crStale))
            BY <2>3 DEF Get, workerVars
        <3>2. crCache[c] \in Resources /\ ~crCache[c].deleting
            BY <3>1 DEF NoDeletion, TypeInv, TypeOK, CacheType
        <3> QED BY <2>1, <3>1, <3>2
    <2> QED BY <2>2, <2>3, HandKinds DEF NoDeletion
<1> QED BY <1>1, <1>2, <1>3 DEF NoDeletion

\* What was completed before the step still is a copy, of whomever it is.
LEMMA CompletedStay ==
    ASSUME RolloutSetting, BaseInv, RolloutInv, [Next]_vars,
           NEW c \in CRs, planner[c] # Nil, ~Overtaken(c), NEW ns \in planner[c].completed
    PROVE  ns \in Territory(c) /\ Holds(cm'[ns], planner[c].hash)
<1> USE DEF BaseInv, RolloutInv, RolloutSetting
<1>1. ns \in Namespaces /\ ns \in Territory(c) /\ Holds(cm[ns], planner[c].hash)
    BY DEF CompletedHeld, Territory
<1>2. CASE Users
    BY <1>1, <1>2, UsersHold DEF Holds, Alike
<1>3. CASE cm'[ns] = cm[ns]
    BY <1>1, <1>3
<1>4. ASSUME pc \in {"upsert", "cleanup", "detach"}, ns \in todo PROVE FALSE
    <2>1. key \in CRs /\ ns \in Territory(key)
        BY <1>4, HandOwn DEF LoopHolds
    <2>2. key = c
        BY <1>1, <2>1 DEF Apart
    <2>3. hand.spec.strategy \in {"rolling", "immediate"} /\ ~hand.deleting
        <3>1. "deleteResource" \notin Edits
            <4>1. PICK spec \in Specs[c] : TRUE
                BY <1>4, <2>2, HandOwn
            <4>2. NothingRevived /\ ("deleteResource" \in Edits => StrategyFixed)
                BY DEF NothingRevived, StrategyFixed
            <4>3. StrategyFixed => DefaultSpec(spec).strategy = "rolling"
                BY <4>1 DEF CompletedHeld
            <4> QED BY <4>1, <4>2, <4>3 DEF NothingRevived
        <3> QED BY <1>4, <3>1 DEF LoopInv, NoDeletion, TypeInv, TypeOK, ReconcileType, CompleteSpec
    <2>4. hand.spec.strategy = "rolling"
        BY <1>4, <2>2, <2>3 DEF Overtaken, PlaceInv, LoopPlaces
    <2> QED BY <1>4, <2>2, <2>3, <2>4 DEF LoopInv, LoopParts, PlaceInv, LoopPlaces
<1> QED BY <1>1, <1>2, <1>3, <1>4, WriteTouches

\* What the loop has done so far stays done.
LEMMA DoneStay ==
    ASSUME RolloutSetting, BaseInv, RolloutInv, [Next]_vars,
           pc \in {"lookup", "upsert"}, NEW ns \in done
    PROVE  Holds(cm'[ns], HashData(data))
<1> USE DEF BaseInv, RolloutInv, RolloutSetting
<1>1. ns \in Namespaces /\ Holds(cm[ns], HashData(data)) /\ ns \notin todo
    BY DEF LoopHolds, LoopInv, LoopParts, TypeInv, TypeOK, LocalType
<1>2. CASE Users
    BY <1>1, <1>2, UsersHold DEF Holds, Alike
<1>3. CASE cm'[ns] = cm[ns]
    BY <1>1, <1>3
<1> QED BY <1>1, <1>2, <1>3, WriteTouches

\* A target that is found up to date holds the content.
LEMMA UpToDateHolds ==
    ASSUME BaseInv, MarkersOwned, NEW ns \in Namespaces, pc = "lookup",
           ManagedFor(cmCache[ns], hand.spec.source), cmCache[ns].hash = HashData(data)
    PROVE  Holds(cm[ns], HashData(data))
<1>1. cmCache[ns] = cm[ns] /\ hand.spec.source # Nil
    BY NilAssumption DEF BaseInv, CleanInv, CacheExact, TypeInv, TypeOK, ReconcileType, CompleteSpec
<1> QED BY <1>1 DEF ManagedFor, MarkersOwned, Holds

\* Listed ConfigMaps are the propagation's own.
LEMMA ListedOwn ==
    ASSUME Apart, BaseInv, MarkersOwned, pc = "listManaged",
           NEW ns \in Namespaces, ListedFor(cmCache[ns], hand.spec.source)
    PROVE  ns \in Territory(key)
<1>1. cm[ns] # Nil /\ cm[ns].managed /\ cm[ns].source = hand.spec.source
    BY DEF BaseInv, CleanInv, CacheExact, ListedFor
<1>2. PICK c \in CRs : ns \in Territory(c) /\ \E spec \in Specs[c] : spec.source = hand.spec.source
    BY <1>1 DEF MarkersOwned
<1>3. key \in CRs /\ \E spec \in Specs[key] : spec.source = hand.spec.source
    BY HandOwn DEF BaseInv
<1> QED BY <1>2, <1>3 DEF Apart

\* The loops keep to what is theirs.
LEMMA LoopHoldsStep ==
    ASSUME RolloutSetting, BaseInv, RolloutInv, [Next]_vars
    PROVE  LoopHolds'
<1> USE DEF BaseInv
<1>1. CASE pc' \notin {"lookup", "upsert", "cleanup", "detach"}
    BY <1>1 DEF LoopHolds
<1>2. CASE UNCHANGED <<pc, key, hand, planner, localVars>>
    BY <1>2, DoneStay DEF localVars, RolloutInv, LoopHolds
<1>3. CASE ListAndPlan
    <2>1. /\ pc = "list" /\ pc' = "lookup" /\ UNCHANGED key /\ done' = {} /\ todo' \subseteq Selected(hand.spec)
        BY <1>3 DEF ListAndPlan, Advance, NextBatch, LoopInv, LoopParts
    <2>2. \A ns \in Selected(hand.spec) : ns \in Territory(key)
        BY <2>1, HandOwn, SelectedMay DEF Selected, PlaceInv
    <2> QED BY <2>1, <2>2 DEF LoopHolds
<1>4. ASSUME NEW ns \in Namespaces, Lookup(ns) PROVE LoopHolds'
    <2>1. /\ pc = "lookup" /\ UNCHANGED <<key, data, cm>> /\ todo' \subseteq todo
          /\ \/ done' = done
             \/ /\ done' = done \cup {ns}
                /\ ManagedFor(cmCache[ns], hand.spec.source) /\ cmCache[ns].hash = HashData(data)
        BY <1>4 DEF Lookup, Advance, clusterVars, UpToDate
    <2> QED BY <2>1, UpToDateHolds DEF RolloutInv, LoopHolds
<1>5. CASE Upsert
    <2>1. /\ pc = "upsert" /\ pc' = "lookup" /\ UNCHANGED <<key, data>>
          /\ todo' \subseteq todo /\ done' = done \cup {at} /\ UpsertCall
        BY <1>5 DEF Upsert, UpsertCall, Advance
    <2>2. Holds(cm'[at], HashData(data))
        BY <2>1, UpsertFacts DEF Target, Holds
    <2> QED BY <2>1, <2>2, DoneStay DEF RolloutInv, LoopHolds
<1>6. CASE ListManaged
    <2>1. /\ pc = "listManaged" /\ pc' = "cleanup" /\ UNCHANGED key
          /\ \A ns \in todo' : ns \in Namespaces /\ ListedFor(cmCache[ns], hand.spec.source)
        BY <1>6 DEF ListManaged, Advance
    <2> QED BY <2>1, ListedOwn DEF RolloutSetting, RolloutInv, LoopHolds
<1>7. ASSUME Detach \/ \E ns \in Namespaces : Prune(ns) \/ DetachLookup(ns) PROVE LoopHolds'
    <2>1. /\ pc \in {"cleanup", "detach"} /\ todo' \subseteq todo /\ pc' \in {"cleanup", "detach"}
          /\ UNCHANGED key
        BY <1>7 DEF Detach, DetachCall, Prune, PruneCall, DetachLookup, Advance
    <2> QED BY <2>1 DEF RolloutInv, LoopHolds
<1>8. Report => pc' = "listManaged"
    BY DEF Report, Advance
<1> QED BY <1>1, <1>2, <1>3, <1>4, <1>5, <1>6, <1>7, <1>8, LoopKinds

\* A rolling propagation never has another strategy.
LEMMA RollingOwn ==
    ASSUME StrategyFixed, BaseInv, pc \notin {"idle", "finalizer"}, hand.spec.strategy = "rolling"
    PROVE  \A spec \in Specs[key] : DefaultSpec(spec).strategy = "rolling"
BY HandOwn DEF BaseInv, StrategyFixed

\* syncTargets is left by its report, by a failure or by a restart.
LEMMA SyncKinds ==
    ASSUME TypeInv, [Next]_vars, pc \in {"lookup", "upsert"}
    PROVE  \/ pc' \in {"lookup", "upsert"} /\ UNCHANGED <<key, hand>>
           \/ Report \/ Crash \/ WriteRefused \/ faults < MaxFaults
<1>1. CASE Work
    <2>1. ASSUME Upsert \/ \E ns \in Namespaces : Lookup(ns)
          PROVE  pc' \in {"lookup", "upsert"} /\ UNCHANGED <<key, hand>>
        BY <2>1 DEF Upsert, Lookup, Advance, UpToDate
    <2> QED BY <1>1, <2>1 DEF Work, Get, AddFinalizer, FinalizerCall, UpdateConflict, StatusRefused,
                SelectorRejected, ReadSource, ListAndPlan, ListManaged, Prune, PruneCall, DetachLookup,
                Detach, DetachCall, DetachTargetGone, EndCleanup, Release, ReleaseCall,
                PatchStatus, PatchCall, PatchErrorStatus, PatchErrorCall
<1>2. CASE ApiFailure \/ ReplyLost
    BY <1>2 DEF ApiFailure, ReplyLost
<1>3. CASE Deliveries \/ Users \/ UNCHANGED vars
    BY <1>3, UserFacts DEF Deliveries, DeliverResource, DeliverConfigMap, DelayElapsed, vars, workerVars, GetFailed
<1> QED BY <1>1, <1>2, <1>3 DEF Next

\* An immediate reconcile that overtakes a rollout goes on until the planner forgets it.
LEMMA OvertakenStep ==
    ASSUME RolloutSetting, BaseInv, RolloutInv, [Next]_vars,
           NEW c \in CRs, planner[c] # Nil, Overtaken(c), UNCHANGED planner
    PROVE  Overtaken(c)'
<1>1. pc \in {"lookup", "upsert"} /\ key = c /\ hand.spec.strategy = "immediate"
    BY DEF Overtaken
<1>2. ~StrategyFixed
    <2>1. \E spec \in Specs[c] : DefaultSpec(spec).strategy = "immediate"
        BY <1>1, HandOwn DEF BaseInv
    <2> QED BY <2>1 DEF RolloutInv, CompletedHeld
<1>3. NothingFails
    BY <1>2 DEF RolloutSetting
<1>4. ~(faults < MaxFaults)
    BY <1>3 DEF NothingFails, BaseInv, TypeInv, TypeOK, BoundType
<1>5. ~WriteRefused
    <2> SUFFICES ASSUME WriteRefused PROVE FALSE
        OBVIOUS
    <2>1. pc = "upsert" /\ at \in targets /\ at \in Refused
        BY <1>1 DEF WriteRefused, BaseInv, LoopInv, LoopParts
    <2>2. labels[at] # Nil
        BY <1>3, <2>1 DEF NothingFails, BaseInv, PlaceInv, LoopPlaces
    <2> QED BY <1>3, <2>1, <2>2 DEF Refused, NothingFails, BaseInv, CleanInv, CacheExact
<1>6. ~Crash /\ ~Report
    <2>1. planner \in [CRs -> RolloutStates]
        BY DEF BaseInv, TypeInv, TypeOK, MemoryType
    <2> QED BY <1>1, <2>1 DEF Crash, Report, Forget
<1> QED BY <1>1, <1>4, <1>5, <1>6, SyncKinds DEF BaseInv, Overtaken

\* Plan and MarkCompleted record copies of the content only.
LEMMA CompletedHeldStep ==
    ASSUME RolloutSetting, BaseInv, RolloutInv, [Next]_vars
    PROVE  CompletedHeld'
<1> USE DEF BaseInv
<1> DEFINE Kept(c, state) ==
        /\ StrategyFixed => \A spec \in Specs[c] : DefaultSpec(spec).strategy = "rolling"
        /\ \A ns \in state.completed : ns \in Territory(c) /\ Holds(cm'[ns], state.hash)
<1>1. SUFFICES \A c \in CRs : planner'[c] # Nil =>
                    Kept(c, planner'[c]) \/ (planner'[c] = planner[c] /\ Overtaken(c)')
    BY DEF RolloutInv, CompletedHeld
<1>2. \A c \in CRs : planner[c] # Nil /\ ~Overtaken(c) => Kept(c, planner[c])
    BY CompletedStay DEF RolloutInv, CompletedHeld
<1>3. /\ planner \in [CRs -> RolloutStates] /\ HashData(data) \in Hashes
      /\ targets \in SUBSET Namespaces /\ done \in SUBSET Namespaces
    BY HashDataType DEF TypeInv, TypeOK, MemoryType, LocalType
<1>4. CASE UNCHANGED planner
    <2> HIDE DEF Kept
    <2> QED BY <1>2, <1>4, OvertakenStep
<1>5. CASE Crash
    BY <1>5 DEF Crash
<1>6. CASE ListAndPlan
    <2> DEFINE state == PlannedState(planner[key], HashData(data), Selected(hand.spec))
    <2>1. /\ pc = "list" /\ key \in CRs /\ hand.spec.strategy \in {"rolling", "immediate"}
          /\ \A c \in CRs : ~Overtaken(c)
        BY <1>6 DEF ListAndPlan, TypeInv, TypeOK, ReconcileType, CompleteSpec, Overtaken
    <2>2. CASE UNCHANGED planner
        BY <1>4, <2>2
    <2>3. CASE hand.spec.strategy = "rolling" /\ planner' = [planner EXCEPT ![key] = state]
        <3>1. Kept(key, state)
            <4>1. StrategyFixed => \A spec \in Specs[key] : DefaultSpec(spec).strategy = "rolling"
                BY <2>1, <2>3, RollingOwn
            <4>2. planner[key] \in RolloutStates /\ Selected(hand.spec) \in SUBSET Namespaces
                BY <1>3, <2>1 DEF Selected
            <4>3. /\ state.hash = HashData(data)
                  /\ \A ns \in state.completed : /\ planner[key] # Nil /\ planner[key].hash = HashData(data)
                                                 /\ ns \in planner[key].completed
                BY <1>3, <4>2, PlannedFrom
            <4> HIDE DEF state
            <4> QED BY <1>2, <2>1, <4>1, <4>3
        <3> HIDE DEF Kept, state
        <3>2. \A c \in CRs : planner'[c] = IF c = key THEN state ELSE planner[c]
            BY <1>3, <2>1, <2>3
        <3> QED BY <1>2, <2>1, <3>1, <3>2
    <2> HIDE DEF Kept
    <2> QED BY <1>6, <2>1, <2>2, <2>3 DEF ListAndPlan
<1>7. CASE Report
    <2> DEFINE state == MarkCompleted(planner[key], HashData(data), done)
    <2>1. /\ pc = "lookup" /\ key \in CRs
          /\ planner' = [planner EXCEPT ![key] = IF hand.spec.strategy = "rolling" THEN state ELSE Nil]
        BY <1>7 DEF Report, Forget, TypeInv, TypeOK, ReconcileType
    <2>2. \A c \in CRs : Overtaken(c) => c = key /\ hand.spec.strategy # "rolling"
        BY DEF Overtaken
    <2>3. ASSUME hand.spec.strategy = "rolling", state # Nil PROVE Kept(key, state)
        <3>1. StrategyFixed => \A spec \in Specs[key] : DefaultSpec(spec).strategy = "rolling"
            BY <2>1, <2>3, RollingOwn
        <3>2. \A ns \in done : ns \in Territory(key) /\ Holds(cm'[ns], HashData(data))
            <4>1. \A ns \in done : ns \in Namespaces /\ MaySelect(hand.spec, ns)
                BY <1>3, <2>1 DEF PlaceInv, LoopPlaces, LoopInv, LoopParts
            <4> QED BY <2>1, <4>1, HandOwn, DoneStay
        <3>3. planner[key] \in RolloutStates
            BY <1>3, <2>1
        <3>4. CASE state = planner[key]
            <4> HIDE DEF Kept, state
            <4> QED BY <1>2, <2>2, <2>1, <2>3, <3>4
        <3>5. CASE /\ state.hash = HashData(data)
                   /\ \A ns \in state.completed :
                        \/ ns \in done
                        \/ planner[key] # Nil /\ planner[key].hash = HashData(data) /\ ns \in planner[key].completed
            <4> HIDE DEF state
            <4> QED BY <1>2, <2>2, <2>1, <2>3, <3>1, <3>2, <3>5
        <3> QED BY <1>3, <3>3, <3>4, <3>5, MarkedFrom
    <2> HIDE DEF Kept, state
    <2>4. \A c \in CRs : planner'[c] = IF c # key THEN planner[c]
                                       ELSE IF hand.spec.strategy = "rolling" THEN state ELSE Nil
        BY <1>3, <2>1
    <2> QED BY <1>2, <2>2, <2>3, <2>4
<1> HIDE DEF Kept
<1> QED BY <1>4, <1>5, <1>6, <1>7, PlannerKinds

\* The initial state satisfies the invariants.
LEMMA InitRollout == Init => BaseInv /\ RolloutInv
<1> SUFFICES ASSUME Init PROVE BaseInv /\ RolloutInv
    OBVIOUS
<1>1. BaseInv
    BY InitTyping, InitGuard, InitClean, InitStatus, InitPlace, InitSpared DEF BaseInv, StatusInv
<1>2. MarkersOwned
    BY DEF Init, UserConfigMap, MarkersOwned
<1>3. CompletedHeld /\ NoDeletion /\ LoopHolds
    BY DEF Init, CompletedHeld, NoDeletion, LoopHolds
<1> QED BY <1>1, <1>2, <1>3 DEF RolloutInv

\* Every step keeps them.
LEMMA StepRollout ==
    ASSUME RolloutSetting
    PROVE  BaseInv /\ RolloutInv /\ [Next]_vars => BaseInv' /\ RolloutInv'
<1> SUFFICES ASSUME BaseInv, RolloutInv, [Next]_vars PROVE BaseInv' /\ RolloutInv'
    OBVIOUS
<1>1. BaseInv'
    BY StepTyping, StepGuard, StepClean, StepLoop, StepPlace, StepSpared DEF BaseInv, RolloutSetting
<1>2. RolloutInv'
    BY MarkersOwnedStep, CompletedHeldStep, NoDeletionStep, LoopHoldsStep
       DEF RolloutSetting, RolloutInv, BaseInv
<1> QED BY <1>1, <1>2

\* With current reads of ConfigMaps, and propagations that keep out of each
\* other's way, keep their strategy, are not deleted if they are rolling, and whose
\* copies users leave alone: whatever the planner skips as completed holds the content being rolled
\* out, through changes of specs, sources and labels, failures, lost replies and
\* restarts.
THEOREM CompletedSynced ==
    ASSUME RolloutSetting, StrategyFixed
    PROVE  Spec => []CompletedIsSynced
<1>1. BaseInv /\ RolloutInv => CompletedIsSynced
    <2> SUFFICES ASSUME BaseInv, RolloutInv, NEW c \in CRs, planner[c] # Nil,
                        NEW ns \in planner[c].completed
                 PROVE  cm[ns] # Nil /\ cm[ns].hash = planner[c].hash
                            /\ HashData(cm[ns].data) = planner[c].hash
        BY DEF CompletedIsSynced
    <2>1. ~Overtaken(c)
        BY HandOwn DEF RolloutInv, CompletedHeld, Overtaken, BaseInv
    <2>2. ns \in Namespaces /\ Holds(cm[ns], planner[c].hash)
        BY <2>1 DEF RolloutInv, CompletedHeld, Territory
    <2> QED BY <2>2 DEF Holds, RolloutInv, MarkersOwned
<1> QED BY <1>1, InitRollout, StepRollout, PTL DEF Spec

-----------------------------------------------------------------------------
(* Being ready                                                             *)

\* Every propagation has one source, which stays as it is like the labels do.
ReadySetting ==
    /\ RolloutSetting
    /\ Edits \cap {"source", "deleteSource", "relabel", "createNamespace"} = {}
    /\ \A c \in CRs : \E source \in SourceNamespaces : \A spec \in Specs[c] : spec.source = source

\* What a spec makes of its source.
Effective(spec) == ComputeEffective(cm[spec.source].data, spec.dataKeys)

\* The worker has read what is there now; when it has reported nothing out of
\* sync, all targets hold the content, and what is left to clean up is in todo.
LoopCurrent ==
    pc \in {"list", "lookup", "upsert", "listManaged", "cleanup", "detach", "patch"} /\ ~hand.deleting =>
        /\ data = Effective(hand.spec)
        /\ pc \in {"lookup", "upsert", "listManaged", "cleanup", "detach", "patch"} =>
            targets = Selected(hand.spec)
        /\ pc \in {"listManaged", "cleanup", "detach", "patch"} /\ result.outOfSync = {} =>
            \A ns \in targets : Holds(cm[ns], HashData(data))
        /\ pc \in {"cleanup", "detach", "patch"} =>
            \A ns \in Namespaces \ targets : ListedFor(cm[ns], hand.spec.source) => ns \in todo
        /\ pc = "patch" => todo = {}

\* A copy in hand with an outdated spec will be read again.
SpecSeen ==
    pc \notin {"idle", "finalizer"} =>
        \/ key \in queued \cup crStale
        \/ cr[key] # Nil /\ hand.spec = DefaultSpec(cr[key].spec)

\* A propagation that nobody will look at again and that says it is ready is applied.
ReadyRests ==
    \A c \in CRs : cr[c] # Nil =>
        \/ Awaited(c)
        \/ cr[c].status.conditions.reason = "Reconciled" => Applied(cr[c].spec)

ReadyInv == LoopCurrent /\ SpecSeen /\ ReadyRests

\* Different contents have different hashes.
LEMMA HashInjective ==
    ASSUME NEW d \in Data, NEW e \in Data, HashData(d) = HashData(e)
    PROVE  d = e
<1>1. [digest |-> d] # Nil /\ [digest |-> e] # Nil
    BY DigestAssumption
<1>2. CASE DOMAIN d # {} /\ DOMAIN e # {}
    BY <1>2 DEF HashData
<1>3. CASE DOMAIN d = {} /\ DOMAIN e = {}
    BY <1>3 DEF Data
<1> QED BY <1>1, <1>2, <1>3 DEF HashData

\* Nobody changes the labels.
LEMMA LabelsSame == ASSUME ReadySetting, TypeInv, [Next]_vars PROVE UNCHANGED labels
<1>1. \A ns \in Namespaces : labels'[ns] = labels[ns]
    BY LabelKinds DEF ReadySetting, RolloutSetting, CopiesLeftAlone
<1>2. TypeInv'
    BY StepTyping
<1> QED BY <1>1, <1>2 DEF TypeInv, TypeOK, ClusterType

\* Nobody changes the data of the sources.
LEMMA SourcesStay ==
    ASSUME ReadySetting, BaseInv, [Next]_vars, NEW ns \in SourceNamespaces
    PROVE  cm[ns] # Nil /\ cm'[ns] # Nil /\ cm'[ns].data = cm[ns].data
<1> USE SourceAssumption DEF BaseInv, ReadySetting
<1>1. cm[ns] # Nil
    BY DEF SparedInv, SourcesPlain
<1>2. CASE cm'[ns] = cm[ns]
    BY <1>1, <1>2
<1>3. ASSUME NEW m \in Namespaces, UserConfigMapStep(m)
      PROVE  cm'[ns] # Nil /\ cm'[ns].data = cm[ns].data
    BY <1>1, <1>3 DEF UserConfigMapStep
<1> QED BY <1>1, <1>2, <1>3, UserFacts, WorkerSpares

\* Two specs that default alike ask for the same content in the same namespaces.
LEMMA DefaultAlike ==
    ASSUME NEW spec \in SpecType, NEW other \in SpecType, DefaultSpec(spec) = DefaultSpec(other)
    PROVE  spec.source = other.source /\ spec.dataKeys = other.dataKeys /\ spec.selector = other.selector
<1>1. \A s \in SpecType : /\ DefaultSpec(s).source = s.source
                          /\ DefaultSpec(s).dataKeys = s.dataKeys
                          /\ DefaultSpec(s).selector = s.selector
    BY DEF DefaultSpec, SpecType
<1> QED BY <1>1

\* A spec that one of the users' specs of c defaults like is c's own.
Owns(c, spec) ==
    /\ spec.source \in SourceNamespaces
    /\ \A other \in Specs[c] : other.source = spec.source
    /\ \E other \in Specs[c] : other.source = spec.source
    /\ \A ns \in Namespaces : MaySelect(spec, ns) => ns \in Territory(c)

\* The stored spec and the spec in hand are their propagation's own.
LEMMA SpecsOwned ==
    ASSUME ReadySetting, BaseInv
    PROVE  /\ \A c \in CRs : cr[c] # Nil => Owns(c, cr[c].spec)
           /\ pc \notin {"idle", "finalizer"} => key \in CRs /\ Owns(key, hand.spec)
<1>1. ASSUME NEW c \in CRs, NEW spec \in SpecType, NEW other \in Specs[c],
             DefaultSpec(spec) = DefaultSpec(other)
      PROVE  Owns(c, spec)
    <2>1. other \in SpecType
        BY SpecsAssumption
    <2>2. spec.source = other.source /\ spec.selector = other.selector
        BY <1>1, <2>1, DefaultAlike
    <2>3. spec.source \in SourceNamespaces /\ \A s \in Specs[c] : s.source = spec.source
        BY <2>2 DEF ReadySetting
    <2> QED BY <2>2, <2>3 DEF Owns, Territory, MaySelect
<1>2. ASSUME NEW c \in CRs, cr[c] # Nil PROVE Owns(c, cr[c].spec)
    <2>1. cr[c].spec \in SpecType
        BY <1>2 DEF BaseInv, TypeInv, TypeOK, ClusterType, Resources
    <2> QED BY <1>1, <1>2, <2>1 DEF BaseInv, PlaceInv, StoredSpecs
<1>3. ASSUME pc \notin {"idle", "finalizer"} PROVE key \in CRs /\ Owns(key, hand.spec)
    <2>1. key \in CRs /\ hand.spec \in SpecType
        BY <1>3 DEF BaseInv, TypeInv, TypeOK, ReconcileType, Resources
    <2>2. PICK other \in Specs[key] : hand.spec = DefaultSpec(other)
        BY <1>3 DEF BaseInv, PlaceInv, HandSpec
    <2>3. DefaultSpec(hand.spec) = DefaultSpec(other)
        BY <2>1, <2>2, SpecsAssumption, DefaultTwice
    <2> QED BY <1>1, <2>1, <2>3
<1> QED BY <1>2, <1>3

\* A copy in the propagation's territory with the right hash is what it asks for.
LEMMA HeldSynced ==
    ASSUME ReadySetting, BaseInv, MarkersOwned, NEW c \in CRs, NEW spec \in SpecType, Owns(c, spec),
           NEW ns \in Territory(c), Holds(cm[ns], HashData(Effective(spec)))
    PROVE  Synced(spec, ns)
<1>1. ns \in Namespaces /\ cm[ns] # Nil /\ cm[ns].managed /\ cm[ns].hash = HashData(Effective(spec))
    BY DEF Territory, Holds
<1>2. cm[ns].hash = HashData(cm[ns].data)
    BY <1>1 DEF MarkersOwned
<1>3. PICK d \in CRs : ns \in Territory(d) /\ \E other \in Specs[d] : other.source = cm[ns].source
    BY <1>1 DEF MarkersOwned
<1>4. cm[ns].source = spec.source
    <2>1. d = c
        BY <1>3 DEF ReadySetting, RolloutSetting, Apart
    <2> QED BY <1>3, <2>1 DEF Owns
<1>5. cm[ns].data = Effective(spec)
    <2>1. cm[ns].data \in Data
        BY <1>1 DEF BaseInv, TypeInv, TypeOK, ClusterType, ConfigMaps
    <2>2. cm[spec.source].data \in Data /\ spec.dataKeys \in SUBSET Keys
        <3>1. spec.source \in Namespaces /\ cm[spec.source] # Nil
            BY SourceAssumption DEF Owns, ReadySetting, BaseInv, SparedInv, SourcesPlain
        <3> QED BY <3>1 DEF BaseInv, TypeInv, TypeOK, ClusterType, ConfigMaps, SpecType
    <2>3. Effective(spec) \in Data
        BY <2>2, ComputeEffectiveType DEF Effective
    <2> QED BY <1>1, <1>2, <2>1, <2>3, HashInjective
<1> QED BY <1>1, <1>4, <1>5 DEF Synced, ListedFor, Effective

\* The markers of a source are put on by the worker for that source, and by nobody else.
LEMMA MarksKept ==
    ASSUME TypeInv, [Next]_vars, NEW ns \in Namespaces, NEW source, ListedFor(cm'[ns], source)
    PROVE  ListedFor(cm[ns], source) \/ (UpsertCall /\ source = hand.spec.source)
<1>1. CASE cm'[ns] = cm[ns]
    BY <1>1
<1>2. FinalizerCall \/ ReleaseCall \/ PatchCall \/ PatchErrorCall => UNCHANGED cm
    BY FinalizerFacts, ReleaseFacts, PatchFacts
<1>3. CASE UpsertCall
    BY <1>1, <1>3, UpsertFacts DEF Target, ListedFor
<1>4. CASE DetachCall
    BY <1>1, <1>4, DetachFacts DEF ListedFor
<1>5. ASSUME NEW m \in Namespaces, PruneCall(m) PROVE cm'[ns] = cm[ns]
    BY <1>5, PruneFacts DEF ListedFor
<1>6. ASSUME NEW m \in Namespaces, UserConfigMapStep(m) PROVE ListedFor(cm[ns], source)
    BY <1>6 DEF UserConfigMapStep, ListedFor
<1> QED BY <1>1, <1>2, <1>3, <1>4, <1>5, <1>6, StepKinds, UserFacts

\* After the loop nobody takes the content from a target.
LEMMA TargetsStay ==
    ASSUME ReadySetting, BaseInv, MarkersOwned, [Next]_vars,
           pc \in {"listManaged", "cleanup", "detach", "patch"}, ~hand.deleting,
           NEW ns \in targets, NEW hash, Holds(cm[ns], hash)
    PROVE  Holds(cm'[ns], hash)
<1>1. ns \in Namespaces
    BY DEF BaseInv, TypeInv, TypeOK, LocalType
<1>2. CASE Users
    BY <1>1, <1>2, UsersHold DEF ReadySetting, RolloutSetting, Holds, Alike
<1>3. CASE ~Users
    BY <1>1, <1>3, WriteTouches DEF BaseInv, PlaceInv, LoopPlaces
<1> QED BY <1>2, <1>3

\* When the loop has left nothing out of sync, all targets hold the content.
LEMMA ReportHolds ==
    ASSUME BaseInv, RolloutInv, CompletedHeld', Report, result'.outOfSync = {}, NEW ns \in targets
    PROVE  Holds(cm[ns], HashData(data))
<1> DEFINE hash == HashData(data)
           rolling == hand.spec.strategy = "rolling"
           state == MarkCompleted(planner[key], hash, done)
           completed == IF rolling THEN CompletedNamespaces(state, hash) ELSE done
           reason == IF rolling THEN "PendingRollout" ELSE "PendingSync"
<1>1. /\ pc = "lookup" /\ key \in CRs /\ UNCHANGED cm
      /\ rolling => planner' = [planner EXCEPT ![key] = state]
      /\ result'.outOfSync = (skipped \X {"ConflictPolicySkip"}) \cup (((targets \ completed) \ skipped) \X {reason})
    BY DEF Report, Pending, clusterVars, BaseInv, TypeInv, TypeOK, ReconcileType
<1>2. ns \in completed
    <2> HIDE DEF completed, reason
    <2>1. ns \in skipped => <<ns, "ConflictPolicySkip">> \in result'.outOfSync
        BY <1>1
    <2>2. ns \in (targets \ completed) \ skipped => <<ns, reason>> \in result'.outOfSync
        BY <1>1
    <2> QED BY <2>1, <2>2
<1>3. CASE ~rolling
    BY <1>1, <1>2, <1>3 DEF RolloutInv, LoopHolds
<1>4. CASE rolling
    <2>1. state # Nil /\ state.hash = hash /\ ns \in state.completed
        BY <1>2, <1>4 DEF CompletedNamespaces
    <2> HIDE DEF state
    <2>2. planner'[key] = state
        BY <1>1, <1>4 DEF BaseInv, TypeInv, TypeOK, MemoryType
    <2>3. ~Overtaken(key)'
        BY DEF Report, Advance, Overtaken
    <2>4. UNCHANGED key
        BY DEF Report, Advance
    <2> QED BY <1>1, <2>1, <2>2, <2>3, <2>4 DEF CompletedHeld
<1> QED BY <1>3, <1>4

\* How a reconcile goes on: what is read is kept, and a namespace leaves the list
\* of cleanupDeselected without its markers.
Continues ==
    /\ pc \notin {"idle", "finalizer"} /\ UNCHANGED <<key, hand>>
    /\ \/ pc' = "list" /\ ReadSource
       \/ pc = "list" /\ ListAndPlan
       \/ pc = "list" /\ pc' = "list" /\ UNCHANGED data
       \/ /\ pc \in {"lookup", "upsert", "listManaged", "cleanup", "detach", "patch"}
          /\ pc' # "list" /\ UNCHANGED <<data, targets>>
    /\ pc' \in {"listManaged", "cleanup", "detach", "patch"} =>
        Report \/ (pc \in {"listManaged", "cleanup", "detach", "patch"} /\ UNCHANGED result)
    /\ pc' \in {"cleanup", "detach", "patch"} =>
        \/ ListManaged
        \/ /\ pc \in {"cleanup", "detach", "patch"}
           /\ \A ns \in todo : ns \in todo' \/ ~ListedFor(cm'[ns], hand.spec.source)
    /\ pc' = "patch" => (pc = "cleanup" /\ todo' = {}) \/ (pc = "patch" /\ UNCHANGED todo)

\* A reconcile that is not a deletion goes on like that.
LEMMA ReconcileKinds ==
    ASSUME BaseInv, [Next]_vars, ~hand'.deleting,
           pc' \in {"list", "lookup", "upsert", "listManaged", "cleanup", "detach", "patch"}
    PROVE  Continues
<1> USE DEF BaseInv, Continues
<1>1. CASE UNCHANGED <<pc, key, hand, planner, localVars>>
    BY <1>1 DEF localVars
<1>2. CASE ListAndPlan
    BY <1>2 DEF ListAndPlan, Advance
<1>3. ASSUME Upsert \/ \E ns \in Namespaces : Lookup(ns) PROVE
        /\ pc \in {"lookup", "upsert"} /\ pc' \in {"lookup", "upsert"}
        /\ UNCHANGED <<key, hand, data, targets>>
    BY <1>3 DEF Upsert, UpsertCall, Lookup, Advance, UpToDate
<1>4. CASE Report
    BY <1>4 DEF Report, Advance
<1>5. CASE ListManaged
    BY <1>5 DEF ListManaged, Advance
<1>6. CASE Detach
    BY <1>6, DetachFacts DEF Detach, DetachCall, Advance, ListedFor
<1>7. ASSUME NEW m \in Namespaces, Prune(m) PROVE
        /\ pc = "cleanup" /\ pc' = "cleanup" /\ UNCHANGED <<key, hand, data, targets, result>>
        /\ \A ns \in todo : ns \in todo' \/ ~ListedFor(cm'[ns], hand.spec.source)
    BY <1>7, PruneFacts DEF Prune, PruneCall, Advance, ListedFor
<1>8. ASSUME NEW m \in Namespaces, DetachLookup(m) PROVE
        /\ pc = "cleanup" /\ pc' \in {"cleanup", "detach"} /\ UNCHANGED <<key, hand, data, targets, result>>
        /\ \A ns \in todo : ns \in todo' \/ ~ListedFor(cm'[ns], hand.spec.source)
    BY <1>8 DEF DetachLookup, Advance, ListedFor, clusterVars, CleanInv, CacheExact
<1>9. CASE pc' = "list" /\ ReadSource
    BY <1>9 DEF ReadSource, Advance, CallFails, ReturnError, Return, ControllerCalls
<1>10. CASE pc' = "patch" /\ EndCleanup
    BY <1>10 DEF EndCleanup, Advance, localVars
<1> QED BY <1>1, <1>2, <1>3, <1>4, <1>5, <1>6, <1>7, <1>8, <1>9, <1>10, LoopKinds

\* What the worker has read is current, and what it has done is there.
LEMMA LoopCurrentStep ==
    ASSUME ReadySetting, BaseInv, RolloutInv, LoopCurrent, [Next]_vars, RolloutInv'
    PROVE  LoopCurrent'
<1> SUFFICES ASSUME pc' \in {"list", "lookup", "upsert", "listManaged", "cleanup", "detach", "patch"},
                    ~hand'.deleting
             PROVE  LoopCurrent'
    BY DEF LoopCurrent
<1>1. ~hand.deleting
    BY ReconcileKinds DEF Continues
<1>2. Continues
    BY ReconcileKinds
<1> USE DEF Continues
<1>3. /\ UNCHANGED labels
      /\ hand.spec.source \in SourceNamespaces
      /\ cm'[hand.spec.source].data = cm[hand.spec.source].data
    BY <1>2, SpecsOwned, LabelsSame, SourcesStay DEF Owns, BaseInv
<1>4. data' = Effective(hand.spec)'
    <2>1. CASE pc' = "list" /\ ReadSource
        BY <1>2, <2>1 DEF ReadSource, CallFails, ReturnError, Return, Effective, clusterVars,
               BaseInv, CleanInv, CacheExact, ControllerCalls
    <2>2. CASE pc = "list" /\ ListAndPlan
        BY <1>1, <1>2, <1>3, <2>2 DEF ListAndPlan, Effective, LoopCurrent
    <2>3. CASE /\ pc \in {"list", "lookup", "upsert", "listManaged", "cleanup", "detach", "patch"}
               /\ UNCHANGED data
        BY <1>1, <1>2, <1>3, <2>3 DEF Effective, LoopCurrent
    <2> QED BY <1>2, <2>1, <2>2, <2>3
<1>5. pc' # "list" => targets' = Selected(hand.spec)'
    <2>1. CASE pc = "list" /\ ListAndPlan
        BY <1>2, <1>3, <2>1 DEF ListAndPlan, Selected
    <2>2. CASE /\ pc \in {"lookup", "upsert", "listManaged", "cleanup", "detach", "patch"}
               /\ UNCHANGED targets
        BY <1>1, <1>2, <1>3, <2>2 DEF Selected, LoopCurrent
    <2> QED BY <1>2, <2>1, <2>2
<1>6. ASSUME pc' \in {"listManaged", "cleanup", "detach", "patch"}, result'.outOfSync = {}
      PROVE  \A ns \in targets' : Holds(cm'[ns], HashData(data'))
    <2>1. CASE Report
        <3>1. UNCHANGED <<cm, targets, data>>
            BY <2>1 DEF Report, clusterVars
        <3> QED BY <1>6, <2>1, <3>1, ReportHolds DEF RolloutInv
    <2>2. CASE pc \in {"listManaged", "cleanup", "detach", "patch"} /\ UNCHANGED result
        <3>1. UNCHANGED <<data, targets>>
            BY <1>2, <1>6, <2>2
        <3> QED BY <1>1, <1>6, <2>2, <3>1, TargetsStay DEF RolloutInv, LoopCurrent
    <2> QED BY <1>2, <1>6, <2>1, <2>2
<1>7. ASSUME pc' \in {"cleanup", "detach", "patch"}, NEW ns \in Namespaces \ targets',
             ListedFor(cm'[ns], hand'.spec.source)
      PROVE  ns \in todo'
    <2>1. CASE ListManaged
        BY <1>7, <2>1 DEF ListManaged, Advance, clusterVars, BaseInv, CleanInv, CacheExact
    <2>2. CASE /\ pc \in {"cleanup", "detach", "patch"}
               /\ \A m \in todo : m \in todo' \/ ~ListedFor(cm'[m], hand.spec.source)
        <3>1. ns \in Namespaces \ targets /\ ListedFor(cm'[ns], hand.spec.source) /\ ~UpsertCall
            BY <1>2, <1>7, <2>2 DEF UpsertCall
        <3>2. ListedFor(cm[ns], hand.spec.source)
            BY <3>1, MarksKept DEF BaseInv
        <3> QED BY <1>1, <2>2, <3>1, <3>2 DEF LoopCurrent
    <2> QED BY <1>2, <1>7, <2>1, <2>2
<1>8. pc' = "patch" => todo' = {}
    BY <1>1, <1>2 DEF LoopCurrent
<1> QED BY <1>4, <1>5, <1>6, <1>7, <1>8 DEF LoopCurrent

\* A spec in hand is that of the API server, or an event or a key is left.
LEMMA SpecSeenStep ==
    ASSUME TypeInv, SpecSeen, [Next]_vars
    PROVE  SpecSeen'
<1>1. CASE pc' \in {"idle", "finalizer"}
    BY <1>1 DEF SpecSeen
<1>2. ASSUME pc' # "idle", pc \notin {"idle", "finalizer"}, UNCHANGED <<key, hand>> PROVE SpecSeen'
    <2>1. ~Crash /\ \A c \in CRs : ~Get(c)
        BY <1>2 DEF Crash, Return, Get
    <2>2. key \in CRs
        BY <1>2 DEF TypeInv, TypeOK, ReconcileType
    <2> QED BY <1>2, <2>1, <2>2, EventsKept, ChangeSeen DEF SpecSeen
<1>3. CASE AddFinalizer
    BY <1>1, <1>3, FinalizerFacts DEF AddFinalizer, Begin, Return, SpecSeen
<1>4. ASSUME NEW c \in CRs, Get(c), pc' \notin {"idle", "finalizer"} PROVE SpecSeen'
    <2>1. /\ key' = c /\ hand' = [crCache[c] EXCEPT !.spec = DefaultSpec(crCache[c].spec)]
          /\ crCache[c] # Nil /\ UNCHANGED <<cr, crStale>>
        BY <1>4 DEF Get, Begin, Return, workerVars, clusterVars, cacheVars
    <2>2. CASE c \in crStale
        BY <2>1, <2>2 DEF SpecSeen
    <2>3. CASE c \notin crStale
        <3>1. crCache[c] = cr[c] /\ crCache[c] \in Resources
            BY <2>1, <2>3 DEF TypeInv, Coherent, TypeOK, CacheType
        <3>2. hand'.spec = DefaultSpec(cr[c].spec)
            BY <2>1, <3>1 DEF Resources
        <3> QED BY <2>1, <3>1, <3>2 DEF SpecSeen
    <2> QED BY <2>2, <2>3
<1> QED BY <1>1, <1>2, <1>3, <1>4, HandKinds, FinalizerKinds

\* A propagation the worker is not busy with stays applied.
LEMMA AppliedStay ==
    ASSUME ReadySetting, BaseInv, RolloutInv, [Next]_vars,
           NEW c \in CRs, cr[c] # Nil, cr'[c] = cr[c], ~Awaited(c), Applied(cr[c].spec)
    PROVE  Applied(cr[c].spec)'
<1> DEFINE source == cr[c].spec.source
<1>1. pc # "idle" => key \in CRs /\ key # c
    BY DEF Awaited, BaseInv, TypeInv, TypeOK, ReconcileType
<1>2. Owns(c, cr[c].spec) /\ UNCHANGED labels /\ cm'[source].data = cm[source].data
    BY SpecsOwned, LabelsSame, SourcesStay DEF Owns, BaseInv
<1>3. ASSUME NEW ns \in Selected(cr[c].spec) PROVE Alike(cm'[ns], cm[ns])
    <2>1. ns \in Namespaces /\ ns \in Territory(c) /\ cm[ns] # Nil /\ cm[ns].managed
        BY <1>2, <1>3, SelectedMay DEF Owns, Selected, Applied, Synced, ListedFor, BaseInv, PlaceInv
    <2>2. CASE Users
        BY <2>1, <2>2, UsersHold DEF ReadySetting, RolloutSetting, RolloutInv
    <2>3. CASE cm'[ns] = cm[ns]
        BY <2>1, <2>3 DEF Alike
    <2>4. ASSUME pc \in {"upsert", "cleanup", "detach"}, ns \in todo PROVE FALSE
        BY <1>1, <2>1, <2>4 DEF RolloutInv, LoopHolds, ReadySetting, RolloutSetting, Apart
    <2> QED BY <2>1, <2>2, <2>3, <2>4, WriteTouches DEF BaseInv
<1>4. ASSUME NEW ns \in Namespaces, ListedFor(cm'[ns], source) PROVE ListedFor(cm[ns], source)
    <2>1. CASE UpsertCall /\ source = hand.spec.source
        <3>1. pc \notin {"idle", "finalizer"}
            BY <2>1 DEF UpsertCall
        <3>2. \E spec \in Specs[key] : spec.source = source
            BY <2>1, <3>1, SpecsOwned DEF Owns
        <3> QED BY <1>1, <1>2, <3>1, <3>2 DEF Owns, ReadySetting, RolloutSetting, Apart
    <2> QED BY <1>4, <2>1, MarksKept DEF BaseInv
<1>5. \A ns \in Selected(cr[c].spec)' : Synced(cr[c].spec, ns)'
    BY <1>2, <1>3 DEF Applied, Selected, Synced, ListedFor, Alike
<1>6. \A ns \in Namespaces \ Selected(cr[c].spec)' : ~ListedFor(cm'[ns], cr'[c].spec.source)
    BY <1>2, <1>4 DEF Applied, Selected
<1> QED BY <1>5, <1>6 DEF Applied

\* A reconcile that reports nothing out of sync, of the spec there is now, has applied it.
LEMMA PatchApplied ==
    ASSUME ReadySetting, BaseInv, RolloutInv, LoopCurrent, pc = "patch", result.outOfSync = {},
           cr[key] # Nil, hand.spec = DefaultSpec(cr[key].spec)
    PROVE  Applied(cr[key].spec)
<1>1. /\ key \in CRs /\ cr[key].spec \in SpecType
      /\ targets = Selected(hand.spec) /\ data = Effective(hand.spec)
      /\ \A ns \in targets : Holds(cm[ns], HashData(data))
      /\ \A ns \in Namespaces \ targets : ~ListedFor(cm[ns], hand.spec.source)
    BY DEF BaseInv, LoopInv, GaugesSet, TypeInv, TypeOK, ReconcileType, ClusterType, Resources, LoopCurrent
<1>2. /\ hand.spec.source = cr[key].spec.source /\ hand.spec.dataKeys = cr[key].spec.dataKeys
      /\ hand.spec.selector = cr[key].spec.selector
    BY <1>1 DEF DefaultSpec, SpecType
<1>3. Selected(hand.spec) = Selected(cr[key].spec) /\ Effective(hand.spec) = Effective(cr[key].spec)
    BY <1>2 DEF Selected, Effective
<1>4. ASSUME NEW ns \in Selected(cr[key].spec) PROVE Synced(cr[key].spec, ns)
    <2>1. Owns(key, cr[key].spec)
        BY <1>1, SpecsOwned
    <2>2. ns \in Territory(key)
        BY <1>4, <2>1, SelectedMay DEF Owns, Selected, BaseInv, PlaceInv
    <2>3. Holds(cm[ns], HashData(Effective(cr[key].spec)))
        BY <1>1, <1>3, <1>4
    <2> QED BY <1>1, <2>1, <2>2, <2>3, HeldSynced DEF RolloutInv
<1> QED BY <1>1, <1>2, <1>3, <1>4 DEF Applied

\* A propagation that nobody will look at again is applied if it says so.
LEMMA ReadyRestsStep ==
    ASSUME ReadySetting, BaseInv, RolloutInv, StatusInv, ReadyInv, [Next]_vars
    PROVE  ReadyRests'
<1> SUFFICES ASSUME NEW c \in CRs, cr'[c] # Nil, ~Awaited(c)',
                    cr'[c].status.conditions.reason = "Reconciled"
             PROVE  Applied(cr[c].spec)'
    BY DEF ReadyRests
<1>1. cr'[c] = cr[c] /\ (~Awaited(c) \/ (PatchStatus /\ key = c))
    BY RestKinds DEF StatusInv, EventInv, BaseInv
<1>2. CASE ~Awaited(c)
    BY <1>1, <1>2, AppliedStay DEF ReadyInv, ReadyRests
<1>3. CASE PatchStatus /\ key = c
    <2>1. pc = "patch" /\ PatchCall /\ UNCHANGED <<queued, cm, labels>>
        BY <1>3 DEF PatchStatus, PatchCall, StatusCall
    <2>2. key \notin queued \cup crStale'
        BY <1>3, <2>1 DEF Awaited
    <2>3. cr'[key].status = ApplyRolloutStatus(result) /\ key \notin crStale
        BY <2>1, <2>2, PatchQuiet, PatchFacts DEF BaseInv
    <2>4. result.outOfSync = {}
        <3>1. result.outOfSync \in OutOfSyncItems
            BY DEF BaseInv, TypeInv, TypeOK, LocalType, Results
        <3>2. ~(Cardinality(result.outOfSync) > 0)
            BY <1>3, <2>3 DEF ApplyRolloutStatus
        <3> QED BY <3>1, <3>2, OutOfSyncCount, FS_EmptySet
    <2>5. hand.spec = DefaultSpec(cr[key].spec)
        BY <2>1, <2>2, <2>3 DEF ReadyInv, SpecSeen
    <2>6. Applied(cr[c].spec)
        BY <1>1, <1>3, <2>1, <2>4, <2>5, PatchApplied DEF ReadyInv
    <2> QED BY <1>1, <2>1, <2>6 DEF Applied, Selected, Synced
<1> QED BY <1>1, <1>2, <1>3

\* The initial state satisfies the invariant.
LEMMA InitReady == Init => ReadyInv
BY DEF Init, ReadyInv, LoopCurrent, SpecSeen, ReadyRests

\* In that setting the invariant holds of every behaviour.
THEOREM ReadyInvariance ==
    ASSUME ReadySetting
    PROVE  Spec => [](StatusInv /\ ReadyInv)
<1> DEFINE Inv == BaseInv /\ RolloutInv /\ StatusInv /\ ReadyInv
<1>1. Init => Inv
    BY InitRollout, InitStatus, InitReady
<1>2. Inv /\ [Next]_vars => Inv'
    <2> SUFFICES ASSUME Inv, [Next]_vars PROVE Inv'
        OBVIOUS
    <2>1. BaseInv' /\ RolloutInv' /\ StatusInv'
        BY StepRollout, StepStatus DEF ReadySetting, BaseInv
    <2>2. ReadyInv'
        BY <2>1, LoopCurrentStep, SpecSeenStep, ReadyRestsStep DEF ReadyInv, BaseInv
    <2> QED BY <2>1, <2>2
<1>3. Inv => StatusInv /\ ReadyInv
    OBVIOUS
<1> QED BY <1>1, <1>2, <1>3, PTL DEF Spec

\* In the rollout's setting, where also the sources and the labels stay and every
\* spec of a propagation names the same source: when nothing is left to do and
\* all is reported as reconciled, every selected namespace holds the effective
\* data and no other has a managed copy, whatever specs users applied meanwhile,
\* whatever failed, was lost or was restarted and, where all are immediate,
\* whatever was deleted and created again.
THEOREM ReadySettled ==
    ASSUME ReadySetting
    PROVE  Spec => []SettledReady
<1>1. StatusInv /\ ReadyInv => SettledReady
    BY DEF ReadyInv, ReadyRests, Awaited, Settled, Live, Propagated, SettledReady
<1> QED BY <1>1, ReadyInvariance, PTL
=============================================================================
