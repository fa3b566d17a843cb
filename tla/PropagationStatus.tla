------------------------- MODULE PropagationStatus --------------------------
(***************************************************************************)
(* SettledStatus and GaugesAgree are invariants for every choice of the    *)
(* constants: with stale reads, lost replies, restarts and concurrent      *)
(* changes. The argument: whoever changes a ConfigPropagation leaves an    *)
(* event behind (crStale), and an event, a key or a timer is only consumed *)
(* by a reconcile that ends by leaving a new one, with one exception: a    *)
(* status patch that changes nothing. It is computed against the copy in   *)
(* hand. Either that copy is outdated, and then an event or a key is still *)
(* there (HandSeen), or the status it leaves in place is the one computed  *)
(* from the result, whose parts add up (ResultAdds) because the loop       *)
(* deals every target to exactly one of them (LoopParts). What it deals    *)
(* is a batch of the size the spec asks for (BatchRespected).                    *)
(***************************************************************************)
EXTENDS PropagationFinalizer

\* What is completed and what is out of sync are all the targets.
ResultAdds == result.completed + Cardinality(result.outOfSync) = result.total

\* syncTargets deals the planned targets to todo, done and skipped; those the
\* planner has completed before are none of them.
LoopParts ==
    /\ pc \in {"source", "list"} => done = {} /\ skipped = {}
    /\ pc \in {"lookup", "upsert"} =>
        /\ todo \cup done \cup skipped \subseteq targets
        /\ todo \cap done = {} /\ todo \cap skipped = {} /\ done \cap skipped = {}
        /\ hand.spec.strategy = "rolling" =>
            planner[key].completed \subseteq targets \ (todo \cup done \cup skipped)
    /\ pc = "upsert" => at \in todo

\* The status is patched for live resources, after the gauges are set from the result.
GaugesSet ==
    pc = "patch" =>
        /\ ~hand.deleting
        /\ gauges = [targets |-> result.total, outOfSync |-> Cardinality(result.outOfSync)]

\* A copy that is outdated in its status or its deletion will be read again.
HandSeen ==
    pc # "idle" =>
        \/ key \in queued \cup crStale
        \/ cr[key] # Nil /\ hand.status = cr[key].status /\ hand.deleting = cr[key].deleting

\* Something will make the worker look at c, or it does already.
Awaited(c) == c \in queued \cup delayed \cup crStale \/ (pc # "idle" /\ key = c)

\* What SettledStatus says of one resource.
Consistent(resource) ==
    LET status == resource.status
    IN  /\ ~resource.deleting
        /\ status.conditions.reason \in {"Reconciled", "RollingUpdate"}
        /\ status.conditions.reason = "Reconciled" <=> status.outOfSync = {}
        /\ status.outOfSyncCount = Cardinality(status.outOfSync)
        /\ status.syncedCount + status.outOfSyncCount = status.targetCount
        /\ status.conditions.completed = status.syncedCount
        /\ status.conditions.total = status.targetCount

\* The gauges of the only propagation show its status.
Shown(c) ==
    CRs = {c} =>
        gauges = [targets |-> cr[c].status.targetCount, outOfSync |-> cr[c].status.outOfSyncCount]

\* A resource nobody will look at again is in order.
Rests == \A c \in CRs : cr[c] # Nil => Awaited(c) \/ (Consistent(cr[c]) /\ Shown(c))

\* A deleted resource is kept by its finalizer alone.
DeletionHeld == \A c \in CRs : cr[c] # Nil /\ cr[c].deleting => cr[c].finalizer

LoopInv == ResultAdds /\ LoopParts /\ GaugesSet
EventInv == HandSeen /\ Rests /\ DeletionHeld
StatusInv == LoopInv /\ EventInv

-----------------------------------------------------------------------------
(* Counting                                                                *)

\* Tagging the members of a set does not change their number.
LEMMA TaggedCount ==
    ASSUME NEW S \in SUBSET Namespaces, NEW tag
    PROVE  IsFiniteSet(S \X {tag}) /\ Cardinality(S \X {tag}) = Cardinality(S)
<1>1. IsFiniteSet(S) /\ Cardinality(S) \in Nat
    BY NamespaceCount
<1>2. IsFiniteSet({tag}) /\ Cardinality({tag}) = 1
    BY FS_Singleton
<1>3. IsFiniteSet(S \X {tag}) /\ Cardinality(S \X {tag}) = Cardinality(S) * Cardinality({tag})
    BY <1>1, <1>2, FS_Product
<1> QED BY <1>1, <1>2, <1>3

\* Two disjoint sets of namespaces count as their union.
LEMMA DisjointCount ==
    ASSUME NEW S \in SUBSET Namespaces, NEW T \in SUBSET Namespaces, S \cap T = {}
    PROVE  Cardinality(S \cup T) = Cardinality(S) + Cardinality(T)
<1>1. IsFiniteSet(S) /\ IsFiniteSet(T) /\ Cardinality(S) \in Nat /\ Cardinality(T) \in Nat
    BY NamespaceCount
<1>2. Cardinality(S \cup T) = Cardinality(S) + Cardinality(T) - Cardinality(S \cap T)
    BY <1>1, FS_Union
<1> QED BY <1>1, <1>2, FS_EmptySet

\* The result that Report puts together adds up when what is completed and what
\* is skipped are different targets.
LEMMA PartsAdd ==
    ASSUME NEW all \in SUBSET Namespaces, NEW completed \in SUBSET all, NEW left \in SUBSET all,
           completed \cap left = {}, NEW why, NEW reason
    PROVE  Cardinality(completed) +
             Cardinality((left \X {why}) \cup (((all \ completed) \ left) \X {reason}))
             = Cardinality(all)
<1> DEFINE rest == (all \ completed) \ left
<1>1. /\ completed \in SUBSET Namespaces /\ left \in SUBSET Namespaces /\ rest \in SUBSET Namespaces
      /\ left \cap rest = {} /\ completed \cap (left \cup rest) = {}
      /\ all = completed \cup (left \cup rest)
    OBVIOUS
<1> HIDE DEF rest
<1>2. /\ Cardinality(all) = Cardinality(completed) + Cardinality(left \cup rest)
      /\ Cardinality(left \cup rest) = Cardinality(left) + Cardinality(rest)
    BY <1>1, DisjointCount
<1>3. Cardinality((left \X {why}) \cup (rest \X {reason})) = Cardinality(left) + Cardinality(rest)
    <2>1. /\ IsFiniteSet(left \X {why}) /\ Cardinality(left \X {why}) = Cardinality(left)
          /\ IsFiniteSet(rest \X {reason}) /\ Cardinality(rest \X {reason}) = Cardinality(rest)
        BY <1>1, TaggedCount
    <2>2. (left \X {why}) \cap (rest \X {reason}) = {}
        BY <1>1
    <2>3. Cardinality((left \X {why}) \cup (rest \X {reason})) =
            Cardinality(left \X {why}) + Cardinality(rest \X {reason})
                - Cardinality((left \X {why}) \cap (rest \X {reason}))
        BY <2>1, FS_Union
    <2>4. Cardinality(left) \in Nat /\ Cardinality(rest) \in Nat
        BY <1>1, NamespaceCount
    <2>5. Cardinality((left \X {why}) \cap (rest \X {reason})) = 0
        BY <2>2, FS_EmptySet
    <2> QED BY <2>1, <2>3, <2>4, <2>5
<1>4. Cardinality(completed) \in Nat /\ Cardinality(left) \in Nat /\ Cardinality(rest) \in Nat
    BY <1>1, NamespaceCount
<1> QED BY <1>2, <1>3 DEF rest

\* A status computed from a result that adds up is in order.
LEMMA RolloutStatusConsistent ==
    ASSUME NEW r \in Results, r.completed + Cardinality(r.outOfSync) = r.total,
           NEW resource, ~resource.deleting, resource.status = ApplyRolloutStatus(r)
    PROVE  Consistent(resource)
<1>1. Cardinality(r.outOfSync) \in Nat /\ IsFiniteSet(r.outOfSync)
    BY OutOfSyncCount DEF Results
<1>2. Cardinality(r.outOfSync) > 0 <=> r.outOfSync # {}
    BY <1>1, FS_EmptySet
<1> QED BY <1>1, <1>2 DEF Consistent, ApplyRolloutStatus

-----------------------------------------------------------------------------
(* The loop and its result                                                 *)

\* The empty result adds up.
LEMMA ResetAdds == ASSUME ResetLocals PROVE ResultAdds'
<1>1. Cardinality({}) = 0
    BY FS_EmptySet
<1> QED BY <1>1 DEF ResetLocals, NoResult, ResultAdds

\* Nothing is under way after Reconcile has returned.
LEMMA ReturnLoop == ASSUME Return PROVE LoopInv'
BY ResetAdds DEF Return, LoopInv, LoopParts, GaugesSet

\* A failed call ends the loop.
LEMMA FailLoop == ASSUME CallFails PROVE LoopInv'
<1>1. CASE Return
    BY <1>1, ReturnLoop
<1>2. CASE pc' = "errpatch" /\ ResetLocals
    BY <1>2, ResetAdds DEF LoopInv, LoopParts, GaugesSet
<1> QED BY <1>1, <1>2 DEF CallFails, ReturnError, ControllerCalls

\* Reconcile starts with nothing done.
LEMMA BeginLoop ==
    ASSUME NEW c, NEW resource, NEW current, Begin(c, resource, current)
    PROVE  LoopInv'
<1>1. CASE Return
    BY <1>1, ReturnLoop
<1>2. CASE pc' \in {"listManaged", "source", "errpatch"} /\ ResetLocals
    BY <1>2, ResetAdds DEF ResetLocals, LoopInv, LoopParts, GaugesSet
<1> QED BY <1>1, <1>2 DEF Begin

\* The phases after the loop keep the result.
LEMMA AfterLoop ==
    ASSUME LoopInv, pc \in {"listManaged", "cleanup", "detach"}, UNCHANGED result,
           NEW next \in {"cleanup", "detach", "release"}, Advance(next)
    PROVE  LoopInv'
BY DEF Advance, LoopInv, ResultAdds, LoopParts, GaugesSet

\* The planned batch is a part of the targets that leaves out the completed ones.
LEMMA ListAndPlanLoop == ASSUME TypeInv, LoopInv, ListAndPlan PROVE LoopInv'
<1> DEFINE selected == Selected(hand.spec)
           state == PlannedState(planner[key], HashData(data), selected)
<1>1. /\ pc = "list" /\ pc' = "lookup" /\ targets' = selected
      /\ UNCHANGED <<key, hand, data, done, skipped, result>>
      /\ key \in CRs /\ done = {} /\ skipped = {}
      /\ hand.spec.strategy \in {"rolling", "immediate"}
    BY DEF ListAndPlan, Advance, LoopInv, LoopParts, TypeInv, TypeOK, ReconcileType, CompleteSpec
<1>2. CASE hand.spec.strategy = "immediate" /\ todo' = selected
    BY <1>1, <1>2 DEF LoopInv, ResultAdds, LoopParts, GaugesSet
<1>3. CASE /\ hand.spec.strategy # "immediate"
           /\ planner' = [planner EXCEPT ![key] = state]
           /\ todo' = NextBatch(state.completed, hand.spec.batchSize, selected)
    <2>1. planner'[key] = state
        BY <1>1, <1>3 DEF TypeInv, TypeOK, MemoryType
    <2>2. state.completed \subseteq selected
        <3>1. HashData(data) \in Hashes /\ planner[key] \in RolloutStates
            BY <1>1, HashDataType DEF TypeInv, TypeOK, LocalType, MemoryType
        <3>2. EnsureState(planner[key], HashData(data)) \in [hash : Hashes, completed : SUBSET Namespaces]
            BY <3>1 DEF EnsureState, RolloutStates
        <3> QED BY <3>2 DEF PlannedState
    <2>3. todo' \subseteq selected \ state.completed
        BY <1>3 DEF NextBatch
    <2> HIDE DEF state, selected
    <2> QED BY <1>1, <1>3, <2>1, <2>2, <2>3 DEF LoopInv, ResultAdds, LoopParts, GaugesSet
<1> QED BY <1>2, <1>3 DEF ListAndPlan

\* A target leaves todo for done or for skipped.
LEMMA SyncLoop ==
    ASSUME TypeInv, LoopInv, Upsert \/ \E ns \in Namespaces : Lookup(ns)
    PROVE  LoopInv'
<1>1. /\ pc \in {"lookup", "upsert"} /\ UNCHANGED <<key, hand, targets, planner, result>>
    BY DEF Upsert, UpsertCall, Lookup, Advance, memoryVars, LoopInv, UpToDate
<1>2. \/ pc' = "lookup" /\ \E ns \in todo :
            /\ todo' = todo \ {ns}
            /\ \/ done' = done \cup {ns} /\ UNCHANGED skipped
               \/ skipped' = skipped \cup {ns} /\ UNCHANGED done
      \/ pc' = "upsert" /\ at' \in todo /\ UNCHANGED <<todo, done, skipped>>
    <2>1. CASE Upsert
        BY <2>1 DEF Upsert, UpsertCall, Advance, LoopInv, LoopParts
    <2>2. ASSUME NEW ns \in Namespaces, Lookup(ns)
          PROVE  \/ pc' = "lookup" /\ todo' = todo \ {ns} /\ ns \in todo
                    /\ \/ done' = done \cup {ns} /\ UNCHANGED skipped
                       \/ skipped' = skipped \cup {ns} /\ UNCHANGED done
                 \/ pc' = "upsert" /\ at' = ns /\ ns \in todo /\ UNCHANGED <<todo, done, skipped>>
        BY <2>2 DEF Lookup, IsFirst, Advance, UpToDate
    <2> QED BY <2>1, <2>2
<1>3. ResultAdds' /\ GaugesSet'
    BY <1>1, <1>2 DEF LoopInv, ResultAdds, GaugesSet
<1>4. LoopParts'
    BY <1>1, <1>2 DEF LoopInv, LoopParts
<1> QED BY <1>3, <1>4 DEF LoopInv

\* Report's result adds up.
LEMMA ReportLoop == ASSUME TypeInv, LoopInv, Report PROVE LoopInv'
<1> DEFINE hash == HashData(data)
           rolling == hand.spec.strategy = "rolling"
           state == MarkCompleted(planner[key], hash, done)
           completed == IF rolling THEN CompletedNamespaces(state, hash) ELSE done
           reason == IF rolling THEN "PendingRollout" ELSE "PendingSync"
<1>1. /\ pc = "lookup" /\ pc' = "listManaged" /\ todo = {} /\ UNCHANGED <<key, hand>>
      /\ result'.total = Cardinality(targets) /\ result'.completed = Cardinality(completed)
      /\ result'.outOfSync = (skipped \X {"ConflictPolicySkip"}) \cup (((targets \ completed) \ skipped) \X {reason})
    BY DEF Report, Advance, Pending
<1>2. /\ key \in CRs /\ targets \in SUBSET Namespaces /\ planner[key] \in RolloutStates
      /\ hash \in Hashes /\ done \in SUBSET Namespaces
    BY <1>1, HashDataType DEF TypeInv, TypeOK, ReconcileType, LocalType, MemoryType
<1>3. /\ done \subseteq targets /\ skipped \subseteq targets /\ done \cap skipped = {}
      /\ rolling => planner[key].completed \subseteq targets \ (done \cup skipped)
    BY <1>1 DEF LoopInv, LoopParts
<1>4. completed \subseteq targets /\ completed \cap skipped = {}
    <2>1. CASE ~rolling
        BY <1>3, <2>1
    <2>2. CASE rolling
        <3>1. CompletedNamespaces(state, hash) \subseteq planner[key].completed \cup done
            BY <1>2, CompletedFrom
        <3> QED BY <1>3, <2>2, <3>1
    <2> QED BY <2>1, <2>2
<1>5. Cardinality(completed)
        + Cardinality((skipped \X {"ConflictPolicySkip"}) \cup (((targets \ completed) \ skipped) \X {reason}))
        = Cardinality(targets)
    <2> HIDE DEF completed, reason
    <2>1. /\ targets \in SUBSET Namespaces /\ completed \in SUBSET targets
          /\ skipped \in SUBSET targets /\ completed \cap skipped = {}
        BY <1>2, <1>3, <1>4
    <2>2. \A why, tag : Cardinality(completed)
                + Cardinality((skipped \X {why}) \cup (((targets \ completed) \ skipped) \X {tag}))
                = Cardinality(targets)
        BY <2>1, PartsAdd
    <2> QED BY <2>2
<1> HIDE DEF completed, reason
<1> QED BY <1>1, <1>5 DEF LoopInv, ResultAdds, LoopParts, GaugesSet

\* The gauges are set when the result is final.
LEMMA EndCleanupLoop == ASSUME LoopInv, EndCleanup PROVE LoopInv'
BY DEF EndCleanup, ObserveTargets, Advance, localVars, LoopInv, ResultAdds, LoopParts, GaugesSet

\* Every step of the worker keeps the loop's invariant.
LEMMA WorkLoop == ASSUME TypeInv, LoopInv, Work PROVE LoopInv'
<1>1. ASSUME UpdateConflict \/ StatusRefused \/ Release \/ PatchStatus \/ PatchErrorStatus PROVE LoopInv'
    BY <1>1, ReturnLoop DEF UpdateConflict, StatusRefused, Release, PatchStatus, PatchErrorStatus, ReturnError
<1>2. ASSUME SelectorRejected \/ WriteRefused \/ DetachTargetGone PROVE LoopInv'
    BY <1>2, FailLoop DEF SelectorRejected, WriteRefused, DetachTargetGone
<1>3. ASSUME ReadSource PROVE LoopInv'
    <2>1. CASE CallFails
        BY <2>1, FailLoop
    <2>2. CASE Advance("list") /\ UNCHANGED <<done, skipped, result>>
        BY <1>3, <2>2 DEF ReadSource, Advance, LoopInv, ResultAdds, LoopParts, GaugesSet
    <2> QED BY <1>3, <2>1, <2>2 DEF ReadSource
<1>4. ASSUME ListManaged \/ Detach \/ \E ns \in Namespaces : Prune(ns) \/ DetachLookup(ns) PROVE LoopInv'
    <2>1. /\ pc \in {"listManaged", "cleanup", "detach"} /\ UNCHANGED result
          /\ Advance("cleanup") \/ Advance("detach")
        BY <1>4 DEF ListManaged, Detach, DetachCall, Prune, PruneCall, DetachLookup
    <2> QED BY <2>1, AfterLoop
<1>5. ASSUME NEW c \in CRs, Get(c) PROVE LoopInv'
    <2>1. CASE UNCHANGED <<workerVars, delayed>>
        BY <1>5, <2>1 DEF Get, workerVars, localVars, memoryVars, LoopInv, ResultAdds, LoopParts, GaugesSet
    <2>2. CASE pc' = "finalizer" /\ UNCHANGED localVars
        BY <2>2 DEF localVars, LoopInv, ResultAdds, LoopParts, GaugesSet
    <2>3. CASE crCache[c] # Nil /\ Begin(c, crCache[c], c \notin crStale)
        BY <2>3, BeginLoop
    <2> QED BY <1>5, <2>1, <2>2, <2>3 DEF Get
<1>6. ASSUME AddFinalizer PROVE LoopInv'
    BY <1>6, BeginLoop DEF AddFinalizer
<1> QED BY <1>1, <1>2, <1>3, <1>4, <1>5, <1>6, ListAndPlanLoop, SyncLoop, ReportLoop, EndCleanupLoop DEF Work

\* So does every step.
LEMMA StepLoop == ASSUME TypeInv, LoopInv, [Next]_vars PROVE LoopInv'
<1>1. CASE ApiFailure \/ ReplyLost
    BY <1>1, FailLoop DEF ApiFailure, ReplyLost
<1>2. CASE Crash
    BY <1>2, ReturnLoop DEF Crash
<1>3. CASE Deliveries \/ Users \/ UNCHANGED vars
    <2>1. UNCHANGED <<memoryVars, pc, key, hand, localVars>>
        BY <1>3, UserFacts DEF Deliveries, DeliverResource, DeliverConfigMap, DelayElapsed, vars, workerVars, GetFailed
    <2> QED BY <2>1 DEF memoryVars, localVars, LoopInv, ResultAdds, LoopParts, GaugesSet
<1> QED BY <1>1, <1>2, <1>3, WorkLoop DEF Next

-----------------------------------------------------------------------------
(* Events, keys and timers                                                 *)

\* Whoever changes a resource leaves an event.
LEMMA ChangeSeen ==
    ASSUME TypeInv, [Next]_vars
    PROVE  \A c \in CRs : cr'[c] = cr[c] \/ c \in crStale'
<1>1. UpsertCall \/ DetachCall \/ (\E ns \in Namespaces : PruneCall(ns)) => UNCHANGED cr
    BY DEF UpsertCall, DetachCall, PruneCall
<1>2. CASE Users
    BY <1>2, UserFacts DEF UserResourceStep
<1> QED BY <1>1, <1>2, StepKinds, FinalizerFacts, ReleaseFacts, PatchFacts

\* Only the worker's Get and a restart make events and keys disappear; a Get
\* that failed leaves a timer.
LEMMA EventsKept ==
    ASSUME TypeInv, [Next]_vars, ~Crash, \A c \in CRs : ~Get(c)
    PROVE  /\ pc # "idle" => queued \cup crStale \subseteq queued' \cup crStale'
           /\ queued \cup crStale \cup delayed \subseteq queued' \cup crStale' \cup delayed'
<1> DEFINE Kept == /\ pc # "idle" => queued \cup crStale \subseteq queued' \cup crStale'
                   /\ queued \cup crStale \cup delayed \subseteq queued' \cup crStale' \cup delayed'
<1> SUFFICES Kept
    OBVIOUS
<1>1. ASSUME UNCHANGED queued, delayed \subseteq delayed', crStale \subseteq crStale' PROVE Kept
    BY <1>1
<1> HIDE DEF Kept
<1>2. CallFails => UNCHANGED queued /\ delayed \subseteq delayed'
    BY DEF CallFails, ReturnError, queueVars, ControllerCalls
<1>3. \A next : Advance(next) => UNCHANGED queued /\ delayed \subseteq delayed'
    BY DEF Advance, queueVars
<1>4. ASSUME \/ FinalizerCall \/ ReleaseCall \/ PatchCall \/ PatchErrorCall
             \/ UpsertCall \/ DetachCall \/ \E ns \in Namespaces : PruneCall(ns)
      PROVE  crStale \subseteq crStale'
    BY <1>4 DEF FinalizerCall, ReleaseCall, PatchCall, PatchErrorCall, StatusCall, UpsertCall, DetachCall,
           PruneCall, WriteResource
<1>5. CASE Work
    <2>1. ASSUME \/ UpdateConflict \/ StatusRefused \/ SelectorRejected \/ ReadSource
                 \/ ListAndPlan \/ WriteRefused \/ Report \/ ListManaged
                 \/ DetachTargetGone \/ EndCleanup \/ \E ns \in Namespaces : Lookup(ns) \/ DetachLookup(ns)
          PROVE  Kept
        <3>1. UNCHANGED crStale
            BY <2>1 DEF UpdateConflict, StatusRefused, SelectorRejected, ReadSource, ListAndPlan,
                   WriteRefused, Report, ListManaged, DetachTargetGone, EndCleanup, Lookup, DetachLookup, cacheVars, UpToDate
        <3>2. ReturnError \/ CallFails \/ \E next : Advance(next)
            BY <2>1 DEF UpdateConflict, StatusRefused, SelectorRejected, ReadSource, ListAndPlan,
                   WriteRefused, Report, ListManaged, DetachTargetGone, EndCleanup, Lookup, DetachLookup, UpToDate
        <3> QED BY <1>1, <1>2, <1>3, <3>1, <3>2 DEF ReturnError
    <2>2. ASSUME Upsert \/ Detach \/ \E ns \in Namespaces : Prune(ns) PROVE Kept
        BY <1>1, <1>3, <1>4, <2>2 DEF Upsert, Detach, Prune
    <2>3. ASSUME AddFinalizer PROVE Kept
        BY <1>1, <1>4, <2>3 DEF AddFinalizer, Begin
    <2>4. ASSUME Release \/ PatchStatus \/ PatchErrorStatus PROVE Kept
        BY <1>1, <1>4, <2>4 DEF Release, PatchStatus, PatchErrorStatus, ReturnError, queueVars
    <2> QED BY <1>5, <2>1, <2>2, <2>3, <2>4 DEF Work
<1>6. CASE ApiFailure \/ ReplyLost
    BY <1>1, <1>2, <1>4, <1>6 DEF ApiFailure, ReplyLost, cacheVars
<1>7. CASE Deliveries
    BY <1>7 DEF Kept, Deliveries, DeliverResource, DeliverConfigMap, DelayElapsed, cacheVars, queueVars, GetFailed
<1>8. CASE Users
    BY <1>1, <1>8, UserFacts DEF UserResourceStep, queueVars
<1>9. CASE UNCHANGED vars
    BY <1>1, <1>9 DEF vars, cacheVars, queueVars
<1> QED BY <1>5, <1>6, <1>7, <1>8, <1>9 DEF Next

\* A reconcile that ends leaves a timer, with three exceptions.
LEMMA EndKinds ==
    ASSUME TypeInv, [Next]_vars, pc # "idle", pc' = "idle", ~Crash, ~ReleaseCall, ~PatchStatus
    PROVE  key \in delayed'
<1>1. CallFails => key \in delayed'
    BY DEF CallFails, ReturnError, ControllerCalls
<1>2. \A next : Advance(next) => pc' = next
    BY DEF Advance
<1>3. CASE Work
    <2>1. UpdateConflict \/ StatusRefused \/ PatchErrorStatus => key \in delayed'
        BY DEF UpdateConflict, StatusRefused, PatchErrorStatus, ReturnError
    <2>2. SelectorRejected \/ WriteRefused \/ DetachTargetGone => CallFails
        BY DEF SelectorRejected, WriteRefused, DetachTargetGone
    <2>3. ~(\/ ListAndPlan \/ Upsert \/ Report \/ ListManaged \/ Detach \/ EndCleanup
            \/ \E ns \in Namespaces : Lookup(ns) \/ Prune(ns) \/ DetachLookup(ns))
        BY <1>2 DEF ListAndPlan, Upsert, Report, ListManaged, Detach, EndCleanup, Lookup, Prune, DetachLookup, UpToDate
    <2>4. ReadSource => CallFails
        BY <1>2 DEF ReadSource
    <2>5. AddFinalizer => key \in delayed'
        BY DEF AddFinalizer, Begin
    <2>6. ~Release /\ \A c \in CRs : ~Get(c)
        BY DEF Release, Get
    <2> QED BY <1>1, <1>3, <2>1, <2>2, <2>3, <2>4, <2>5, <2>6 DEF Work
<1>4. CASE ApiFailure \/ ReplyLost
    BY <1>1, <1>4 DEF ApiFailure, ReplyLost
<1>5. CASE Deliveries \/ Users \/ UNCHANGED vars
    <2>1. UNCHANGED pc
        BY <1>5, UserFacts DEF Deliveries, DeliverResource, DeliverConfigMap, DelayElapsed, vars, workerVars, GetFailed
    <2> QED BY <2>1
<1> QED BY <1>3, <1>4, <1>5 DEF Next

\* The gauges change at the end of a reconcile's cleanup and in a restart.
LEMMA GaugeKinds ==
    ASSUME TypeInv, [Next]_vars
    PROVE  UNCHANGED gauges \/ Crash \/ (pc # "idle" /\ pc' # "idle" /\ UNCHANGED key)
<1>1. CASE Work
    <2>1. EndCleanup => pc # "idle" /\ pc' # "idle" /\ UNCHANGED key
        BY DEF EndCleanup, Advance
    <2>2. ASSUME ~EndCleanup PROVE UNCHANGED gauges
        BY <1>1, <2>2 DEF Work, Get, AddFinalizer, UpdateConflict, StatusRefused,
               SelectorRejected, ReadSource, ListAndPlan, Lookup, Upsert, UpsertCall, WriteRefused,
               Report, ListManaged, Prune, PruneCall, DetachLookup, Detach, DetachCall,
               DetachTargetGone, Release, PatchStatus, PatchErrorStatus, FinalizerCall,
               ReleaseCall, PatchCall, PatchErrorCall, StatusCall, memoryVars, UpToDate
    <2> QED BY <2>1, <2>2
<1>2. CASE ReplyLost
    BY <1>2 DEF ReplyLost, FinalizerCall, ReleaseCall, UpsertCall, DetachCall, PruneCall,
               PatchCall, PatchErrorCall, StatusCall, memoryVars
<1>3. CASE ApiFailure \/ Deliveries \/ Users \/ UNCHANGED vars
    BY <1>3, UserFacts DEF ApiFailure, Deliveries, DeliverResource, DeliverConfigMap, DelayElapsed, vars, memoryVars, GetFailed
<1> QED BY <1>1, <1>2, <1>3 DEF Next

-----------------------------------------------------------------------------
(* The invariant                                                           *)

\* A status patch that changes nothing leaves a status in order, or the worker
\* has been told to look again.
LEMMA PatchQuiet ==
    ASSUME TypeInv, StatusInv, PatchCall
    PROVE  \/ key \in queued \cup crStale'
           \/ /\ cr'[key].status = ApplyRolloutStatus(result)
              /\ Consistent(cr'[key])
              /\ gauges = [targets   |-> cr'[key].status.targetCount,
                           outOfSync |-> cr'[key].status.outOfSyncCount]
<1> SUFFICES ASSUME key \notin queued, key \notin crStale'
             PROVE  /\ cr'[key].status = ApplyRolloutStatus(result)
                    /\ Consistent(cr'[key])
                    /\ gauges = [targets   |-> cr'[key].status.targetCount,
                                 outOfSync |-> cr'[key].status.outOfSyncCount]
    OBVIOUS
<1> DEFINE new == ApplyRolloutStatus(result)
<1>1. /\ pc = "patch" /\ key \in CRs /\ hand \in Resources /\ result \in Results
      /\ cr[key] # Nil /\ cr[key] \in Resources
    BY DEF PatchCall, StatusCall, TypeInv, TypeOK, ReconcileType, LocalType, ClusterType
<1>2. UNCHANGED <<cr, crStale>>
    BY PatchFacts
<1>3. hand.status = cr[key].status /\ hand.deleting = cr[key].deleting /\ ~cr[key].deleting
    BY <1>1, <1>2 DEF StatusInv, EventInv, HandSeen, LoopInv, GaugesSet
<1>4. PICK stamped \in BOOLEAN : StatusCall(new, stamped)
    BY DEF PatchCall
<1>5. ~stamped /\ MergePatch(hand.status, new, cr[key].status, stamped) = cr[key].status
    <2>1. ASSUME NEW value, WriteResource(key, value) PROVE FALSE
        BY <2>1 DEF WriteResource
    <2> QED BY <1>4, <2>1 DEF StatusCall
<1>6. cr[key].status = new
    <2> DEFINE old == cr[key].status
    <2>1. old \in Statuses /\ new \in Statuses
        BY <1>1, RolloutStatusType DEF Resources
    <2>2. \A a, b : Sent(a, b, a) = b
        BY DEF Sent
    <2>3. /\ old = MergePatch(old, new, old, FALSE)
          /\ MergePatch(old, new, old, FALSE) =
                [targetCount |-> new.targetCount, syncedCount |-> new.syncedCount,
                 outOfSyncCount |-> new.outOfSyncCount, outOfSync |-> new.outOfSync,
                 conditions |-> new.conditions]
        <3>1. stamped = FALSE
            BY <1>5
        <3> HIDE DEF new
        <3> QED BY <1>3, <1>5, <2>2, <3>1 DEF MergePatch
    <2> HIDE DEF new, old
    <2>4. old = new
        BY <2>1, <2>3 DEF Statuses
    <2> QED BY <2>4 DEF old
<1>7. Consistent(cr[key])
    BY <1>1, <1>3, <1>6, RolloutStatusConsistent DEF StatusInv, LoopInv, ResultAdds
<1>8. gauges = [targets |-> new.targetCount, outOfSync |-> new.outOfSyncCount]
    BY <1>1 DEF StatusInv, LoopInv, GaugesSet, ApplyRolloutStatus
<1> QED BY <1>2, <1>6, <1>7, <1>8

\* A deleted resource keeps its finalizer until the release.
LEMMA DeletionHeldStep == ASSUME TypeInv, DeletionHeld, [Next]_vars PROVE DeletionHeld'
<1>1. CASE UNCHANGED cr
    BY <1>1 DEF DeletionHeld
<1>2. CASE FinalizerCall
    BY <1>2, FinalizerFacts DEF DeletionHeld
<1>3. CASE ReleaseCall
    BY <1>3, ReleaseFacts DEF DeletionHeld
<1>4. CASE PatchCall \/ PatchErrorCall
    BY <1>4, PatchFacts DEF DeletionHeld
<1>5. UpsertCall \/ DetachCall \/ (\E ns \in Namespaces : PruneCall(ns)) => UNCHANGED cr
    BY DEF UpsertCall, DetachCall, PruneCall
<1>6. CASE Users
    BY <1>1, <1>6, UserFacts DEF UserResourceStep, DeletionHeld
<1> QED BY <1>1, <1>2, <1>3, <1>4, <1>5, <1>6, StepKinds

\* The copy that Get takes is the API server's, or an event is under way.
LEMMA GetSeen == ASSUME TypeInv, NEW c \in CRs, Get(c) PROVE HandSeen'
<1> SUFFICES ASSUME pc' # "idle", c \notin crStale
             PROVE  cr'[key'] # Nil /\ hand'.status = cr'[key'].status
                        /\ hand'.deleting = cr'[key'].deleting
    <2>1. ASSUME pc' # "idle" PROVE key' = c
        BY <2>1 DEF Get, Begin, Return, workerVars
    <2>2. UNCHANGED crStale
        BY DEF Get, cacheVars
    <2> QED BY <2>1, <2>2 DEF HandSeen
<1>1. pc = "idle" /\ UNCHANGED cr /\ crCache[c] = cr[c]
    BY DEF Get, clusterVars, TypeInv, Coherent
<1>2. cr[c] # Nil /\ key' = c /\ (hand' = cr[c] \/ \E s : hand' = [cr[c] EXCEPT !.spec = s])
    BY <1>1 DEF Get, Begin, Return, workerVars
<1>3. cr[c] \in Resources
    BY <1>2 DEF TypeInv, TypeOK, ClusterType
<1> QED BY <1>1, <1>2, <1>3 DEF Resources

\* Every step keeps the copy in hand current or announces that it is not.
LEMMA HandSeenStep == ASSUME TypeInv, HandSeen, [Next]_vars PROVE HandSeen'
<1>1. CASE pc' = "idle"
    BY <1>1 DEF HandSeen
<1>2. ASSUME pc' # "idle", pc # "idle", UNCHANGED <<key, hand>> PROVE HandSeen'
    <2>1. ~Crash /\ \A c \in CRs : ~Get(c)
        BY <1>2 DEF Crash, Return, Get
    <2>2. key \in CRs
        BY <1>2 DEF TypeInv, TypeOK, ReconcileType
    <2> QED BY <1>2, <2>1, <2>2, EventsKept, ChangeSeen DEF HandSeen
<1>3. CASE AddFinalizer
    BY <1>1, <1>3, FinalizerFacts DEF AddFinalizer, Begin, Return, HandSeen
<1> QED BY <1>1, <1>2, <1>3, HandKinds, GetSeen

\* A resource that nobody will look at again after a Get was at rest before.
LEMMA GetRests ==
    ASSUME TypeInv, DeletionHeld, NEW d \in CRs, Get(d),
           NEW c \in CRs, cr'[c] # Nil, ~Awaited(c)'
    PROVE  cr'[c] = cr[c] /\ ~Awaited(c)
<1>1. /\ pc = "idle" /\ UNCHANGED <<cr, crStale>> /\ delayed \subseteq delayed' /\ queued' = queued \ {d}
    BY DEF Get, Begin, clusterVars, cacheVars
<1>2. CASE c # d
    BY <1>1, <1>2 DEF Awaited
<1>3. CASE c = d
    <2>1. CASE UNCHANGED workerVars /\ (crCache[c] # Nil => crCache[c].deleting /\ ~crCache[c].finalizer)
        BY <1>1, <1>3, <2>1 DEF DeletionHeld, TypeInv, Coherent, Awaited
    <2>2. CASE pc' = "finalizer" /\ key' = c
        BY <2>2 DEF Awaited
    <2>3. ASSUME Begin(c, crCache[c], c \notin crStale) PROVE Awaited(c)'
        BY <2>3 DEF Begin, Awaited
    <2> QED BY <1>3, <2>1, <2>2, <2>3 DEF Get
<1> QED BY <1>2, <1>3

\* A resource that nobody will look at again after a step was at rest before, or
\* its status has been patched.
LEMMA RestKinds ==
    ASSUME TypeInv, DeletionHeld, [Next]_vars, NEW c \in CRs, cr'[c] # Nil, ~Awaited(c)'
    PROVE  cr'[c] = cr[c] /\ (~Awaited(c) \/ (PatchStatus /\ key = c))
<1>1. ~Crash
    BY DEF Crash, clusterVars, Awaited
<1>2. CASE \E d \in CRs : Get(d)
    BY <1>2, GetRests
<1>3. CASE \A d \in CRs : ~Get(d)
    <2>1. cr'[c] = cr[c]
        BY ChangeSeen DEF Awaited
    <2>2. c \notin queued \cup delayed \cup crStale
        BY <1>1, <1>3, EventsKept DEF Awaited
    <2>3. ASSUME pc # "idle", key = c PROVE PatchStatus
        <3>1. pc' = "idle"
            <4>1. pc' # "idle" => key' = key
                BY <1>3, <2>3, HandKinds DEF AddFinalizer, Begin, Return
            <4> QED BY <2>3, <4>1 DEF Awaited
        <3>2. ~ReleaseCall
            BY <2>3, ReleaseFacts
        <3> QED BY <1>1, <2>3, <3>1, <3>2, EndKinds DEF Awaited
    <2> QED BY <2>1, <2>2, <2>3 DEF Awaited
<1> QED BY <1>2, <1>3

\* Every step leaves every resource awaited or in order.
LEMMA RestsStep == ASSUME TypeInv, StatusInv, [Next]_vars PROVE Rests'
<1> SUFFICES ASSUME NEW c \in CRs, cr'[c] # Nil, ~Awaited(c)'
             PROVE  Consistent(cr'[c]) /\ Shown(c)'
    BY DEF Rests
<1>1. cr'[c] = cr[c] /\ (~Awaited(c) \/ (PatchStatus /\ key = c))
    BY RestKinds DEF StatusInv, EventInv
<1>2. CASE ~Awaited(c)
    <2>1. Consistent(cr[c]) /\ Shown(c)
        BY <1>1, <1>2 DEF StatusInv, EventInv, Rests
    <2>2. ~Crash
        BY DEF Crash, clusterVars, Awaited
    <2>3. CRs = {c} => UNCHANGED gauges
        BY <1>2, <2>2, GaugeKinds DEF Awaited, TypeInv, TypeOK, ReconcileType
    <2> QED BY <1>1, <2>1, <2>3 DEF Shown
<1>3. CASE PatchStatus /\ key = c
    <2>1. PatchCall /\ UNCHANGED <<queued, gauges>>
        BY <1>3 DEF PatchStatus, PatchCall, StatusCall
    <2> QED BY <1>3, <2>1, PatchQuiet DEF Awaited, Shown
<1> QED BY <1>1, <1>2, <1>3

\* The initial state satisfies the invariant.
LEMMA InitStatus == Init => StatusInv
<1> SUFFICES ASSUME Init PROVE StatusInv
    OBVIOUS
<1>1. Cardinality({}) = 0
    BY FS_EmptySet
<1>2. LoopInv
    BY <1>1 DEF Init, NoResult, LoopInv, ResultAdds, LoopParts, GaugesSet
<1>3. EventInv
    BY DEF Init, EventInv, HandSeen, Rests, DeletionHeld
<1> QED BY <1>2, <1>3 DEF StatusInv

\* Every step keeps it.
LEMMA StepStatus == TypeInv /\ StatusInv /\ [Next]_vars => StatusInv'
BY StepLoop, HandSeenStep, DeletionHeldStep, RestsStep DEF StatusInv, EventInv

\* The invariant holds of every behaviour.
THEOREM StatusInvariance == Spec => []StatusInv
<1>1. Init => TypeInv /\ StatusInv
    BY InitTyping, InitStatus
<1>2. (TypeInv /\ StatusInv) /\ [Next]_vars => (TypeInv /\ StatusInv)'
    BY StepTyping, StepStatus
<1> QED BY <1>1, <1>2, PTL DEF Spec

\* Whatever was stale, lost, repeated or changed on the way: when nothing is left
\* to do, no deletion is pending and every published status belongs to a
\* reconcile that succeeded and agrees with itself.
THEOREM StatusSettled == Spec => []SettledStatus
<1>1. TypeInv /\ StatusInv => SettledStatus
    BY DEF StatusInv, EventInv, Rests, Awaited, Consistent, Settled, SettledStatus
<1> QED BY <1>1, TypeInvariance, StatusInvariance, PTL

\* When nothing is left to do, the gauges of the only propagation show its status.
THEOREM GaugesAgreed == Spec => []GaugesAgree
<1>1. TypeInv /\ StatusInv => GaugesAgree
    BY DEF StatusInv, EventInv, Rests, Awaited, Shown, Settled, Live, GaugesAgree
<1> QED BY <1>1, TypeInvariance, StatusInvariance, PTL

-----------------------------------------------------------------------------
(* The size of a batch                                                     *)

\* How many namespaces of a set come before one of them.
Place(S, ns) == Cardinality({m \in S : m < ns})

\* A place is less than the size of the set.
LEMMA PlaceRange ==
    ASSUME NEW S \in SUBSET Namespaces, NEW ns \in S
    PROVE  Place(S, ns) \in 0 .. Cardinality(S) - 1
<1> DEFINE lower == {m \in S : m < ns}
<1>1. lower \in SUBSET S /\ ns \notin lower
    <2>1. ns \in Nat /\ ~(ns < ns)
        BY NamespacesAssumption
    <2> QED BY <2>1
<1>2. Place(S, ns) = Cardinality(lower)
    BY DEF Place
<1> HIDE DEF lower
<1>3. /\ IsFiniteSet(S) /\ Cardinality(S) \in Nat /\ Cardinality(lower) \in Nat
    BY <1>1, NamespaceCount
<1>4. Cardinality(lower) <= Cardinality(S) /\ Cardinality(lower) # Cardinality(S)
    BY <1>1, <1>3, FS_Subset
<1> QED BY <1>2, <1>3, <1>4

\* Places follow the order of the namespaces.
LEMMA PlaceGrows ==
    ASSUME NEW S \in SUBSET Namespaces, NEW low \in S, NEW high \in S, low < high
    PROVE  Place(S, low) < Place(S, high)
<1> DEFINE lower(ns) == {m \in S : m < ns}
<1>1. lower(low) \in SUBSET lower(high) /\ low \in lower(high) /\ low \notin lower(low)
    <2>1. \A m \in S : m \in Nat
        BY NamespacesAssumption
    <2>2. \A m \in S : m < low => m < high
        BY <2>1
    <2> QED BY <2>1, <2>2
<1>2. lower(low) \in SUBSET Namespaces /\ lower(high) \in SUBSET Namespaces
    OBVIOUS
<1>3. Place(S, low) = Cardinality(lower(low)) /\ Place(S, high) = Cardinality(lower(high))
    BY DEF Place
<1> HIDE DEF lower
<1>4. IsFiniteSet(lower(high)) /\ Cardinality(lower(high)) \in Nat /\ Cardinality(lower(low)) \in Nat
    BY <1>2, NamespaceCount
<1>5. /\ Cardinality(lower(low)) <= Cardinality(lower(high))
      /\ Cardinality(lower(high)) # Cardinality(lower(low))
    BY <1>1, <1>4, FS_Subset
<1> QED BY <1>3, <1>4, <1>5

\* Every place of a set is the place of one namespace.
LEMMA PlaceTaken ==
    ASSUME NEW S \in SUBSET Namespaces
    PROVE  /\ \A low, high \in S : Place(S, low) = Place(S, high) => low = high
           /\ \A i \in 0 .. Cardinality(S) - 1 : \E ns \in S : Place(S, ns) = i
<1> DEFINE n == Cardinality(S)
           place == [ns \in S |-> Place(S, ns)]
<1>1. \A low, high \in S : Place(S, low) = Place(S, high) => low = high
    <2> SUFFICES ASSUME NEW low \in S, NEW high \in S, low # high
                 PROVE  Place(S, low) # Place(S, high)
        OBVIOUS
    <2>1. low < high \/ high < low
        BY NamespacesAssumption
    <2>2. Place(S, low) < Place(S, high) \/ Place(S, high) < Place(S, low)
        BY <2>1, PlaceGrows
    <2>3. Cardinality(S) \in Nat
        BY NamespaceCount
    <2>4. Place(S, low) \in Nat /\ Place(S, high) \in Nat
        BY <2>3, PlaceRange
    <2> QED BY <2>2, <2>4
<1>2. place \in Injection(S, 0 .. n - 1)
    BY <1>1, PlaceRange DEF Injection, IsInjective
<1>3. n \in Nat
    BY NamespaceCount
<1>4. IsFiniteSet(0 .. n - 1) /\ Cardinality(0 .. n - 1) = n
    <2> HIDE DEF n
    <2>1. 0 \in Int /\ n - 1 \in Int
        BY <1>3
    <2> QED BY <1>3, <2>1, FS_Interval
<1>5. place \in Surjection(S, 0 .. n - 1)
    <2> HIDE DEF place
    <2> QED BY <1>2, <1>4, FS_Injection
<1> QED BY <1>1, <1>5 DEF Surjection

\* A batch takes what is pending up to its size (rollout.go, Plan): all of it, or as
\* many namespaces as the batch size says.
LEMMA BatchCount ==
    ASSUME NEW completed, NEW selected \in SUBSET Namespaces, NEW size \in Int, size >= 1
    PROVE  LET pending == selected \ completed
               batch   == NextBatch(completed, size, selected)
           IN  /\ batch \subseteq pending
               /\ Cardinality(batch) <= size
               /\ batch = pending \/ Cardinality(batch) = size
<1> DEFINE pending == selected \ completed
           batch == {ns \in pending : Place(pending, ns) < size}
<1>1. NextBatch(completed, size, selected) = batch
    BY DEF NextBatch, Place
<1>2. pending \in SUBSET Namespaces /\ batch \in SUBSET pending
    OBVIOUS
<1>3. /\ \A ns \in pending : Place(pending, ns) \in 0 .. Cardinality(pending) - 1
      /\ \A low, high \in pending : Place(pending, low) = Place(pending, high) => low = high
      /\ \A i \in 0 .. Cardinality(pending) - 1 : \E ns \in pending : Place(pending, ns) = i
      /\ Cardinality(pending) \in Nat /\ IsFiniteSet(pending)
    <2> HIDE DEF pending
    <2> QED BY <1>2, PlaceRange, PlaceTaken, NamespaceCount
<1>4. \A ns \in batch : ns \in pending /\ Place(pending, ns) < size
    OBVIOUS
<1>5. \A ns \in pending : Place(pending, ns) < size => ns \in batch
    OBVIOUS
<1> HIDE DEF pending, batch
<1>6. CASE Cardinality(pending) <= size
    <2>1. batch = pending
        BY <1>2, <1>3, <1>5, <1>6
    <2> QED BY <1>1, <1>6, <2>1 DEF pending
<1>7. CASE Cardinality(pending) > size
    <2> DEFINE place == [ns \in batch |-> Place(pending, ns)]
    <2>1. place \in [batch -> 0 .. size - 1]
        BY <1>3, <1>4
    <2>2. place \in Bijection(batch, 0 .. size - 1)
        <3>1. \A low, high \in batch : place[low] = place[high] => low = high
            BY <1>3, <1>4
        <3>2. ASSUME NEW i \in 0 .. size - 1 PROVE \E ns \in batch : place[ns] = i
            <4>1. i \in 0 .. Cardinality(pending) - 1
                BY <1>3, <1>7
            <4>2. PICK ns \in pending : Place(pending, ns) = i
                BY <1>3, <4>1
            <4>3. ns \in batch
                BY <1>5, <4>2
            <4> QED BY <4>2, <4>3
        <3> HIDE DEF place
        <3> QED BY <2>1, <3>1, <3>2 DEF Bijection, Injection, Surjection, IsInjective
    <2>3. ExistsBijection(batch, 0 .. size - 1) /\ IsFiniteSet(batch)
        <3> HIDE DEF place
        <3> QED BY <1>2, <1>3, <2>2, FS_Subset DEF ExistsBijection
    <2>4. Cardinality(0 .. size - 1) = size
        <3>1. 0 \in Int /\ size - 1 \in Int
            OBVIOUS
        <3> QED BY <3>1, FS_Interval
    <2>5. Cardinality(batch) = size
        BY <2>3, <2>4, FS_Bijection
    <2> QED BY <1>1, <1>2, <2>5 DEF pending
<1> QED BY <1>3, <1>6, <1>7

\* Outside the loop there is no batch.
LEMMA NoBatch == ASSUME pc' \notin {"lookup", "upsert"} PROVE BatchRespected'
BY DEF BatchRespected

\* The planned batch has the right size.
LEMMA ListAndPlanBatch == ASSUME TypeInv, LoopInv, BatchRespected, ListAndPlan PROVE BatchRespected'
<1> DEFINE selected == Selected(hand.spec)
           state == PlannedState(planner[key], HashData(data), selected)
<1>1. /\ pc = "list" /\ pc' = "lookup" /\ targets' = selected /\ selected \in SUBSET Namespaces
      /\ UNCHANGED <<key, hand, done, skipped>>
      /\ key \in CRs /\ done = {} /\ skipped = {}
      /\ hand.spec.batchSize \in Int /\ hand.spec.batchSize >= 1
    BY DEF ListAndPlan, Advance, LoopInv, LoopParts, Selected, TypeInv, TypeOK, ReconcileType, CompleteSpec
<1>3. CASE hand.spec.strategy = "immediate"
    BY <1>1, <1>3 DEF BatchRespected
<1>4. CASE /\ hand.spec.strategy # "immediate"
           /\ planner' = [planner EXCEPT ![key] = state]
           /\ todo' = NextBatch(state.completed, hand.spec.batchSize, selected)
    <2>1. planner'[key] = state
        BY <1>1, <1>4 DEF TypeInv, TypeOK, MemoryType
    <2>2. todo' \cup done' \cup skipped' = NextBatch(state.completed, hand.spec.batchSize, selected)
        BY <1>1, <1>4
    <2> HIDE DEF state, selected
    <2>3. LET pending == selected \ state.completed
              batch   == NextBatch(state.completed, hand.spec.batchSize, selected)
          IN  /\ batch \subseteq pending
              /\ Cardinality(batch) <= hand.spec.batchSize
              /\ batch = pending \/ Cardinality(batch) = hand.spec.batchSize
        BY <1>1, BatchCount
    <2> QED BY <1>1, <2>1, <2>2, <2>3 DEF BatchRespected
<1> QED BY <1>3, <1>4 DEF ListAndPlan

\* The loop visits what was planned, whatever becomes of each namespace.
LEMMA SyncBatch ==
    ASSUME TypeInv, LoopInv, BatchRespected, Upsert \/ \E ns \in Namespaces : Lookup(ns)
    PROVE  BatchRespected'
<1>1. /\ pc \in {"lookup", "upsert"} /\ UNCHANGED <<key, hand, targets, planner>>
    BY DEF Upsert, UpsertCall, Lookup, Advance, memoryVars, UpToDate
<1>2. (todo \cup done \cup skipped)' = todo \cup done \cup skipped
    <2>1. CASE Upsert
        BY <2>1 DEF Upsert, UpsertCall, LoopInv, LoopParts
    <2>2. ASSUME NEW ns \in Namespaces, Lookup(ns)
          PROVE  (todo \cup done \cup skipped)' = todo \cup done \cup skipped
        BY <2>2 DEF Lookup, IsFirst, UpToDate
    <2> QED BY <2>1, <2>2
<1> QED BY <1>1, <1>2 DEF BatchRespected

\* Every step keeps the batch within its size.
LEMMA StepBatch == ASSUME TypeInv, LoopInv, BatchRespected, [Next]_vars PROVE BatchRespected'
<1>1. ASSUME Return \/ CallFails \/ ReturnError PROVE BatchRespected'
    BY <1>1, NoBatch DEF Return, CallFails, ReturnError, ControllerCalls
<1>2. CASE ApiFailure \/ ReplyLost \/ Crash
    BY <1>1, <1>2 DEF ApiFailure, ReplyLost, Crash
<1>3. CASE Deliveries \/ Users \/ UNCHANGED vars
    <2>1. UNCHANGED <<memoryVars, pc, key, hand, localVars>>
        BY <1>3, UserFacts DEF Deliveries, DeliverResource, DeliverConfigMap, DelayElapsed, vars, workerVars, GetFailed
    <2> QED BY <2>1 DEF memoryVars, localVars, BatchRespected
<1>4. CASE Work
    <2>1. ASSUME UpdateConflict \/ StatusRefused \/ Release \/ PatchStatus \/ PatchErrorStatus PROVE BatchRespected'
        BY <1>1, <2>1 DEF UpdateConflict, StatusRefused, Release, PatchStatus, PatchErrorStatus
    <2>2. ASSUME SelectorRejected \/ WriteRefused \/ DetachTargetGone PROVE BatchRespected'
        BY <1>1, <2>2 DEF SelectorRejected, WriteRefused, DetachTargetGone
    <2>3. ASSUME ReadSource PROVE BatchRespected'
        <3>1. CASE CallFails
            BY <1>1, <3>1
        <3>2. CASE pc = "source" /\ Advance("list")
            BY <3>2 DEF Advance, BatchRespected
        <3> QED BY <2>3, <3>1, <3>2 DEF ReadSource
    <2>4. ASSUME \/ ListManaged \/ Detach \/ Report \/ EndCleanup
                 \/ \E ns \in Namespaces : Prune(ns) \/ DetachLookup(ns)
          PROVE  BatchRespected'
        <3>1. pc' \in {"listManaged", "cleanup", "detach", "release", "patch"}
            BY <2>4 DEF ListManaged, Detach, DetachCall, Prune, PruneCall, DetachLookup, Report, EndCleanup, Advance
        <3> QED BY <3>1, NoBatch
    <2>5. ASSUME NEW c \in CRs, Get(c) PROVE BatchRespected'
        <3>1. CASE UNCHANGED <<workerVars, delayed>>
            BY <2>5, <3>1 DEF Get, workerVars, localVars, memoryVars, BatchRespected
        <3>2. CASE pc' = "finalizer"
            BY <3>2, NoBatch
        <3>3. CASE crCache[c] # Nil /\ Begin(c, crCache[c], c \notin crStale)
            BY <3>3, NoBatch DEF Begin, Return
        <3> QED BY <2>5, <3>1, <3>2, <3>3 DEF Get
    <2>6. ASSUME AddFinalizer PROVE BatchRespected'
        BY <2>6, NoBatch DEF AddFinalizer, Begin, Return
    <2> QED BY <1>4, <2>1, <2>2, <2>3, <2>4, <2>5, <2>6, ListAndPlanBatch, SyncBatch DEF Work
<1> QED BY <1>2, <1>3, <1>4 DEF Next

\* In every behaviour, whatever BATCH_SIZE is set to and however specs and labels
\* change under way, one reconcile of a rolling propagation takes on as many
\* pending namespaces as its batch size says, or all of them if there are fewer.
THEOREM BatchesRespected == Spec => []BatchRespected
<1>1. Init => TypeInv /\ LoopInv /\ BatchRespected
    BY InitTyping, InitStatus DEF StatusInv, Init, BatchRespected
<1>2. (TypeInv /\ LoopInv /\ BatchRespected) /\ [Next]_vars => (TypeInv /\ LoopInv /\ BatchRespected)'
    BY StepTyping, StepLoop, StepBatch
<1> QED BY <1>1, <1>2, PTL DEF Spec
=============================================================================
