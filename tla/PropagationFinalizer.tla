------------------------ MODULE PropagationFinalizer ------------------------
(***************************************************************************)
(* FinalizerGuard is an invariant for every choice of the constants. The   *)
(* argument: a reconcile of a live resource starts only from a cached copy *)
(* with the finalizer, or after adding it. The finalizer leaves the API    *)
(* server only through Release, whose copy is current and deleted, and     *)
(* then the cache has seen the deletion too, because the cache supplied    *)
(* that copy and never goes back (CacheDeleting); so no cached copy still  *)
(* shows a live resource with a finalizer that the API server has dropped  *)
(* (CacheGuard).                                                           *)
(*                                                                         *)
(* FinalizeComplete, the second half, holds for every choice under which   *)
(* reads of ConfigMaps are current (~InformerLag); with lag TLC refutes it *)
(* (README, section 4). The argument: the list of managed ConfigMaps that  *)
(* Finalize works through misses none (Remaining), since nobody but an     *)
(* upsert adds the markers, there is one worker, and that worker is        *)
(* finalizing; the list belongs to the source the API server holds, since  *)
(* Release would otherwise be refused (HandSource).                        *)
(***************************************************************************)
EXTENDS PropagationSteps

\* What the cache shows as live and protected is protected.
CacheGuard ==
    \A c \in CRs : crCache[c] # Nil /\ crCache[c].finalizer /\ ~crCache[c].deleting =>
        cr[c] # Nil /\ cr[c].finalizer

\* A current copy agrees with the API server on the deletion.
HandCurrent == fresh => cr[key].deleting = hand.deleting

\* The finalizer is removed for deleted resources and added for the others.
PhaseGuard ==
    /\ pc = "release" => hand.deleting
    /\ pc = "finalizer" => ~hand.deleting

\* A deletion the worker has a current copy of has reached the cache.
CacheDeleting == fresh /\ hand.deleting => crCache[key] # Nil /\ crCache[key].deleting

GuardInv == FinalizerGuard /\ CacheGuard /\ HandCurrent /\ PhaseGuard /\ CacheDeleting

-----------------------------------------------------------------------------
(* Kinds of steps                                                          *)

\* A step that removes no finalizer.
Keeps == \A c \in CRs : cr[c] # Nil /\ cr[c].finalizer => cr'[c] # Nil /\ cr'[c].finalizer

\* A write that keeps the finalizer of its object keeps all of them.
LEMMA KeepingWrite ==
    ASSUME TypeInv, NEW c \in CRs, NEW value, WriteResource(c, value),
           cr[c] # Nil /\ cr[c].finalizer => value # Nil /\ value.finalizer
    PROVE  Keeps /\ UNCHANGED crCache
BY DEF WriteResource, TypeInv, TypeOK, ClusterType, Keeps

\* CacheGuard survives as long as finalizers do.
LEMMA KeepsGuard == ASSUME CacheGuard, Keeps, UNCHANGED crCache PROVE CacheGuard'
BY DEF CacheGuard, Keeps

\* After Reconcile has returned, only the cache has something to keep.
LEMMA ReturnGuard == ASSUME Return, CacheGuard' PROVE GuardInv'
BY DEF Return, GuardInv, FinalizerGuard, HandCurrent, PhaseGuard, CacheDeleting

\* The worker moves on within a reconcile that has passed its first steps.
LEMMA AdvanceGuard ==
    ASSUME GuardInv, NEW next, Advance(next), UNCHANGED <<cr, crCache>>,
           pc \notin {"idle", "finalizer"}, next \notin {"idle", "finalizer"},
           next = "release" => hand.deleting
    PROVE  GuardInv'
BY DEF Advance, GuardInv, FinalizerGuard, CacheGuard, HandCurrent, PhaseGuard, CacheDeleting

\* A failed call that left the resources alone.
LEMMA FailGuard ==
    ASSUME GuardInv, pc # "idle", CallFails, UNCHANGED <<cr, crCache>>
    PROVE  GuardInv'
<1>1. CacheGuard'
    BY DEF GuardInv, CacheGuard
<1>2. CASE ReturnError
    BY <1>1, <1>2, ReturnGuard DEF ReturnError
<1>3. CASE /\ ~(hand.deleting \/ pc \in {"finalizer", "patch", "errpatch", "release"})
           /\ pc' = "errpatch" /\ UNCHANGED <<key, hand, fresh>>
    BY <1>1, <1>3 DEF GuardInv, FinalizerGuard, HandCurrent, PhaseGuard, CacheDeleting
<1> QED BY <1>2, <1>3 DEF CallFails, ControllerCalls

\* Reconcile starts on a copy; only a live, protected or a deleted one gets here.
LEMMA BeginGuard ==
    ASSUME NEW c \in CRs, NEW resource \in Resources, NEW current \in BOOLEAN,
           Begin(c, resource, current), CacheGuard',
           ~resource.deleting => cr'[c] # Nil /\ cr'[c].finalizer,
           current => cr'[c].deleting = resource.deleting,
           current /\ resource.deleting => crCache'[c] # Nil /\ crCache'[c].deleting
    PROVE  GuardInv'
<1> DEFINE copy == [resource EXCEPT !.spec = DefaultSpec(resource.spec)]
<1>1. copy.deleting = resource.deleting
    BY DEF Resources
<1>2. CASE Return
    BY <1>2, ReturnGuard
<1>3. CASE /\ pc' \in {"listManaged", "source", "errpatch"}
           /\ key' = c /\ hand' = copy /\ fresh' = current
    <2> HIDE DEF copy
    <2> QED BY <1>1, <1>3 DEF GuardInv, FinalizerGuard, HandCurrent, PhaseGuard, CacheDeleting
<1> QED BY <1>2, <1>3 DEF Begin

-----------------------------------------------------------------------------
(* Steps of the worker                                                     *)

\* Taking a key: the copy comes from the cache.
LEMMA GetGuard == ASSUME TypeInv, GuardInv, NEW c \in CRs, Get(c) PROVE GuardInv'
<1>1. UNCHANGED <<cr, crCache>> /\ CacheGuard'
    BY DEF Get, clusterVars, cacheVars, GuardInv, CacheGuard
<1>2. c \notin crStale => cr[c] = crCache[c]
    BY DEF TypeInv, Coherent
<1>3. CASE UNCHANGED <<workerVars, delayed>>
    BY <1>1, <1>3 DEF GuardInv, FinalizerGuard, HandCurrent, PhaseGuard, CacheDeleting, workerVars
<1>4. CASE /\ crCache[c] # Nil /\ ~crCache[c].deleting /\ ~crCache[c].finalizer
           /\ pc' = "finalizer" /\ key' = c /\ hand' = crCache[c] /\ fresh' = (c \notin crStale)
    BY <1>1, <1>2, <1>4 DEF GuardInv, FinalizerGuard, HandCurrent, PhaseGuard, CacheDeleting
<1>5. CASE /\ crCache[c] # Nil /\ crCache[c].finalizer
           /\ Begin(c, crCache[c], c \notin crStale)
    <2>1. crCache[c] \in Resources
        BY <1>5 DEF TypeInv, TypeOK, CacheType
    <2>2. ~crCache[c].deleting => cr'[c] # Nil /\ cr'[c].finalizer
        BY <1>1, <1>5 DEF GuardInv, CacheGuard
    <2>3. (c \notin crStale) \in BOOLEAN
        OBVIOUS
    <2>4. c \notin crStale => cr'[c].deleting = crCache[c].deleting
        BY <1>1, <1>2
    <2>5. crCache'[c] # Nil
        BY <1>1, <1>5
    <2> QED BY <1>1, <1>5, <2>1, <2>2, <2>3, <2>4, <2>5, BeginGuard
<1> QED BY <1>3, <1>4, <1>5 DEF Get

\* Adding the finalizer changes nothing else about a current, live resource.
LEMMA FinalizerCallGuard ==
    ASSUME TypeInv, GuardInv, FinalizerCall
    PROVE  /\ Keeps /\ CacheGuard' /\ key \in CRs /\ cr'[key] \in Resources
           /\ cr'[key].finalizer /\ ~cr'[key].deleting
           /\ cr'[key].spec = cr[key].spec
<1>1. key \in CRs /\ cr'[key] \in Resources
    BY FinalizerCallType
<1>2. cr[key] \in Resources /\ ~cr[key].deleting
    BY <1>1 DEF FinalizerCall, TypeInv, TypeOK, FreshExists, ClusterType, GuardInv,
                HandCurrent, PhaseGuard
<1> DEFINE value == [cr[key] EXCEPT !.finalizer = TRUE]
<1>3. WriteResource(key, value)
    BY DEF FinalizerCall
<1>4. cr'[key] = value
    BY <1>1, <1>3 DEF WriteResource, TypeInv, TypeOK, ClusterType
<1>5. value \in Resources /\ value.finalizer /\ ~value.deleting /\ value.spec = cr[key].spec
    BY <1>2 DEF Resources
<1>6. value # Nil
    BY <1>5, NilAssumption
<1> HIDE DEF value
<1>7. Keeps /\ UNCHANGED crCache
    BY <1>1, <1>3, <1>5, <1>6, KeepingWrite
<1>8. CacheGuard'
    BY <1>7, KeepsGuard DEF GuardInv
<1> QED BY <1>1, <1>4, <1>5, <1>7, <1>8

\* The reconcile that follows finds the resource protected.
LEMMA AddFinalizerGuard == ASSUME TypeInv, GuardInv, AddFinalizer PROVE GuardInv'
<1>1. /\ CacheGuard' /\ key \in CRs /\ cr'[key] \in Resources
      /\ cr'[key].finalizer /\ ~cr'[key].deleting
    BY FinalizerCallGuard DEF AddFinalizer
<1>2. cr'[key] # Nil
    BY <1>1, NilAssumption
<1>3. Begin(key, cr'[key], TRUE)
    BY DEF AddFinalizer
<1> QED BY <1>1, <1>2, <1>3, BeginGuard

\* Removing the finalizer: the cache shows the deletion already.
LEMMA ReleaseCallGuard == ASSUME TypeInv, GuardInv, ReleaseCall PROVE CacheGuard'
<1>1. key \in CRs /\ crCache[key].deleting
    BY DEF ReleaseCall, TypeInv, TypeOK, ReconcileType, GuardInv, PhaseGuard, CacheDeleting
<1>2. crCache' = crCache /\ \A d \in CRs : cr'[d] = IF d = key THEN Nil ELSE cr[d]
    BY <1>1 DEF ReleaseCall, WriteResource, TypeInv, TypeOK, ClusterType
<1> QED BY <1>1, <1>2 DEF GuardInv, CacheGuard

\* Patching the status keeps the finalizer.
LEMMA StatusCallKeeps ==
    ASSUME TypeInv, pc # "idle", NEW new \in Statuses, NEW stamped \in BOOLEAN,
           StatusCall(new, stamped)
    PROVE  Keeps /\ UNCHANGED crCache
<1> DEFINE merged == MergePatch(hand.status, new, cr[key].status, stamped)
           value  == [cr[key] EXCEPT !.status = merged]
<1>1. key \in CRs /\ cr[key] \in Resources /\ hand \in Resources
    BY DEF StatusCall, TypeInv, TypeOK, ReconcileType, ClusterType
<1>2. merged \in Statuses
    BY <1>1, MergePatchType DEF Resources
<1> HIDE DEF merged
<1>3. value \in Resources /\ value.finalizer = cr[key].finalizer
    BY <1>1, <1>2 DEF Resources
<1>4. value # Nil
    BY <1>3, NilAssumption
<1>5. WriteResource(key, value) \/ UNCHANGED <<cr, crCache>>
    BY DEF StatusCall, merged
<1> HIDE DEF value
<1>6. CASE UNCHANGED <<cr, crCache>>
    BY <1>6 DEF Keeps
<1>7. CASE WriteResource(key, value)
    BY <1>1, <1>3, <1>4, <1>7, KeepingWrite
<1> QED BY <1>5, <1>6, <1>7

\* Publishing a result or an error keeps the finalizer.
LEMMA PatchCallKeeps ==
    ASSUME TypeInv, PatchCall \/ PatchErrorCall
    PROVE  Keeps /\ UNCHANGED crCache
<1>1. ApplyRolloutStatus(result) \in Statuses
    BY RolloutStatusType DEF TypeInv, TypeOK, LocalType
<1>2. pc = "errpatch" => ApplyErrorStatus(hand.status) \in Statuses
    BY ErrorStatusType DEF TypeInv, TypeOK, ReconcileType, Resources
<1> QED BY <1>1, <1>2, StatusCallKeeps DEF PatchCall, PatchErrorCall

\* Steps between the first and the last of a reconcile.
LEMMA InnerGuard ==
    ASSUME TypeInv, GuardInv,
           \/ ReadSource \/ ListAndPlan \/ SelectorRejected
           \/ (\E ns \in Namespaces : Lookup(ns)) \/ Upsert
           \/ WriteRefused \/ Report \/ ListManaged
           \/ (\E ns \in Namespaces : Prune(ns) \/ DetachLookup(ns))
           \/ Detach \/ DetachTargetGone \/ EndCleanup
    PROVE  GuardInv'
<1>1. pc \notin {"idle", "finalizer"} /\ UNCHANGED <<cr, crCache>>
    BY DEF ReadSource, ListAndPlan, SelectorRejected, Lookup, Upsert, UpsertCall, WriteRefused, Report,
           ListManaged, Prune, PruneCall, DetachLookup, Detach, DetachCall, DetachTargetGone,
           EndCleanup, clusterVars, cacheVars, UpToDate
<1>2. \/ CallFails
      \/ \E next \in {"list", "lookup", "upsert", "listManaged", "cleanup", "detach", "patch"} :
            Advance(next)
      \/ Advance("release") /\ hand.deleting
    BY DEF ReadSource, ListAndPlan, SelectorRejected, Lookup, Upsert, WriteRefused, Report,
           ListManaged, Prune, DetachLookup, Detach, DetachTargetGone, EndCleanup, UpToDate
<1>3. CASE CallFails
    BY <1>1, <1>3, FailGuard
<1>4. CASE \E next \in {"list", "lookup", "upsert", "listManaged", "cleanup", "detach", "patch"} :
                Advance(next)
    BY <1>1, <1>4, AdvanceGuard
<1>5. CASE Advance("release") /\ hand.deleting
    BY <1>1, <1>5, AdvanceGuard
<1> QED BY <1>2, <1>3, <1>4, <1>5

\* Every step of the worker keeps the guard.
LEMMA WorkGuard == ASSUME TypeInv, GuardInv, Work PROVE GuardInv'
<1>1. ASSUME UpdateConflict \/ StatusRefused PROVE GuardInv'
    <2>1. CacheGuard'
        BY <1>1 DEF UpdateConflict, StatusRefused, clusterVars, cacheVars, GuardInv, CacheGuard
    <2> QED BY <1>1, <2>1, ReturnGuard DEF UpdateConflict, StatusRefused, ReturnError
<1>2. ASSUME Release PROVE GuardInv'
    BY <1>2, ReleaseCallGuard, ReturnGuard DEF Release
<1>3. ASSUME PatchStatus \/ PatchErrorStatus PROVE GuardInv'
    <2>1. CacheGuard'
        BY <1>3, PatchCallKeeps, KeepsGuard DEF PatchStatus, PatchErrorStatus, GuardInv
    <2> QED BY <1>3, <2>1, ReturnGuard DEF PatchStatus, PatchErrorStatus, ReturnError
<1> QED BY <1>1, <1>2, <1>3, GetGuard, AddFinalizerGuard, InnerGuard DEF Work

-----------------------------------------------------------------------------
(* Failures, deliveries and users                                          *)

\* A write whose answer is lost.
LEMMA ReplyLostGuard == ASSUME TypeInv, GuardInv, ReplyLost PROVE GuardInv'
<1>1. CallFails
    BY DEF ReplyLost
<1>2. CASE FinalizerCall \/ ReleaseCall \/ PatchCall \/ PatchErrorCall
    <2>1. CacheGuard'
        BY <1>2, FinalizerCallGuard, ReleaseCallGuard, PatchCallKeeps, KeepsGuard DEF GuardInv
    <2>2. Return
        BY <1>1, <1>2 DEF CallFails, ReturnError, FinalizerCall, ReleaseCall, PatchCall,
                          PatchErrorCall, ControllerCalls
    <2> QED BY <2>1, <2>2, ReturnGuard
<1>3. CASE UpsertCall \/ DetachCall \/ \E ns \in Namespaces : PruneCall(ns)
    <2>1. pc # "idle" /\ UNCHANGED <<cr, crCache>>
        BY <1>3 DEF UpsertCall, DetachCall, PruneCall
    <2> QED BY <1>1, <2>1, FailGuard
<1> QED BY <1>2, <1>3 DEF ReplyLost

\* A failed call, a restart, an informer or a timer.
LEMMA EnvironmentGuard ==
    ASSUME TypeInv, GuardInv, ApiFailure \/ Crash \/ Deliveries
    PROVE  GuardInv'
<1>1. ASSUME ApiFailure PROVE GuardInv'
    <2>1. pc # "idle" /\ CallFails /\ UNCHANGED <<cr, crCache>>
        BY <1>1 DEF ApiFailure, Calls, clusterVars, cacheVars, ClientCalls, ControllerCalls
    <2> QED BY <2>1, FailGuard
<1>2. ASSUME Crash PROVE GuardInv'
    <2>1. CacheGuard'
        BY <1>2 DEF Crash, CacheGuard, clusterVars
    <2> QED BY <1>2, <2>1, ReturnGuard DEF Crash
<1>3. ASSUME NEW c \in CRs, DeliverResource(c) PROVE GuardInv'
    <2>1. /\ UNCHANGED <<cr, pc, key, hand, fresh>>
          /\ \A d \in CRs : crCache'[d] = IF d = c THEN cr[c] ELSE crCache[d]
        BY <1>3 DEF DeliverResource, clusterVars, workerVars, TypeInv, TypeOK, CacheType
    <2>2. CacheGuard'
        BY <2>1 DEF GuardInv, CacheGuard
    <2>3. CacheDeleting'
        <3>1. fresh => key \in CRs /\ cr[key] # Nil /\ cr[key].deleting = hand.deleting
            BY DEF TypeInv, TypeOK, FreshExists, ReconcileType, GuardInv, HandCurrent
        <3> QED BY <2>1, <3>1 DEF GuardInv, CacheDeleting
    <2> QED BY <2>1, <2>2, <2>3 DEF GuardInv, FinalizerGuard, HandCurrent, PhaseGuard
<1>4. ASSUME NEW c \in CRs, DelayElapsed(c) \/ GetFailed(c) PROVE GuardInv'
    BY <1>4 DEF DelayElapsed, clusterVars, cacheVars, workerVars, GuardInv,
                FinalizerGuard, CacheGuard, HandCurrent, PhaseGuard, CacheDeleting, GetFailed
<1>5. ASSUME NEW ns \in Namespaces, DeliverConfigMap(ns) PROVE GuardInv'
    BY <1>5 DEF DeliverConfigMap, clusterVars, cacheVars, workerVars, GuardInv,
                FinalizerGuard, CacheGuard, HandCurrent, PhaseGuard, CacheDeleting
<1> QED BY <1>1, <1>2, <1>3, <1>4, <1>5 DEF Deliveries

\* Users cannot remove the controller's finalizer with what they do here.
LEMMA UsersKeep ==
    ASSUME TypeInv, Users
    PROVE  \/ UNCHANGED <<cr, crCache, pc, key, hand, fresh>>
           \/ /\ Keeps /\ UNCHANGED <<crCache, pc, key, hand>>
              /\ \E c \in CRs : /\ fresh' = (fresh /\ key # c)
                                /\ \A d \in CRs \ {c} : cr'[d] = cr[d]
<1> DEFINE Goal ==
        \/ UNCHANGED <<cr, crCache, pc, key, hand, fresh>>
        \/ /\ Keeps /\ UNCHANGED <<crCache, pc, key, hand>>
           /\ \E c \in CRs : /\ fresh' = (fresh /\ key # c)
                             /\ \A d \in CRs \ {c} : cr'[d] = cr[d]
<1>1. ASSUME NEW c \in CRs, NEW value, NEW kind, UserEdit(kind), UserWritesResource(c, value),
             cr[c] # Nil /\ cr[c].finalizer => value # Nil /\ value.finalizer
      PROVE  Goal
    <2>1. Keeps
        BY <1>1, KeepingWrite DEF UserWritesResource
    <2>2. /\ UNCHANGED <<pc, key, hand, crCache>> /\ fresh' = (fresh /\ key # c)
          /\ \A d \in CRs \ {c} : cr'[d] = cr[d]
        BY <1>1 DEF UserEdit, UserWritesResource, WriteResource, TypeInv, TypeOK, ClusterType
    <2> QED BY <2>1, <2>2
<1> HIDE DEF Goal
<1>2. ASSUME NEW c \in CRs, DeleteResource(c) PROVE Goal
    <2> DEFINE marked == [cr[c] EXCEPT !.deleting = TRUE]
    <2>1. cr[c] \in Resources
        BY <1>2 DEF DeleteResource, TypeInv, TypeOK, ClusterType
    <2>2. marked \in Resources /\ marked.finalizer = cr[c].finalizer
        BY <2>1 DEF Resources
    <2>3. marked # Nil
        BY <2>2, NilAssumption
    <2>4. UserEdit("deleteResource") /\ UserWritesResource(c, IF cr[c].finalizer THEN marked ELSE Nil)
        BY <1>2 DEF DeleteResource
    <2> HIDE DEF marked
    <2> QED BY <1>1, <2>2, <2>3, <2>4
<1>3. ASSUME NEW c \in CRs, NEW spec \in Specs[c], CreateResource(c, spec) PROVE Goal
    BY <1>1, <1>3 DEF CreateResource
<1>4. ASSUME NEW c \in CRs, NEW spec \in Specs[c], UpdateResource(c, spec) PROVE Goal
    <2> DEFINE value == [cr[c] EXCEPT !.spec = Admitted(spec)]
    <2>1. cr[c] \in Resources
        BY <1>4 DEF UpdateResource, TypeInv, TypeOK, ClusterType
    <2>2. value \in Resources /\ value.finalizer = cr[c].finalizer
        BY <2>1, AdmittedType DEF Resources
    <2>3. value # Nil
        BY <2>2, NilAssumption
    <2>4. UserEdit("updateResource") /\ UserWritesResource(c, value)
        BY <1>4 DEF UpdateResource
    <2> HIDE DEF value
    <2> QED BY <1>1, <2>2, <2>3, <2>4
<1>5. ASSUME UNCHANGED <<cr, crCache, pc, key, hand, fresh>> PROVE Goal
    BY <1>5 DEF Goal
<1>6. ASSUME NEW ns \in Namespaces, NEW d \in Data,
             EditSource(ns, d) \/ CreateTarget(ns, d) \/ EditTarget(ns, d)
      PROVE  Goal
    BY <1>5, <1>6 DEF EditSource, CreateTarget, EditTarget, UserWritesConfigMap, UserEdit
<1>7. ASSUME NEW ns \in Namespaces, DeleteSource(ns) \/ DeleteTarget(ns) \/ AnnotateTarget(ns)
      PROVE  Goal
    BY <1>5, <1>7 DEF DeleteSource, DeleteTarget, AnnotateTarget, UserWritesConfigMap, UserEdit
<1>8. ASSUME NEW ns \in Namespaces, NEW labelMap \in LabelMaps,
             Relabel(ns, labelMap) \/ CreateNamespace(ns, labelMap)
      PROVE  Goal
    BY <1>5, <1>8 DEF Relabel, CreateNamespace, SetLabels, UserEdit
<1>9. ASSUME NEW ns \in Namespaces, DeleteNamespace(ns) PROVE Goal
    BY <1>5, <1>9 DEF DeleteNamespace, SetLabels, UserEdit
<1>10. Goal
    BY <1>2, <1>3, <1>4, <1>6, <1>7, <1>8, <1>9 DEF Users
<1> QED BY <1>10 DEF Goal

\* Users' changes keep the guard.
LEMMA UsersGuard == ASSUME TypeInv, GuardInv, Users PROVE GuardInv'
<1>1. CASE UNCHANGED <<cr, crCache, pc, key, hand, fresh>>
    BY <1>1 DEF GuardInv, FinalizerGuard, CacheGuard, HandCurrent, PhaseGuard, CacheDeleting
<1>2. ASSUME Keeps, UNCHANGED <<crCache, pc, key, hand>>, NEW c \in CRs,
             fresh' = (fresh /\ key # c), \A d \in CRs \ {c} : cr'[d] = cr[d]
      PROVE  GuardInv'
    <2>1. pc # "idle" => key \in CRs
        BY DEF TypeInv, TypeOK, ReconcileType
    <2>2. fresh => pc # "idle"
        BY DEF TypeInv, FreshExists
    <2>3. CacheGuard'
        BY <1>2, KeepsGuard DEF GuardInv
    <2>4. FinalizerGuard'
        BY <1>2, <2>1 DEF GuardInv, FinalizerGuard, Keeps
    <2>5. HandCurrent' /\ PhaseGuard' /\ CacheDeleting'
        BY <1>2, <2>1, <2>2 DEF GuardInv, HandCurrent, PhaseGuard, CacheDeleting
    <2> QED BY <2>3, <2>4, <2>5 DEF GuardInv
<1> QED BY <1>1, <1>2, UsersKeep

-----------------------------------------------------------------------------
\* Initially there is nothing to guard.
LEMMA InitGuard == Init => GuardInv
BY DEF Init, GuardInv, FinalizerGuard, CacheGuard, HandCurrent, PhaseGuard, CacheDeleting

\* Every step of a well-typed state keeps the guard.
LEMMA StepGuard == TypeInv /\ GuardInv /\ [Next]_vars => GuardInv'
<1> SUFFICES ASSUME TypeInv, GuardInv, [Next]_vars PROVE GuardInv'
    OBVIOUS
<1>1. CASE Next
    BY <1>1, WorkGuard, EnvironmentGuard, ReplyLostGuard, UsersGuard DEF Next
<1>2. CASE UNCHANGED vars
    BY <1>2 DEF GuardInv, FinalizerGuard, CacheGuard, HandCurrent, PhaseGuard, CacheDeleting,
           vars, clusterVars, cacheVars, workerVars
<1> QED BY <1>1, <1>2

\* The strengthened guard holds in every behaviour.
THEOREM GuardInvariance == Spec => []GuardInv
BY TypeInvariance, InitGuard, StepGuard, PTL DEF Spec

\* In every behaviour, with any number of failures, restarts, stale reads and
\* concurrent changes, the worker acts for a live resource only while the API
\* server holds it with the finalizer: what it writes can be cleaned up.
THEOREM FinalizerGuarded == Spec => []FinalizerGuard
<1>1. GuardInv => FinalizerGuard
    BY DEF GuardInv
<1> QED BY <1>1, GuardInvariance, PTL

-----------------------------------------------------------------------------
(* The finalizer goes when nothing is left                                 *)

\* Reads of ConfigMaps are current.
CacheExact == cmCache = cm /\ cmStale = {}

\* A current copy names the same source as the API server.
HandSource == fresh => hand.spec.source = cr[key].spec.source

\* A deleted resource only goes through Finalize, where nothing is a target.
DeletionPhases ==
    pc # "idle" /\ hand.deleting =>
        pc \in {"listManaged", "cleanup", "detach", "release"} /\ targets = {}

\* Once they are listed, all managed copies of a deleted resource are on the list.
Remaining ==
    pc \in {"cleanup", "detach", "release"} /\ hand.deleting =>
        \A ns \in Namespaces : ListedFor(cm[ns], hand.spec.source) => ns \in todo

\* The finalizer's removal starts with an empty list.
ReleaseEmpty == pc = "release" => todo = {}

CleanInv == CacheExact /\ HandSource /\ DeletionPhases /\ Remaining /\ ReleaseEmpty

-----------------------------------------------------------------------------
(* Kinds of steps                                                          *)

\* Without lag a write reaches the cache with the API server.
LEMMA WriteExact ==
    ASSUME ~InformerLag, CacheExact, NEW ns, NEW value, WriteConfigMap(ns, value)
    PROVE  CacheExact'
BY DEF CacheExact, WriteConfigMap

\* So does a deletion, also of a ConfigMap that is not there.
LEMMA RemoveExact ==
    ASSUME ~InformerLag, CacheExact, NEW ns, RemoveConfigMap(ns)
    PROVE  CacheExact'
<1>1. CASE UNCHANGED <<cm, cmCache, cmStale>>
    BY <1>1 DEF CacheExact
<1>2. CASE WriteConfigMap(ns, Nil)
    BY <1>2, WriteExact
<1> QED BY <1>1, <1>2 DEF RemoveConfigMap

\* Nothing is under way after Reconcile has returned.
LEMMA ReturnClean == ASSUME Return, CacheExact' PROVE CleanInv'
BY DEF Return, CleanInv, HandSource, DeletionPhases, Remaining, ReleaseEmpty

\* A failed call ends a finalization.
LEMMA FailClean ==
    ASSUME CleanInv, pc # "idle", CallFails, CacheExact',
           UNCHANGED cr \/ pc \in {"finalizer", "patch", "errpatch", "release"}
    PROVE  CleanInv'
<1>1. CASE ReturnError
    BY <1>1, ReturnClean DEF ReturnError
<1>2. CASE /\ ~(hand.deleting \/ pc \in {"finalizer", "patch", "errpatch", "release"})
           /\ pc' = "errpatch" /\ UNCHANGED <<key, hand, fresh>>
    BY <1>2 DEF CleanInv, HandSource, DeletionPhases, Remaining, ReleaseEmpty
<1> QED BY <1>1, <1>2 DEF CallFails, ControllerCalls

\* A reconcile of a live resource moves on.
LEMMA LiveClean ==
    ASSUME CleanInv, UNCHANGED cr, CacheExact', ~hand.deleting, pc # "idle",
           NEW next, Advance(next), next \notin {"idle", "release"}
    PROVE  CleanInv'
BY DEF Advance, CleanInv, HandSource, DeletionPhases, Remaining, ReleaseEmpty

\* Reconcile starts on a copy.
LEMMA BeginClean ==
    ASSUME NEW c \in CRs, NEW resource \in Resources, NEW current \in BOOLEAN,
           Begin(c, resource, current), CacheExact',
           current => cr'[c].spec.source = resource.spec.source
    PROVE  CleanInv'
<1> DEFINE copy == [resource EXCEPT !.spec = DefaultSpec(resource.spec)]
<1>1. copy.deleting = resource.deleting /\ copy.spec.source = resource.spec.source
    BY DefaultSpecType DEF Resources
<1>2. CASE Return
    BY <1>2, ReturnClean
<1>3. CASE /\ pc' = IF resource.deleting THEN "listManaged" ELSE "source"
           /\ key' = c /\ hand' = copy /\ fresh' = current /\ ResetLocals
    <2> HIDE DEF copy
    <2> QED BY <1>1, <1>3 DEF ResetLocals, CleanInv, HandSource, DeletionPhases, Remaining,
                              ReleaseEmpty
<1>4. CASE /\ pc' = "errpatch" /\ ~resource.deleting
           /\ key' = c /\ hand' = copy /\ fresh' = current /\ ResetLocals
    <2> HIDE DEF copy
    <2> QED BY <1>1, <1>4 DEF ResetLocals, CleanInv, HandSource, DeletionPhases, Remaining,
                              ReleaseEmpty
<1> QED BY <1>2, <1>3, <1>4 DEF Begin

-----------------------------------------------------------------------------
(* Steps of the worker                                                     *)

\* Taking a key.
LEMMA GetClean == ASSUME TypeInv, CleanInv, NEW c \in CRs, Get(c) PROVE CleanInv'
<1>1. UNCHANGED <<cm, cr, crCache>> /\ CacheExact'
    BY DEF Get, clusterVars, cacheVars, CleanInv, CacheExact
<1>2. c \notin crStale => cr[c] = crCache[c]
    BY DEF TypeInv, Coherent
<1>3. CASE UNCHANGED <<workerVars, delayed>>
    BY <1>1, <1>3 DEF CleanInv, HandSource, DeletionPhases, Remaining, ReleaseEmpty,
                      workerVars, localVars
<1>4. CASE /\ ~crCache[c].deleting
           /\ pc' = "finalizer" /\ key' = c /\ hand' = crCache[c] /\ fresh' = (c \notin crStale)
    BY <1>1, <1>2, <1>4 DEF CleanInv, HandSource, DeletionPhases, Remaining, ReleaseEmpty
<1>5. CASE crCache[c] # Nil /\ Begin(c, crCache[c], c \notin crStale)
    <2>1. crCache[c] \in Resources /\ (c \notin crStale) \in BOOLEAN
        BY <1>5 DEF TypeInv, TypeOK, CacheType
    <2>2. c \notin crStale => cr'[c].spec.source = crCache[c].spec.source
        BY <1>1, <1>2
    <2> QED BY <1>1, <1>5, <2>1, <2>2, BeginClean
<1> QED BY <1>3, <1>4, <1>5 DEF Get

\* Adding the finalizer.
LEMMA AddFinalizerClean == ASSUME TypeInv, GuardInv, CleanInv, AddFinalizer PROVE CleanInv'
<1>1. key \in CRs /\ cr'[key] \in Resources
    BY FinalizerCallGuard DEF AddFinalizer
<1>2. CacheExact' /\ Begin(key, cr'[key], TRUE)
    BY DEF AddFinalizer, FinalizerCall, CleanInv, CacheExact
<1> QED BY <1>1, <1>2, BeginClean

\* The steps that only a live resource reaches.
LEMMA SyncClean ==
    ASSUME TypeInv, ~InformerLag, CleanInv,
           \/ ReadSource \/ ListAndPlan \/ (\E ns \in Namespaces : Lookup(ns)) \/ Upsert \/ Report
    PROVE  CleanInv'
<1>1. pc \in {"source", "list", "lookup", "upsert"} /\ UNCHANGED cr
    BY DEF ReadSource, ListAndPlan, Lookup, Upsert, UpsertCall, Report, clusterVars, UpToDate
<1>2. ~hand.deleting
    BY <1>1 DEF CleanInv, DeletionPhases
<1>3. CacheExact'
    <2>1. CASE Upsert
        BY <2>1, WriteExact DEF Upsert, UpsertCall, CleanInv
    <2>2. CASE ~Upsert
        BY <2>2 DEF ReadSource, ListAndPlan, Lookup, Report, clusterVars, cacheVars,
                    CleanInv, CacheExact, UpToDate
    <2> QED BY <2>1, <2>2
<1>4. CallFails \/ \E next \in {"list", "lookup", "upsert", "listManaged"} : Advance(next)
    BY DEF ReadSource, ListAndPlan, Lookup, Upsert, Report, UpToDate
<1> QED BY <1>1, <1>2, <1>3, <1>4, FailClean, LiveClean

\* Listing the managed copies misses none.
LEMMA ListManagedClean == ASSUME CleanInv, ListManaged PROVE CleanInv'
<1>1. /\ pc = "listManaged" /\ pc' = "cleanup"
      /\ UNCHANGED <<cm, cr, cmCache, cmStale, key, hand, fresh, targets>>
      /\ todo' = {ns \in Namespaces \ targets : ListedFor(cmCache[ns], hand.spec.source)}
    BY DEF ListManaged, Advance, clusterVars, cacheVars
<1>2. hand.deleting => targets = {}
    BY <1>1 DEF CleanInv, DeletionPhases
<1>3. CacheExact' /\ HandSource' /\ DeletionPhases' /\ ReleaseEmpty'
    BY <1>1 DEF CleanInv, CacheExact, HandSource, DeletionPhases, ReleaseEmpty
<1>4. Remaining'
    BY <1>1, <1>2 DEF CleanInv, CacheExact, Remaining, ListedFor
<1> QED BY <1>3, <1>4 DEF CleanInv

\* A step of the cleanup loop that takes at most ns off the list, and leaves no
\* managed copy in ns if it does.
LEMMA LoopClean ==
    ASSUME TypeInv, CleanInv, CacheExact', pc \in {"cleanup", "detach"},
           NEW next \in {"cleanup", "detach"}, Advance(next), UNCHANGED <<cr, targets>>,
           NEW ns \in Namespaces, \A m \in Namespaces \ {ns} : cm'[m] = cm[m],
           todo \ {ns} \subseteq todo',
           (ns \in todo' /\ cm'[ns] = cm[ns]) \/ ~ListedFor(cm'[ns], hand.spec.source)
    PROVE  CleanInv'
<1>1. pc' = next /\ UNCHANGED <<key, hand, fresh>>
    BY DEF Advance
<1>2. HandSource' /\ DeletionPhases' /\ ReleaseEmpty'
    BY <1>1 DEF CleanInv, HandSource, DeletionPhases, ReleaseEmpty
<1>3. Remaining'
    BY <1>1 DEF CleanInv, Remaining
<1> QED BY <1>2, <1>3 DEF CleanInv

\* Deleting a copy.
LEMMA PruneClean ==
    ASSUME TypeInv, ~InformerLag, CleanInv, NEW ns \in Namespaces, Prune(ns)
    PROVE  CleanInv'
<1>1. /\ cm'[ns] = Nil /\ \A m \in Namespaces \ {ns} : cm'[m] = cm[m]
    BY DEF Prune, PruneCall, RemoveConfigMap, WriteConfigMap, TypeInv, TypeOK, ClusterType
<1>2. CacheExact'
    BY RemoveExact DEF Prune, PruneCall, CleanInv
<1>3. ~ListedFor(cm'[ns], hand.spec.source)
    BY <1>1 DEF ListedFor
<1> QED BY <1>1, <1>2, <1>3, LoopClean DEF Prune, PruneCall

\* Detaching a copy, or finding it gone.
LEMMA DetachClean ==
    ASSUME TypeInv, ~InformerLag, CleanInv,
           Detach \/ \E ns \in Namespaces : DetachLookup(ns)
    PROVE  CleanInv'
<1>1. ASSUME Detach PROVE CleanInv'
    <2>1. at \in Namespaces /\ cmCache[at] \in ConfigMaps
        BY <1>1 DEF Detach, DetachCall, TypeInv, TypeOK, ReconcileType, CacheType
    <2> DEFINE value == [cmCache[at] EXCEPT !.managed = FALSE, !.source = Nil,
                                            !.hash = Nil, !.user = meta]
    <2>2. ~value.managed
        BY <2>1 DEF ConfigMaps
    <2>3. WriteConfigMap(at, value)
        BY <1>1 DEF Detach, DetachCall
    <2>4. cm'[at] = value /\ \A m \in Namespaces \ {at} : cm'[m] = cm[m]
        BY <2>1, <2>3 DEF WriteConfigMap, TypeInv, TypeOK, ClusterType
    <2> HIDE DEF value
    <2>5. ~ListedFor(cm'[at], hand.spec.source)
        BY <2>2, <2>4 DEF ListedFor
    <2>6. CacheExact'
        BY <2>3, WriteExact DEF CleanInv
    <2> QED BY <1>1, <2>1, <2>4, <2>5, <2>6, LoopClean DEF Detach, DetachCall
<1>2. ASSUME NEW ns \in Namespaces, DetachLookup(ns) PROVE CleanInv'
    <2>1. UNCHANGED <<cm, cr, targets>> /\ CacheExact' /\ pc = "cleanup" /\ ns \in todo
        BY <1>2 DEF DetachLookup, clusterVars, cacheVars, CleanInv, CacheExact
    <2>2. \/ Advance("cleanup") /\ cmCache[ns] = Nil /\ todo' = todo \ {ns}
          \/ Advance("detach") /\ todo' = todo
        BY <1>2 DEF DetachLookup
    <2>3. cmCache[ns] = Nil => ~ListedFor(cm'[ns], hand.spec.source)
        BY <2>1 DEF CleanInv, CacheExact, ListedFor
    <2> QED BY <2>1, <2>2, <2>3, LoopClean
<1> QED BY <1>1, <1>2

\* The end of the loop.
LEMMA EndCleanupClean == ASSUME CleanInv, EndCleanup PROVE CleanInv'
<1>1. /\ pc = "cleanup" /\ todo = {} /\ pc' = IF hand.deleting THEN "release" ELSE "patch"
      /\ UNCHANGED <<cm, cr, cmCache, cmStale, key, hand, fresh, targets, todo>>
    BY DEF EndCleanup, Advance, clusterVars, cacheVars, localVars
<1> QED BY <1>1 DEF CleanInv, CacheExact, HandSource, DeletionPhases, Remaining, ReleaseEmpty

\* Every step of the worker keeps the invariant.
LEMMA WorkClean == ASSUME TypeInv, GuardInv, ~InformerLag, CleanInv, Work PROVE CleanInv'
<1>1. ASSUME UpdateConflict \/ Release \/ PatchStatus \/ PatchErrorStatus \/ StatusRefused
      PROVE  CleanInv'
    <2>1. CacheExact' /\ Return
        BY <1>1 DEF UpdateConflict, Release, ReleaseCall, PatchStatus, PatchCall, PatchErrorStatus,
                    PatchErrorCall, StatusCall, StatusRefused, ReturnError, clusterVars, cacheVars, CleanInv, CacheExact
    <2> QED BY <2>1, ReturnClean
<1>2. ASSUME WriteRefused \/ DetachTargetGone \/ SelectorRejected PROVE CleanInv'
    <2>1. CacheExact' /\ CallFails /\ pc # "idle" /\ UNCHANGED cr
        BY <1>2 DEF WriteRefused, DetachTargetGone, SelectorRejected, clusterVars, cacheVars, CleanInv, CacheExact
    <2> QED BY <2>1, FailClean
<1> QED BY <1>1, <1>2, GetClean, AddFinalizerClean, SyncClean, ListManagedClean, PruneClean,
           DetachClean, EndCleanupClean DEF Work

-----------------------------------------------------------------------------
(* Failures, deliveries and users                                          *)

\* Failures, restarts, informers and timers.
LEMMA EnvironmentClean ==
    ASSUME TypeInv, ~InformerLag, CleanInv, ApiFailure \/ ReplyLost \/ Crash \/ Deliveries
    PROVE  CleanInv'
<1>1. ASSUME ApiFailure PROVE CleanInv'
    <2>1. CacheExact' /\ CallFails /\ pc # "idle" /\ UNCHANGED cr
        BY <1>1 DEF ApiFailure, Calls, clusterVars, cacheVars, CleanInv, CacheExact, ClientCalls, ControllerCalls
    <2> QED BY <2>1, FailClean
<1>2. ASSUME ReplyLost PROVE CleanInv'
    <2>1. CASE FinalizerCall \/ ReleaseCall \/ PatchCall \/ PatchErrorCall
        <3>1. CacheExact' /\ pc \in {"finalizer", "patch", "errpatch", "release"}
            BY <2>1 DEF FinalizerCall, ReleaseCall, PatchCall, PatchErrorCall, StatusCall,
                        CleanInv, CacheExact
        <3> QED BY <1>2, <3>1, FailClean DEF ReplyLost
    <2>2. CASE UpsertCall \/ DetachCall \/ \E ns \in Namespaces : PruneCall(ns)
        <3>1. pc # "idle" /\ UNCHANGED cr
            BY <2>2 DEF UpsertCall, DetachCall, PruneCall
        <3>2. (\E ns, value : WriteConfigMap(ns, value)) \/ \E ns : RemoveConfigMap(ns)
            BY <2>2 DEF UpsertCall, DetachCall, PruneCall
        <3>3. CacheExact'
            BY <3>2, WriteExact, RemoveExact DEF CleanInv
        <3> QED BY <1>2, <3>1, <3>3, FailClean DEF ReplyLost
    <2> QED BY <1>2, <2>1, <2>2 DEF ReplyLost
<1>3. ASSUME Crash PROVE CleanInv'
    BY <1>3, ReturnClean DEF Crash, CacheExact, clusterVars
<1>4. ASSUME Deliveries PROVE CleanInv'
    <2>1. UNCHANGED <<cm, cr, cmCache, cmStale, workerVars>>
        BY <1>4 DEF Deliveries, DeliverResource, DeliverConfigMap, DelayElapsed, clusterVars,
                    cacheVars, CleanInv, CacheExact, GetFailed
    <2> QED BY <2>1 DEF CleanInv, CacheExact, HandSource, DeletionPhases, Remaining,
                        ReleaseEmpty, workerVars, localVars
<1> QED BY <1>1, <1>2, <1>3, <1>4

\* A user's ConfigMap is marked only if it was.
LEMMA UsersMarkNothing ==
    ASSUME TypeInv, ~InformerLag, CacheExact, Users
    PROVE  /\ CacheExact'
           /\ \A ns \in Namespaces : \A source : ListedFor(cm'[ns], source) => ListedFor(cm[ns], source)
<1> DEFINE Goal ==
        /\ CacheExact'
        /\ \A ns \in Namespaces : \A source : ListedFor(cm'[ns], source) => ListedFor(cm[ns], source)
<1>1. ASSUME NEW ns \in Namespaces, NEW value, WriteConfigMap(ns, value),
             \A source : ListedFor(value, source) => ListedFor(cm[ns], source)
      PROVE  Goal
    <2>1. \A m \in Namespaces : cm'[m] = IF m = ns THEN value ELSE cm[m]
        BY <1>1 DEF WriteConfigMap, TypeInv, TypeOK, ClusterType
    <2> QED BY <1>1, <2>1, WriteExact
<1> HIDE DEF Goal
<1>2. \A source, d : ~ListedFor(Nil, source) /\ ~ListedFor(UserConfigMap(d), source)
    BY DEF ListedFor, UserConfigMap
<1>3. \A ns \in Namespaces : cm[ns] # Nil => cm[ns] \in ConfigMaps
    BY DEF TypeInv, TypeOK, ClusterType
<1>4. ASSUME NEW ns \in Namespaces, NEW d \in Data,
             EditSource(ns, d) \/ CreateTarget(ns, d) \/ EditTarget(ns, d)
      PROVE  Goal
    <2>1. cm[ns] # Nil =>
            \A source : ListedFor([cm[ns] EXCEPT !.data = d], source) => ListedFor(cm[ns], source)
        BY <1>3 DEF ListedFor, ConfigMaps
    <2> QED BY <1>1, <1>2, <1>4, <2>1 DEF EditSource, CreateTarget, EditTarget, UserWritesConfigMap
<1>5. ASSUME NEW ns \in Namespaces, DeleteSource(ns) \/ DeleteTarget(ns) \/ AnnotateTarget(ns)
      PROVE  Goal
    <2>1. cm[ns] # Nil =>
            \A source : ListedFor([cm[ns] EXCEPT !.user = TRUE], source) => ListedFor(cm[ns], source)
        BY <1>3 DEF ListedFor, ConfigMaps
    <2> QED BY <1>1, <1>2, <1>5, <2>1 DEF DeleteSource, DeleteTarget, AnnotateTarget, UserWritesConfigMap
<1>6. ASSUME UNCHANGED <<cm, cmCache, cmStale>> PROVE Goal
    BY <1>6 DEF Goal, CacheExact
<1>7. ASSUME NEW ns \in Namespaces, NEW labelMap,
             Relabel(ns, labelMap) \/ CreateNamespace(ns, labelMap) \/ DeleteNamespace(ns)
      PROVE  Goal
    <2>1. UNCHANGED <<cm, cmCache, cmStale>> \/ WriteConfigMap(ns, Nil)
        BY <1>7 DEF Relabel, CreateNamespace, DeleteNamespace, RemoveConfigMap
    <2> QED BY <1>1, <1>2, <1>6, <2>1
<1>8. ASSUME NEW c \in CRs, NEW value, UserWritesResource(c, value) PROVE Goal
    BY <1>6, <1>8 DEF UserWritesResource
<1>9. ASSUME NEW c \in CRs, NEW spec \in Specs[c], CreateResource(c, spec) \/ UpdateResource(c, spec)
      PROVE  Goal
    BY <1>8, <1>9 DEF CreateResource, UpdateResource
<1>10. ASSUME NEW c \in CRs, DeleteResource(c) PROVE Goal
    BY <1>8, <1>10 DEF DeleteResource
<1>11. Goal
    BY <1>4, <1>5, <1>7, <1>9, <1>10 DEF Users
<1> QED BY <1>11 DEF Goal

\* Users' changes keep the invariant.
LEMMA UsersClean == ASSUME TypeInv, ~InformerLag, CleanInv, Users PROVE CleanInv'
<1>1. /\ CacheExact'
      /\ \A ns \in Namespaces : \A source : ListedFor(cm'[ns], source) => ListedFor(cm[ns], source)
    BY UsersMarkNothing DEF CleanInv
<1>2. UNCHANGED <<pc, key, hand, targets, todo>>
    BY DEF Users, DeleteResource, CreateResource, UpdateResource, EditSource, CreateTarget,
           EditTarget, DeleteSource, DeleteTarget, AnnotateTarget, Relabel, CreateNamespace,
           DeleteNamespace, SetLabels, UserWritesConfigMap, UserEdit, localVars
<1>3. HandSource'
    <2>1. fresh => key \in CRs
        BY DEF TypeInv, TypeOK, FreshExists, ReconcileType
    <2> QED BY <1>2, <2>1, UsersKeep DEF CleanInv, HandSource
<1>4. DeletionPhases' /\ Remaining' /\ ReleaseEmpty'
    BY <1>1, <1>2 DEF CleanInv, DeletionPhases, Remaining, ReleaseEmpty
<1> QED BY <1>1, <1>3, <1>4 DEF CleanInv

-----------------------------------------------------------------------------
\* Initially the caches are exact and nothing is under way.
LEMMA InitClean == Init => CleanInv
BY DEF Init, CleanInv, CacheExact, HandSource, DeletionPhases, Remaining, ReleaseEmpty

\* Every step keeps the invariant.
LEMMA StepClean ==
    ASSUME ~InformerLag
    PROVE  TypeInv /\ GuardInv /\ CleanInv /\ [Next]_vars => CleanInv'
<1> SUFFICES ASSUME TypeInv, GuardInv, CleanInv, [Next]_vars PROVE CleanInv'
    OBVIOUS
<1>1. CASE Next
    BY <1>1, WorkClean, EnvironmentClean, UsersClean DEF Next
<1>2. CASE UNCHANGED vars
    BY <1>2 DEF CleanInv, CacheExact, HandSource, DeletionPhases, Remaining, ReleaseEmpty,
           vars, clusterVars, cacheVars, workerVars, localVars
<1> QED BY <1>1, <1>2

\* A finalizer disappears only through the worker's Release call.
LEMMA OnlyRelease ==
    ASSUME TypeInv, GuardInv, [Next]_vars
    PROVE  Keeps \/ ReleaseCall
<1>1. CASE UNCHANGED cr
    BY <1>1 DEF Keeps
<1>2. CASE Work
    <2>1. UpdateConflict \/ StatusRefused \/ SelectorRejected \/ ReadSource \/ ListAndPlan \/ Upsert \/ WriteRefused \/ Report
            \/ ListManaged \/ Detach \/ DetachTargetGone \/ EndCleanup => UNCHANGED cr
        BY DEF UpdateConflict, StatusRefused, SelectorRejected, ReadSource, ListAndPlan, Upsert, UpsertCall, WriteRefused, Report,
               ListManaged, Detach, DetachCall, DetachTargetGone, EndCleanup, clusterVars
    <2>2. AddFinalizer \/ PatchStatus \/ PatchErrorStatus => Keeps
        BY FinalizerCallGuard, PatchCallKeeps DEF AddFinalizer, PatchStatus, PatchErrorStatus
    <2>3. ASSUME \E c \in CRs : Get(c) PROVE UNCHANGED cr
        BY <2>3 DEF Get, clusterVars
    <2>4. ASSUME \E ns \in Namespaces : Lookup(ns) \/ Prune(ns) \/ DetachLookup(ns) PROVE UNCHANGED cr
        BY <2>4 DEF Lookup, Prune, PruneCall, DetachLookup, clusterVars, UpToDate
    <2> QED BY <1>1, <1>2, <2>1, <2>2, <2>3, <2>4 DEF Work, Release
<1>3. CASE ReplyLost
    BY <1>1, <1>3, FinalizerCallGuard, PatchCallKeeps DEF ReplyLost, UpsertCall, PruneCall, DetachCall
<1>4. CASE ApiFailure \/ Crash \/ Deliveries
    BY <1>1, <1>4 DEF ApiFailure, Crash, Deliveries, DeliverResource, DeliverConfigMap,
           DelayElapsed, clusterVars, GetFailed
<1>5. CASE Users
    BY <1>1, <1>5, UsersKeep
<1>6. CASE UNCHANGED vars
    BY <1>1, <1>6 DEF vars, clusterVars
<1> QED BY <1>2, <1>3, <1>4, <1>5, <1>6 DEF Next

\* With current reads of ConfigMaps, whatever fails, restarts or is edited in
\* between, the finalizer is removed only when no marked copy is left.
THEOREM FinalizationComplete ==
    ASSUME ~InformerLag
    PROVE  Spec => FinalizeComplete
<1> DEFINE Complete ==
        \A c \in CRs :
            cr[c] # Nil /\ cr[c].finalizer /\ cr'[c] = Nil =>
                \A ns \in Namespaces : ~ListedFor(cm[ns], cr[c].spec.source)
<1>1. Spec => []CleanInv
    BY TypeInvariance, GuardInvariance, InitClean, StepClean, PTL DEF Spec
<1>2. TypeInv /\ GuardInv /\ CleanInv /\ [Next]_vars => [Complete]_vars
    <2> SUFFICES ASSUME TypeInv, GuardInv, CleanInv, [Next]_vars,
                        NEW c \in CRs, cr[c] # Nil, cr[c].finalizer, cr'[c] = Nil
                 PROVE  \A ns \in Namespaces : ~ListedFor(cm[ns], cr[c].spec.source)
        OBVIOUS
    <2>1. ReleaseCall
        BY OnlyRelease DEF Keeps
    <2>2. key \in CRs /\ cr'[key] = Nil /\ \A d \in CRs \ {key} : cr'[d] = cr[d]
        BY <2>1 DEF ReleaseCall, WriteResource, TypeInv, TypeOK, ReconcileType, ClusterType
    <2>3. c = key
        BY <2>2
    <2>4. todo = {} /\ hand.deleting /\ hand.spec.source = cr[c].spec.source
        BY <2>1, <2>3 DEF ReleaseCall, CleanInv, ReleaseEmpty, HandSource, GuardInv, PhaseGuard
    <2> QED BY <2>1, <2>4 DEF ReleaseCall, CleanInv, Remaining
<1>3. Spec => [][Complete]_vars
    BY <1>1, <1>2, TypeInvariance, GuardInvariance, PTL DEF Spec
<1> QED BY <1>3 DEF FinalizeComplete
=============================================================================
