----------------------- MODULE PropagationRefinement ------------------------
(***************************************************************************)
(* The controller implements the ownership protocol, for every choice of   *)
(* the constants under which reads of ConfigMaps are current and users do  *)
(* not change a propagation's source. Besides the invariants of the        *)
(* cleanup proof the argument needs that every copy of a spec names the    *)
(* source of its propagation (SourceInv), and that only a resource with    *)
(* the finalizer is ever marked as deleted (MarkedGuarded): then a deletion*)
(* is either a withdrawal or a request, and a release ends a request.      *)
(***************************************************************************)
EXTENDS PropagationFinalizer, PropagationOwnership

\* Users keep the source of a propagation.
SourcesFixed == \A c \in CRs : \A spec \in Specs[c] : spec.source = SourceOf[c]

StoredSource(store) == \A c \in CRs : store[c] # Nil => store[c].spec.source = SourceOf[c]

SourceInv ==
    /\ StoredSource(cr) /\ StoredSource(crCache)
    /\ pc # "idle" => hand.spec.source = SourceOf[key]

MarkedGuarded == \A c \in CRs : cr[c] # Nil /\ cr[c].deleting => cr[c].finalizer

-----------------------------------------------------------------------------
(* The invariants                                                          *)

\* Admission keeps the source.
LEMMA AdmittedSource ==
    ASSUME SourcesFixed, NEW c \in CRs, NEW spec \in Specs[c]
    PROVE  Admitted(spec).source = SourceOf[c]
<1>1. spec \in SpecType
    BY SpecsAssumption
<1>2. DefaultSpec(spec).source = spec.source
    BY <1>1, DefaultSpecType
<1> QED BY <1>2 DEF Admitted, SourcesFixed

\* A copy that Reconcile starts on names the source it was read with.
LEMMA BeginSource ==
    ASSUME NEW c \in CRs, NEW resource \in Resources, NEW current,
           Begin(c, resource, current), resource.spec.source = SourceOf[c]
    PROVE  pc' # "idle" => hand'.spec.source = SourceOf[key']
<1> DEFINE copy == [resource EXCEPT !.spec = DefaultSpec(resource.spec)]
<1>1. copy.spec.source = resource.spec.source
    BY DefaultSpecType DEF Resources
<1>2. pc' = "idle" \/ (hand' = copy /\ key' = c)
    BY DEF Begin, Return
<1> HIDE DEF copy
<1> QED BY <1>1, <1>2

\* Every step keeps the API server's sources, and marks only what is guarded.
LEMMA StoredStep ==
    ASSUME TypeInv, GuardInv, SourcesFixed, StoredSource(cr), MarkedGuarded, [Next]_vars
    PROVE  StoredSource(cr)' /\ MarkedGuarded'
<1>1. CASE UNCHANGED cr
    BY <1>1 DEF StoredSource, MarkedGuarded
<1>2. CASE FinalizerCall
    BY <1>2, FinalizerFacts DEF StoredSource, MarkedGuarded
<1>3. CASE ReleaseCall
    BY <1>3, ReleaseFacts DEF StoredSource, MarkedGuarded
<1>4. CASE PatchCall \/ PatchErrorCall
    BY <1>4, PatchFacts DEF StoredSource, MarkedGuarded
<1>5. CASE Users
    <2>1. ASSUME NEW c \in CRs, UserResourceStep(c) PROVE StoredSource(cr)' /\ MarkedGuarded'
        BY <2>1, AdmittedSource DEF UserResourceStep, StoredSource, MarkedGuarded
    <2> QED BY <1>1, <1>5, <2>1, UserFacts
<1>6. UpsertCall \/ DetachCall \/ (\E ns \in Namespaces : PruneCall(ns)) => UNCHANGED cr
    BY DEF UpsertCall, DetachCall, PruneCall
<1> QED BY <1>1, <1>2, <1>3, <1>4, <1>5, <1>6, StepKinds

\* Every step keeps the sources together.
LEMMA SourceStep ==
    ASSUME TypeInv, GuardInv, SourcesFixed, SourceInv, MarkedGuarded, [Next]_vars
    PROVE  SourceInv' /\ MarkedGuarded'
<1>1. StoredSource(cr)' /\ MarkedGuarded'
    BY StoredStep DEF SourceInv
<1>2. StoredSource(crCache)'
    BY CacheKinds DEF SourceInv, StoredSource
<1>3. pc' # "idle" => hand'.spec.source = SourceOf[key']
    <2>1. CASE pc' = "idle" \/ (pc # "idle" /\ UNCHANGED <<key, hand>>)
        BY <2>1 DEF SourceInv
    <2>2. ASSUME NEW c \in CRs, Get(c) PROVE pc' # "idle" => hand'.spec.source = SourceOf[key']
        <3>1. CASE UNCHANGED <<workerVars, delayed>>
            BY <2>2, <3>1 DEF Get, workerVars
        <3>2. CASE crCache[c] # Nil /\ key' = c /\ hand' = crCache[c]
            BY <3>2 DEF SourceInv, StoredSource
        <3>3. CASE crCache[c] # Nil /\ Begin(c, crCache[c], c \notin crStale)
            BY <3>3, BeginSource DEF SourceInv, StoredSource, TypeInv, TypeOK, CacheType
        <3> QED BY <2>2, <3>1, <3>2, <3>3 DEF Get
    <2>3. ASSUME AddFinalizer PROVE pc' # "idle" => hand'.spec.source = SourceOf[key']
        <3>1. key \in CRs /\ cr'[key] \in Resources
            BY <2>3, FinalizerCallGuard DEF AddFinalizer
        <3>2. cr'[key].spec.source = SourceOf[key]
            BY <1>1, <2>3, <3>1, FinalizerFacts DEF AddFinalizer, StoredSource
        <3> QED BY <2>3, <3>1, <3>2, BeginSource DEF AddFinalizer
    <2> QED BY <2>1, <2>2, <2>3, HandKinds
<1> QED BY <1>1, <1>2, <1>3 DEF SourceInv

-----------------------------------------------------------------------------
(* The refinement                                                          *)

RefineInv == TypeInv /\ GuardInv /\ CleanInv /\ SourceInv /\ MarkedGuarded

\* A change of one resource is a move of the protocol.
LEMMA MoveStep ==
    ASSUME NEW c \in CRs, \A d \in CRs \ {c} : cr'[d] = cr[d], UNCHANGED cm
    PROVE  Protocol!Move(c, Phase(cr[c]), Phase(cr'[c]))
<1>1. [d \in CRs |-> Phase(cr'[d])] = [[d \in CRs |-> Phase(cr[d])] EXCEPT ![c] = Phase(cr'[c])]
    OBVIOUS
<1>2. [ns \in Namespaces |-> OwnerOf(cm'[ns])] = [ns \in Namespaces |-> OwnerOf(cm[ns])]
    OBVIOUS
<1> QED BY <1>1, <1>2 DEF Protocol!Move

\* A change of one resource that keeps its phase is invisible.
LEMMA QuietStep ==
    ASSUME NEW c \in CRs, \A d \in CRs \ {c} : cr'[d] = cr[d], UNCHANGED cm,
           Phase(cr'[c]) = Phase(cr[c])
    PROVE  UNCHANGED Protocol!vars
<1>1. [d \in CRs |-> Phase(cr'[d])] = [d \in CRs |-> Phase(cr[d])]
    <2>1. \A d \in CRs : Phase(cr'[d]) = Phase(cr[d])
        OBVIOUS
    <2> QED BY <2>1
<1> QED BY <1>1 DEF Protocol!vars

\* What a change of one ConfigMap is to the protocol.
LEMMA OwnerStep ==
    ASSUME NEW ns \in Namespaces, \A m \in Namespaces \ {ns} : cm'[m] = cm[m], UNCHANGED cr
    PROVE  /\ OwnerOf(cm'[ns]) = Nil => Protocol!Drop(ns)
           /\ OwnerOf(cm'[ns]) = OwnerOf(cm[ns]) => UNCHANGED Protocol!vars
           /\ \A c \in CRs : Phase(cr[c]) \in Protocol!Guarded /\ OwnerOf(cm'[ns]) = SourceOf[c]
                => Protocol!Copy(c, ns)
<1>1. /\ [m \in Namespaces |-> OwnerOf(cm'[m])] =
            [[m \in Namespaces |-> OwnerOf(cm[m])] EXCEPT ![ns] = OwnerOf(cm'[ns])]
      /\ [c \in CRs |-> Phase(cr'[c])] = [c \in CRs |-> Phase(cr[c])]
    OBVIOUS
<1>2. OwnerOf(cm'[ns]) = Nil => Protocol!Drop(ns)
    BY <1>1 DEF Protocol!Drop
<1>3. \A c \in CRs : Phase(cr[c]) \in Protocol!Guarded /\ OwnerOf(cm'[ns]) = SourceOf[c]
        => Protocol!Copy(c, ns)
    BY <1>1 DEF Protocol!Copy
<1>4. OwnerOf(cm'[ns]) = OwnerOf(cm[ns]) => UNCHANGED Protocol!vars
    <2>1. ASSUME OwnerOf(cm'[ns]) = OwnerOf(cm[ns])
          PROVE  [m \in Namespaces |-> OwnerOf(cm'[m])] = [m \in Namespaces |-> OwnerOf(cm[m])]
        <3>1. \A m \in Namespaces : OwnerOf(cm'[m]) = OwnerOf(cm[m])
            BY <2>1
        <3> QED BY <3>1
    <2> QED BY <1>1, <2>1 DEF Protocol!vars
<1> QED BY <1>2, <1>3, <1>4

\* Every step is a step of the ownership protocol or invisible to it.
LEMMA RefinementStep ==
    ASSUME SourcesFixed, RefineInv, [Next]_vars
    PROVE  Protocol!Next \/ UNCHANGED Protocol!vars
<1> USE DEF RefineInv
<1>1. CASE UNCHANGED <<cm, cr>>
    BY <1>1 DEF Protocol!vars
<1>2. CASE FinalizerCall
    <2>1. Protocol!Move(key, Phase(cr[key]), Phase(cr'[key]))
        BY <1>2, FinalizerFacts, MoveStep
    <2>2. Phase(cr'[key]) = "guarded" /\ Phase(cr[key]) \in {"new", "guarded"}
        <3>1. ~cr[key].deleting
            BY <1>2 DEF FinalizerCall, GuardInv, HandCurrent, PhaseGuard
        <3> QED BY <1>2, <3>1, FinalizerFacts DEF Phase
    <2>3. CASE Phase(cr[key]) = "new"
        BY <1>2, <2>1, <2>2, <2>3, FinalizerFacts DEF Protocol!Guard, Protocol!Next
    <2>4. CASE Phase(cr[key]) = "guarded"
        BY <1>2, <2>2, <2>4, FinalizerFacts, QuietStep
    <2> QED BY <2>2, <2>3, <2>4
<1>3. CASE ReleaseCall
    <2>1. Protocol!Move(key, Phase(cr[key]), Phase(cr'[key]))
        BY <1>3, ReleaseFacts, MoveStep
    <2>2. Phase(cr[key]) = "deleting" /\ Phase(cr'[key]) = "absent"
        <3>1. cr[key].deleting
            BY <1>3 DEF ReleaseCall, GuardInv, HandCurrent, PhaseGuard
        <3> QED BY <1>3, <3>1, ReleaseFacts DEF Phase, MarkedGuarded
    <2>3. \A ns \in Namespaces : OwnerOf(cm[ns]) # SourceOf[key]
        <3>1. /\ todo = {} /\ hand.deleting /\ hand.spec.source = SourceOf[key]
              /\ hand.spec.source \in Namespaces
            BY <1>3 DEF ReleaseCall, CleanInv, ReleaseEmpty, GuardInv, PhaseGuard, SourceInv,
                   TypeInv, TypeOK, ReconcileType, CompleteSpec
        <3>2. \A ns \in Namespaces : ~ListedFor(cm[ns], SourceOf[key])
            BY <1>3, <3>1 DEF ReleaseCall, CleanInv, Remaining
        <3> QED BY <3>1, <3>2, NilAssumption DEF OwnerOf, ListedFor
    <2>4. Protocol!Release(key)
        BY <2>1, <2>2, <2>3 DEF Protocol!Release
    <2> QED BY <1>3, <2>4, ReleaseFacts DEF Protocol!Next
<1>4. CASE PatchCall \/ PatchErrorCall
    BY <1>4, PatchFacts, QuietStep DEF Phase
<1>5. CASE UpsertCall
    <2>1. /\ at \in Namespaces /\ key \in CRs /\ Target # Nil
          /\ cm'[at] = Target /\ (\A m \in Namespaces \ {at} : cm'[m] = cm[m]) /\ UNCHANGED cr
        BY <1>5, UpsertFacts
    <2>2. OwnerOf(Target) = SourceOf[key]
        BY <1>5, <2>1 DEF OwnerOf, Target, UpsertCall, SourceInv
    <2>3. Phase(cr[key]) \in Protocol!Guarded
        <3>1. ~hand.deleting
            BY <1>5 DEF UpsertCall, CleanInv, DeletionPhases
        <3> QED BY <1>5, <3>1 DEF UpsertCall, GuardInv, FinalizerGuard, Phase, Protocol!Guarded
    <2>4. Protocol!Copy(key, at)
        BY <2>1, <2>2, <2>3, OwnerStep
    <2> QED BY <2>1, <2>4 DEF Protocol!Next
<1>6. CASE DetachCall
    <2>1. OwnerOf(cm'[at]) = Nil
        BY <1>6, DetachFacts DEF OwnerOf
    <2>2. Protocol!Drop(at)
        BY <1>6, <2>1, DetachFacts, OwnerStep
    <2> QED BY <1>6, <2>2, DetachFacts DEF Protocol!Next
<1>7. ASSUME NEW ns \in Namespaces, PruneCall(ns) PROVE Protocol!Next
    <2>1. cm'[ns] = Nil /\ (\A m \in Namespaces \ {ns} : cm'[m] = cm[m]) /\ UNCHANGED cr
        BY <1>7, PruneFacts
    <2>2. OwnerOf(cm'[ns]) = Nil
        BY <2>1 DEF OwnerOf
    <2>3. Protocol!Drop(ns)
        BY <2>1, <2>2, OwnerStep
    <2> QED BY <2>3 DEF Protocol!Next
<1>8. CASE Users
    <2>1. ASSUME NEW c \in CRs, UserResourceStep(c), UNCHANGED cm
          PROVE  Protocol!Next \/ UNCHANGED Protocol!vars
        <3>1. Protocol!Move(c, Phase(cr[c]), Phase(cr'[c]))
            BY <2>1, MoveStep DEF UserResourceStep
        <3>2. \/ Phase(cr[c]) = "absent" /\ Phase(cr'[c]) = "new"
              \/ Phase(cr[c]) = Phase(cr'[c])
              \/ Phase(cr[c]) = "guarded" /\ Phase(cr'[c]) = "deleting"
              \/ Phase(cr[c]) = "new" /\ Phase(cr'[c]) = "absent"
            BY <2>1 DEF UserResourceStep, Phase
        <3>3. CASE Phase(cr[c]) = Phase(cr'[c])
            BY <2>1, <3>3, QuietStep DEF UserResourceStep
        <3> QED BY <3>1, <3>2, <3>3
                DEF Protocol!Create, Protocol!RequestDelete, Protocol!Withdraw, Protocol!Next
    <2>2. ASSUME NEW ns \in Namespaces, UserConfigMapStep(ns), UNCHANGED cr
          PROVE  Protocol!Next \/ UNCHANGED Protocol!vars
        BY <2>2, OwnerStep DEF UserConfigMapStep, OwnerOf, Protocol!Next
    <2> QED BY <1>1, <1>8, <2>1, <2>2, UserFacts
<1> QED BY <1>1, <1>2, <1>3, <1>4, <1>5, <1>6, <1>7, <1>8, StepKinds

\* The initial state satisfies the invariants.
LEMMA InitRefine == Init => RefineInv
<1>1. Init => SourceInv /\ MarkedGuarded
    BY DEF Init, SourceInv, StoredSource, MarkedGuarded
<1> QED BY <1>1, InitTyping, InitGuard, InitClean DEF RefineInv

\* Every step keeps the invariants.
LEMMA StepRefine ==
    ASSUME ~InformerLag, SourcesFixed
    PROVE  RefineInv /\ [Next]_vars => RefineInv'
BY StepTyping, StepGuard, StepClean, SourceStep DEF RefineInv

\* With current reads of ConfigMaps and sources that stay, the controller, with
\* any number of propagations, failures, restarts and changes by users,
\* implements the ownership protocol.
THEOREM Refinement ==
    ASSUME ~InformerLag, SourcesFixed
    PROVE  Spec => ImplementsOwnership
<1>1. Init => Protocol!Init
    <2> SUFFICES ASSUME Init PROVE Protocol!Init
        OBVIOUS
    <2>1. [c \in CRs |-> Phase(cr[c])] = [c \in CRs |-> "absent"]
        BY DEF Init, Phase
    <2>2. [ns \in Namespaces |-> OwnerOf(cm[ns])] = [ns \in Namespaces |-> Nil]
        BY DEF Init, OwnerOf, UserConfigMap
    <2> QED BY <2>1, <2>2 DEF Protocol!Init
<1>2. RefineInv /\ [Next]_vars => [Protocol!Next]_(Protocol!vars)
    BY RefinementStep
<1> QED BY <1>1, <1>2, InitRefine, StepRefine, PTL DEF Spec, ImplementsOwnership, Protocol!Spec

-----------------------------------------------------------------------------
(* What the protocol promises holds of the controller                      *)

ProtocolProofs == INSTANCE OwnershipProofs WITH
    None  <- Nil,
    phase <- [c \in CRs |-> Phase(cr[c])],
    owner <- [ns \in Namespaces |-> OwnerOf(cm[ns])]

\* A managed ConfigMap names a source.
CopiesNamed == \A ns \in Namespaces : ~ListedFor(cm[ns], Nil)

\* Nobody makes a managed ConfigMap without a source.
LEMMA NamedStep ==
    ASSUME ~InformerLag, RefineInv, CopiesNamed, [Next]_vars
    PROVE  CopiesNamed'
<1> USE DEF RefineInv
<1>1. CASE UNCHANGED cm
    BY <1>1 DEF CopiesNamed
<1>2. FinalizerCall \/ ReleaseCall \/ PatchCall \/ PatchErrorCall => UNCHANGED cm
    BY FinalizerFacts, ReleaseFacts, PatchFacts
<1>3. CASE UpsertCall
    <2>1. ~ListedFor(Target, Nil)
        BY <1>3, UpsertFacts, NilAssumption DEF ListedFor, Target
    <2> QED BY <1>3, <2>1, UpsertFacts DEF CopiesNamed
<1>4. CASE DetachCall
    BY <1>4, DetachFacts DEF CopiesNamed, ListedFor
<1>5. ASSUME NEW ns \in Namespaces, PruneCall(ns) PROVE CopiesNamed'
    BY <1>5, PruneFacts DEF CopiesNamed, ListedFor
<1>6. CASE Users
    BY <1>6, UsersMarkNothing DEF CleanInv, CopiesNamed
<1> QED BY <1>1, <1>2, <1>3, <1>4, <1>5, <1>6, StepKinds

\* A copy that is accounted for in the protocol has a resource that holds the
\* finalizer and names its source.
LEMMA AccountedNoOrphans ==
    ASSUME SourceInv, CopiesNamed, ProtocolProofs!Accounted
    PROVE  NoOrphans
<1> SUFFICES ASSUME NEW ns \in Namespaces, cm[ns] # Nil, cm[ns].managed
             PROVE  \E c \in CRs : cr[c] # Nil /\ cr[c].finalizer
                                    /\ cr[c].spec.source = cm[ns].source
    BY DEF NoOrphans
<1>1. OwnerOf(cm[ns]) = cm[ns].source /\ cm[ns].source # Nil
    BY DEF OwnerOf, CopiesNamed, ListedFor
<1>2. PICK c \in CRs : SourceOf[c] = OwnerOf(cm[ns]) /\ Phase(cr[c]) \in {"guarded", "deleting"}
    BY <1>1 DEF ProtocolProofs!Accounted, ProtocolProofs!Guarded
<1>3. cr[c] # Nil /\ cr[c].finalizer
    BY <1>2 DEF Phase
<1> QED BY <1>1, <1>2, <1>3 DEF SourceInv, StoredSource

\* With current reads of ConfigMaps and sources that stay, no managed ConfigMap
\* outlives its propagation: there always is one that holds the finalizer and
\* will clean it up.
THEOREM NothingOrphaned ==
    ASSUME ~InformerLag, SourcesFixed
    PROVE  Spec => []NoOrphans
<1>1. Init => RefineInv /\ CopiesNamed
    BY InitRefine DEF Init, CopiesNamed, ListedFor, UserConfigMap
<1>2. RefineInv /\ CopiesNamed /\ [Next]_vars => RefineInv' /\ CopiesNamed'
    BY StepRefine, NamedStep
<1>3. Spec => []ProtocolProofs!Accounted
    <2>1. Spec => Protocol!Spec
        BY Refinement DEF ImplementsOwnership
    <2>2. Protocol!Init => ProtocolProofs!Init
        BY DEF Protocol!Init, ProtocolProofs!Init
    <2>3. [Protocol!Next]_(Protocol!vars) => [ProtocolProofs!Next]_(ProtocolProofs!vars)
        BY DEF Protocol!Next, Protocol!vars, Protocol!Create, Protocol!Withdraw,
               Protocol!Guard, Protocol!RequestDelete, Protocol!Release, Protocol!Move,
               Protocol!Copy, Protocol!Drop, Protocol!Guarded,
               ProtocolProofs!Next, ProtocolProofs!vars, ProtocolProofs!Create,
               ProtocolProofs!Withdraw, ProtocolProofs!Guard, ProtocolProofs!RequestDelete,
               ProtocolProofs!Release, ProtocolProofs!Move, ProtocolProofs!Copy,
               ProtocolProofs!Drop, ProtocolProofs!Guarded
    <2>4. ProtocolProofs!Spec => []ProtocolProofs!Accounted
        BY ProtocolProofs!AllAccounted
    <2> QED BY <2>1, <2>2, <2>3, <2>4, PTL DEF Protocol!Spec, ProtocolProofs!Spec
<1>4. RefineInv /\ CopiesNamed /\ ProtocolProofs!Accounted => NoOrphans
    BY AccountedNoOrphans DEF RefineInv
<1> QED BY <1>1, <1>2, <1>3, <1>4, PTL DEF Spec
=============================================================================
