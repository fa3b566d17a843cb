------------------------ MODULE PropagationOwnership ------------------------
(***************************************************************************)
(* The controller implements the ownership protocol of module Ownership,   *)
(* provided that a propagation keeps its source and that reads of          *)
(* ConfigMaps are current.                                                 *)
(***************************************************************************)
EXTENDS Propagation

\* Every spec that users apply to c names one source.
SourceOf == [c \in CRs |-> (CHOOSE spec \in Specs[c] : TRUE).source]

\* The life of a propagation as the API server shows it.
Phase(resource) ==
    IF resource = Nil THEN "absent"
    ELSE IF ~resource.finalizer THEN "new"
    ELSE IF resource.deleting THEN "deleting" ELSE "guarded"

\* The source whose markers a ConfigMap carries.
OwnerOf(configMap) == IF configMap # Nil /\ configMap.managed THEN configMap.source ELSE Nil

Protocol == INSTANCE Ownership WITH
    None  <- Nil,
    phase <- [c \in CRs |-> Phase(cr[c])],
    owner <- [ns \in Namespaces |-> OwnerOf(cm[ns])]

\* Every step of the controller, of the users, of a failure or of a restart is
\* a step of the ownership protocol or leaves it alone: copies are made only
\* under the finalizer, which goes only when none is left
\* (runtime_controller.go:57-79, controller.go:286, 361-373).
ImplementsOwnership == Protocol!Spec
=============================================================================
