----------------------------- MODULE SpecRules ------------------------------
(***************************************************************************)
(* The desired state of a ConfigPropagation (types.go) and the two         *)
(* functions every entry point applies to it before use: DefaultSpec and   *)
(* ValidateSpec (validation.go). An unset field is Nil. The webhook, the   *)
(* reconciler and the finalizer all call them, in this order.              *)
(***************************************************************************)
EXTENDS Integers, FiniteSets, ConfigData, Selectors

CONSTANTS
    Namespaces,     \* namespace names, as naturals: their order is the code's string order
    BatchSizeEnv,   \* BATCH_SIZE of the operator's environment, Nil if unset or not a number
    IntWidth        \* width of the int32 that a batch size is stored in

ASSUME NamespacesAssumption == Namespaces \subseteq Nat /\ IsFiniteSet(Namespaces)
ASSUME BatchSizeEnvAssumption == BatchSizeEnv \in Int \cup {Nil}
ASSUME UnsetAssumption == Nil \notin Int
ASSUME IntWidthAssumption == IntWidth \in Nat /\ 2 ^ IntWidth \in Nat \ {0}

\* Go's conversion int32(n).
Int32(n) ==
    LET low == n % 2 ^ IntWidth
    IN  IF 2 * low >= 2 ^ IntWidth THEN low - 2 ^ IntWidth ELSE low

\* validation.go, defaultBatchSize: the range check is on the wide integer.
DefaultBatchSize ==
    IF BatchSizeEnv # Nil /\ BatchSizeEnv >= 1 THEN Int32(BatchSizeEnv) ELSE 5

SpecType ==
    [source         : Namespaces \cup {Nil},        \* sourceRef.namespace; every propagation uses one name
     dataKeys       : SUBSET Keys,
     selector       : LabelSelectors \cup {Nil},      \* namespaceSelector
     strategy       : {"rolling", "immediate", Nil},
     batchSize      : Int \cup {Nil},
     conflictPolicy : {"overwrite", "skip", Nil},
     prune          : BOOLEAN \cup {Nil},
     resync         : Int \cup {Nil}]               \* resyncPeriodSeconds

Default(field, value) == IF field = Nil THEN value ELSE field

\* DefaultSpec without a default for prune.
DefaultSpecNoPrune(spec) ==
    [spec EXCEPT !.strategy       = Default(@, "rolling"),
                 !.batchSize      = Default(@, DefaultBatchSize),
                 !.conflictPolicy = Default(@, "overwrite")]

\* validation.go, DefaultSpec.
DefaultSpec(spec) ==
    [spec EXCEPT !.strategy       = Default(@, "rolling"),
                 !.batchSize      = Default(@, DefaultBatchSize),
                 !.conflictPolicy = Default(@, "overwrite"),
                 !.prune          = Default(@, TRUE)]

\* validation.go, ValidateSpec. The enumerations cannot hold other values here.
ValidateSpec(spec) ==
    /\ spec.source # Nil
    /\ spec.selector # Nil
    /\ spec.batchSize # Nil => spec.batchSize >= 1
    /\ spec.resync # Nil => spec.resync >= 10
=============================================================================
