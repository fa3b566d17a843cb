SPECIFICATION FairSpec
CONSTANTS
    Keys = {"k1"}
    Values = {"v1", "v2"}
    Nil = Nil
    Namespaces = {1, 2, 3}
    LabelKeys = {"team"}
    LabelValues = {"a", "b"}
    BatchSizeEnv = 17
    IntWidth = 4
    CRs = {"cp"}
    Specs <- LifecycleSpecs
    InitialLabels <- SourceApart
    SourceNamespaces = {1}
    InitialData <- OneEntry
    Edits = {"createResource", "updateResource", "deleteResource"}
    Denied = {}
    EnableWebhooksEnv = Nil
    StatusServed = TRUE
    InformerLag = FALSE
    MaxEdits = 3
    MaxFaults = 1
    MaxCrashes = 1
INVARIANTS TypeOK FinalizerGuard SettledStatus
PROPERTIES ImplementsOwnership FinalizeComplete SourceKept DeletionCompletes
CHECK_DEADLOCK FALSE
