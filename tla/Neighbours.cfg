SPECIFICATION FairSpec
CONSTANTS
    Keys = {"k1"}
    Values = {"v1", "v2"}
    Nil = Nil
    Namespaces = {1, 2, 3}
    LabelKeys = {"team"}
    LabelValues = {"a", "b"}
    BatchSizeEnv = 17
    IntWidth = 4
    CRs = {"p", "q"}
    Specs <- NeighbourSpecs
    InitialLabels <- NeighbourLabels
    SourceNamespaces = {1, 3}
    InitialData <- Different
    Edits = {"createResource", "deleteResource", "relabel", "createNamespace", "deleteNamespace"}
    Denied = {3}
    EnableWebhooksEnv = Nil
    StatusServed = TRUE
    InformerLag = FALSE
    MaxEdits = 4
    MaxFaults = 0
    MaxCrashes = 0
INVARIANTS NoOrphans
PROPERTIES ImplementsOwnership NeighboursConverge
CHECK_DEADLOCK FALSE
