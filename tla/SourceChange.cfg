SPECIFICATION Spec
CONSTANTS
    Keys = {"k1"}
    Values = {"v1", "v2"}
    Nil = Nil
    Namespaces = {1, 2, 3}
    LabelKeys = {"team"}
    LabelValues = {"a", "b"}
    BatchSizeEnv = 17
    IntWidth = 4
    CRs = {"cp"}
    Specs <- SourceChangeSpecs
    InitialLabels <- SourceApart
    SourceNamespaces = {1, 2}
    InitialData <- OneEntry
    Edits = {"createResource", "updateResource", "deleteResource"}
    Denied = {}
    EnableWebhooksEnv = Nil
    StatusServed = TRUE
    InformerLag = FALSE
    MaxEdits = 3
    MaxFaults = 0
    MaxCrashes = 0
INVARIANTS DeletionLeavesNothing
CHECK_DEADLOCK FALSE
