SPECIFICATION Spec
CONSTANTS
    Keys = {"k1"}
    Values = {"v1", "v2"}
    Nil = Nil
    Namespaces = {1, 2, 3}
    LabelKeys = {"team"}
    LabelValues = {"a", "b"}
    BatchSizeEnv = Nil
    IntWidth = 4
    CRs = {"cp"}
    Specs <- RolloutSpecs
    InitialLabels <- SourceApart
    SourceNamespaces = {1}
    InitialData <- OneEntry
    Edits = {"createResource", "updateResource", "source", "deleteSource", "relabel"}
    Denied = {}
    EnableWebhooksEnv = Nil
    StatusServed = TRUE
    InformerLag = FALSE
    MaxEdits = 3
    MaxFaults = 1
    MaxCrashes = 1
INVARIANTS CompletedIsSynced BatchRespected GaugesAgree
CHECK_DEADLOCK FALSE
