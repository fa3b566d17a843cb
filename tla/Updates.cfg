SPECIFICATION Spec
CONSTANTS
    Keys = {"k1", "k2"}
    Values = {"v1"}
    Nil = Nil
    Namespaces = {1, 2, 3}
    LabelKeys = {"team"}
    LabelValues = {"a", "b"}
    BatchSizeEnv = Nil
    IntWidth = 4
    CRs = {"cp"}
    Specs <- UpdatesSpecs
    InitialLabels <- SourceApart
    SourceNamespaces = {1}
    InitialData <- TwoEntries
    Edits = {"createResource", "updateResource"}
    Denied = {}
    EnableWebhooksEnv = Nil
    StatusServed = TRUE
    InformerLag = FALSE
    MaxEdits = 4
    MaxFaults = 0
    MaxCrashes = 1
INVARIANTS SettledReady
CHECK_DEADLOCK FALSE
