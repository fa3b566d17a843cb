SPECIFICATION FairSpec
CONSTANTS
    Keys = {"k1"}
    Values = {"v1"}
    Nil = Nil
    Namespaces = {1, 2, 3}
    LabelKeys = {"team"}
    LabelValues = {"a", "b"}
    BatchSizeEnv = Nil
    IntWidth = 4
    CRs = {"cp"}
    Specs <- BothResyncSpecs
    InitialLabels <- SourceApart
    SourceNamespaces = {1}
    InitialData <- OneEntry
    Edits = {"createResource", "source", "relabel"}
    Denied = {}
    EnableWebhooksEnv = Nil
    StatusServed = TRUE
    InformerLag = FALSE
    MaxEdits = 3
    MaxFaults = 1
    MaxCrashes = 1
PROPERTIES Converges WritesCease
CHECK_DEADLOCK FALSE
