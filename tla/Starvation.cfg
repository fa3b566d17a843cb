SPECIFICATION FairSpec
CONSTANTS
    Keys = {"k1"}
    Values = {"v1", "v2"}
    Nil = Nil
    Namespaces = {1, 2, 3}
    LabelKeys = {"team"}
    LabelValues = {"a", "b"}
    BatchSizeEnv = Nil
    IntWidth = 4
    CRs = {"cp"}
    Specs <- SkipSpecs
    InitialLabels <- SourceApart
    SourceNamespaces = {1}
    InitialData <- OneEntry
    Edits = {"createResource", "createTarget"}
    Denied = {}
    EnableWebhooksEnv = Nil
    StatusServed = TRUE
    InformerLag = FALSE
    MaxEdits = 2
    MaxFaults = 0
    MaxCrashes = 0
PROPERTIES RolloutAdvances
CHECK_DEADLOCK FALSE
