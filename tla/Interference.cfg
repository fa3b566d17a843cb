SPECIFICATION FairSpec
CONSTANTS
    Keys = {"k1"}
    Values = {"v1"}
    Nil = Nil
    Namespaces = {1, 2, 3}
    LabelKeys = {"team"}
    LabelValues = {"a", "b"}
    BatchSizeEnv = 1
    IntWidth = 4
    CRs = {"cp"}
    Specs <- InterferenceSpecs
    InitialLabels <- SourceApart
    SourceNamespaces = {1}
    InitialData <- OneEntry
    Edits = {"createResource", "deleteResource", "createTarget", "editTarget", "deleteTarget", "annotateTarget"}
    Denied = {}
    EnableWebhooksEnv = Nil
    StatusServed = FALSE
    InformerLag = TRUE
    MaxEdits = 4
    MaxFaults = 0
    MaxCrashes = 0
PROPERTIES DeletionCompletes DetachPreserves
CHECK_DEADLOCK FALSE
