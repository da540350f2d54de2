CONSTANTS
    None = None
    To = 5
    StaleFactor = 2
    MediumSample = 2
    HighSample = 3
    RepeatedOutages = 2
    Tolerance = 1
    Subject = 3
    Private = {3}
    Numeric = {"20"}
    AnswerBytes = {1, 2}
    MaxClusterEntities = 2
    MaxMeshMetricEntities = 1
    MaxRestartProbes = 1
    FallbackSince = 1
    MaxFailures = 1
CONSTANTS
    Entities <- MCEntities
    Devices <- MCDevices
    Rows <- MCRows
    Entries <- MCEntries
    Histories <- MCHistories
    OtherHistories <- MCOtherHistories
    DownNow <- MCDownNow
    RepairLists <- MCRepairLists
    TraceLists <- MCTraceLists
    LogbookRows <- MCLogbookRows
    Configs <- MCConfigs
    Limits <- MCLimits
    Estimate <- MCEstimate
SPECIFICATION Spec
INVARIANTS
    TypeOK
    MeasuredAsDefined
    BlameIsEarned
    EverySourceTold
    ReadsAreDisciplined
PROPERTY
    EveryStepAdvances
