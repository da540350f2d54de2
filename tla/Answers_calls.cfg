CONSTANTS
    MaxDependencies = 4
    MaxWalkDepth = 8
    MaxNodes = 9
    MaxLogicDepth = 2
    MaxValues = 4
    MaxValueDepth = 2
    MaxTraceSteps = 8
    MaxDepth = 4
    MaxLogicNodeBytes = 7
    MaxTraceStepBytes = 7
    MaxHistoryWindow = 6
    To = 5
    StaleFactor = 2
    FreeTextKeys = {"alias", "description", "message", "title", "name"}
    PrivateDomains = {"person", "device_tracker"}
    PrivateClasses = {"presence", "occupancy", "motion"}
    PrivateKeys = {"latitude", "longitude"}
    SecretKeys = {"api_key", "token"}
    Secrets = {"#sesame"}
    PrivateTexts = {"at_home", "away", "anna came home", "48.2"}
    ClassTexts = {"open", "closed"}
    SecretTexts = {"#sesame", "#other"}
    AnswerBytes = {1, 3}
CONSTANTS
    Shapes <- MCShapes
    Parts <- MCParts
    DomainOf <- MCDomainOf
    Instant <- MCInstant
    KeyOrder <- MCKeyOrder
    IndexText <- MCIndexText
    ParentPath <- MCParentPath
    Calls <- MCCalls
    Homes <- MCHomes
    Flips <- MCFlips
    Limits <- MCLimits
    Estimate <- MCEstimate
SPECIFICATION Spec
INVARIANTS
    TypeOK
    NothingLeaks
    LogicIsWhole
    StepsInPlace
    InventoryIsWhole
    OutcomesAreFacts
PROPERTY
    EveryReadIsNew
