SPECIFICATION Spec
CONSTANTS
    Runs = {1, 2}
    Strays = {0}
    Keys <- MCKeys
    PartsOf <- MCPartsOf
    SafeKeys <- MCSafeKeys
    Values <- MCValues
    SecretValues <- MCSecretValues
    Redacted = "[redacted]"
    Plans <- MCPlans
    Answers <- MCAnswers
    Reasons <- MCReasons
    StrayRecords <- MCStrayRecords
    Nothing = Nothing
    Torn = Torn
    Other = Other
    Unreadable = Unreadable
    MaxTime = 2
    MaxEdits = 2
INVARIANTS
    TypeOK
    NothingSecretIsKept
    WhatIsReturnedIsKept
    ListMissesNothing
