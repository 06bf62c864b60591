SPECIFICATION FairSpec
CONSTANTS
    StreakLimit = 2
    MaxWord = 3
    Shortcut = 1
    Phrase = 3
    MaxFields = 2
    Sensitive <- SecondField
    MaxRemember = 1
    AutoRelock = TRUE
    MaxQueries = 2
    Scenarios <- AllScenarios
 
INVARIANT ComposingShown
 
 
CHECK_DEADLOCK FALSE
