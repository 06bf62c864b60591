SPECIFICATION FairSpec
CONSTANTS
    MaxViews = 2
    MaxConns = 2
    MaxTaps = 2
    MaxCrashes = 0
    MaxTexts = 1
    Trouble = {}
INVARIANT PanelAgrees
INVARIANT OwnSpeech
 
PROPERTY ClosingStopsMic
PROPERTY StartAnswered
CHECK_DEADLOCK FALSE
