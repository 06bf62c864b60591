SPECIFICATION Spec
CONSTANTS
    MaxViews = 2
    MaxConns = 2
    MaxTaps = 1
    MaxCrashes = 1
    MaxTexts = 0
    Trouble = {"unasked", "mic", "gain"}
INVARIANT GainShown
 
CHECK_DEADLOCK FALSE
