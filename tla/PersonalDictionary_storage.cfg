SPECIFICATION Spec
CONSTANTS
    Ids = {1, 2, 3}
    Phrases <- SomePhrases
    Shortcuts = {"o", "a"}
    NoShortcut = "none"
    Lowercase <- LowercaseOf
    Defaults <- SomeDefaults
    MaxEdits = 2
    MaxDialogs = 2
    MaxCrashes = 1
    Faults <- AllFaults
INVARIANT LookupsAreLive
INVARIANT EntriesAreFound
INVARIANT NormalIsMirrored
PROPERTY EditsSurvive
CHECK_DEADLOCK FALSE
