------------------------- MODULE MCPersonalDictionary -------------------------
\* Instances of PersonalDictionary for TLC: the defaults are one normal and one
\* vault entry; "Key" and "key" are one phrase in two spellings.
EXTENDS PersonalDictionary

SomePhrases == {"omw", "key", "Key"}
LowercaseOf == [p \in SomePhrases |-> IF p = "Key" THEN "key" ELSE p]
SomeDefaults ==
    {[id |-> 1, phrase |-> "omw", shortcut |-> "o", partition |-> "NORMAL"],
     [id |-> 2, phrase |-> "key", shortcut |-> "a", partition |-> "PRIVACY_VAULT"]}

AllFaults == FaultKinds
===============================================================================
