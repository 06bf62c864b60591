SPECIFICATION Spec
CONSTANTS
    Words <- MCWords
    Grams <- MCGrams
    Values = {1, 200}
    MaxUpdates = 3
    Earlier <- MCEarlier
INVARIANTS
    ReadsAgree

    
