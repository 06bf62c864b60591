SPECIFICATION Spec
CONSTANTS
    MaxThreads = 3
    MaxNodes = 3
    Graphs <- MCGraphs
INVARIANTS
    KernelsUndisturbed
PROPERTIES
    Implements
