SPECIFICATION Spec
CONSTANTS
    Node = {n1, n2}
    None = None
    MaxTerm = 2
    MaxGeneration = 3
INVARIANT CompletedStateSurvives
