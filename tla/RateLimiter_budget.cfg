SPECIFICATION Spec
SYMMETRY Symmetry
CONSTANTS
    Processes = {p1, p2}
    Capacity = 6
    Refill = 2
    Cost = 3
    MaxLag = 2
    MaxTime = 8
    MaxCalls = 5
    None = None
INVARIANTS BudgetInOrder IInv
PROPERTIES RetryAfterIsEnough
