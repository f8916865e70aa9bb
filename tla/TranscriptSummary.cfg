SPECIFICATION Spec
CONSTANTS
    Cap = 4
    Costs = {0, 1, 3}
    SummaryCost = 2
    MaxLines = 6
    MaxCost = 5
    BufferCuts = FALSE
INVARIANT SummaryCoversCount
CHECK_DEADLOCK FALSE
