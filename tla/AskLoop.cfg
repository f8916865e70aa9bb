SPECIFICATION FairSpec
CONSTANTS
    MaxTurns = 2
    MaxBatch = 2
    MaxDepth = 2
INVARIANTS TypeOK ProviderHome CallsAnswered BudgetKept ReplyTells
PROPERTIES QuestionStands Returns
