SPECIFICATION Spec
CONSTANTS
    Commands <- MCCommands
    Answers <- MCAnswers
    Lines <- MCLines
    JobIds = {1, 2}
    MaxRows = 2
    MaxLines = 3
    MaxAsked = 2
    MaxInvocations = 1
    NestedPrompts = TRUE
INVARIANTS TypeOK RowsAccountedFor GateHolds StdinOwn Logged TableBounded CompletionInTurn
PROPERTIES GrantAsked RowLifecycle
