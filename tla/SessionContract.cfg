SPECIFICATION Spec
CONSTANTS
    Commands <- MCCommands
    Answers <- MCAnswers
    Lines <- MCLines
    JobIds = {1}
    MaxRows = 2
    MaxLines = 3
    MaxAsked = 3
    MaxInvocations = 1
    NestedPrompts = FALSE
INVARIANTS CallerKnows
PROPERTIES Contract
