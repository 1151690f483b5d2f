\* A transport block whose answer comes when its cell has no symbols left.
CONSTANTS
    LookAhead = 1
    AnswerDelay = 1
    HarqTimeout = 5
    MaxRv = 1
    DataSymbols = 2
    MaxTbs = 3
SPECIFICATION Spec
INVARIANT AnswersAreKept
