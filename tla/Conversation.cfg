SPECIFICATION Spec
CONSTANTS
    MaxRounds = 2
    MaxCalls = 2
INVARIANTS
    AnswersComeBack
    ResultsPaired
    QuestionsKept
    PromptFirst
CHECK_DEADLOCK FALSE
