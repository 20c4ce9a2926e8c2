\* Three turns: two answers come back in the third request.
CONSTANTS
    NoID = "no id"
    NotJSON = "cut"
    RawJSON = "raw"
    Words = {"be", "brief", "hi", "you", "42", "x", "y", "ok", "hm", "cut", "raw"}
    CallIDs = {"c1", "c2"}
    Prompts <- MCPrompts
    Texts <- MCTexts
    Results <- MCResults
    Answers <- MCAnswers
    MaxTurns = 3
CHECK_DEADLOCK FALSE
SPECIFICATION Spec
INVARIANTS
    TypeOK
    AnswersKept
    TurnsKept
    ResultsNext
    SystemFirst
