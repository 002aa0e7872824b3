SPECIFICATION FairSpec
CONSTANTS
    Coros = {k1, k2, k3}
    Main = Main
    Chunk = 2
    Batch = 1
    EndsWhenIdle = TRUE
INVARIANTS ListsAgree OneReason
PROPERTIES TurnComes AnswerWakes
