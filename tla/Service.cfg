SPECIFICATION FairSpec
CONSTANTS
    Clients = {c1, c2}
    Operations <- MCOperations
    InitialFacts <- MCInitialFacts
    Generated = {"g1", "g2"}
    DefaultSpace = "default"
    None = None
    MaxAttempts = 2
INVARIANTS
    AnswersStayTrue
    OneSuccessor
PROPERTIES
    ChangesStayInTheirSpace
    PoisonedConfirmsNothing
    InterruptedDaemonExits
