CONSTANTS
    Symbols = {"//"}
    Dictionaries <- MCDictionaries
    Test = {"launch", "node_breaker", "varEnv", "help"}
    TestOf <- MCTestOf
    Values = {0, 1, 2}
    ExitModulus = 2
    MaxLaunches = 2
SPECIFICATION SpecTests
CONSTRAINT Focus
INVARIANTS
    SimulationOnCompleteInputs
    SuccessMeansSimulated
    UpdateMakesTestsPass
    MessagesFollowDictionary
    RefusalLeavesOutputs
PROPERTIES
    PassedTestsCompared
